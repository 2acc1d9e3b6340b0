\* C winders in dynwind frames when full continuations are reinstated too.
CONSTANTS
  f1 = f1
  v1 = v1
  v2 = v2
  k1 = k1
  t1 = t1
  d1 = d1
  d2 = d2
  NoVal = NoVal
  Unbound = Unbound
  dflt = dflt
  FluidDefault = dflt
  Fluids <- MCNone
  Values <- MCValues
  States <- MCNone
  Keys <- MCKeys
  Thunks <- MCNone
  Data <- MCData
  FrameFlags <- MCAnyFlag
  WinderFlags <- MCAnyFlag
  PromptFlags <- MCFlagOff
  InitCapacity <- MCInitCapacity
  MaxBoxes <- MCMaxBoxes
  MaxStateBoxes <- MCNoStateBoxes
  MaxDepth <- MCMaxDepth
  MaxFullConts <- MCMaxConts
  MaxPartConts <- MCMaxConts
  AllowReentry = FALSE
SYMMETRY MCSymmetry
SPECIFICATION Spec
INVARIANT UnwinderRunsOnce
