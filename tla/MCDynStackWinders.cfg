\* dynamic-wind thunks and C winders in dynwind frames across exits, throws and delimited continuations.
CONSTANTS
  f1 = f1
  v1 = v1
  v2 = v2
  k1 = k1
  t1 = t1
  d1 = d1
  d2 = d2
  NoVal = NoVal
  Unbound = Unbound
  dflt = dflt
  FluidDefault = dflt
  Fluids <- MCNone
  Values <- MCValues
  States <- MCNone
  Keys <- MCKeys
  Thunks <- MCThunks
  Data <- MCData
  FrameFlags <- MCAnyFlag
  WinderFlags <- MCAnyFlag
  PromptFlags <- MCAnyFlag
  InitCapacity <- MCInitCapacity
  MaxBoxes <- MCMaxBoxes
  MaxStateBoxes <- MCNoStateBoxes
  MaxDepth <- MCMaxDepth
  MaxFullConts <- MCNoConts
  MaxPartConts <- MCMaxConts
  AllowReentry = FALSE
SYMMETRY MCSymmetry
SPECIFICATION Spec
INVARIANT UnwinderRunsOnce
INVARIANT DynwindBalance
INVARIANT HeightWithinCapacity
