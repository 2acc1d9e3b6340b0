\* A delimited continuation reinstated inside its own extent.
CONSTANTS
  f1 = f1
  v1 = v1
  v2 = v2
  k1 = k1
  t1 = t1
  d1 = d1
  d2 = d2
  NoVal = NoVal
  Unbound = Unbound
  dflt = dflt
  FluidDefault = dflt
  Fluids <- MCFluids
  Values <- MCValues
  States <- MCNone
  Keys <- MCKeys
  Thunks <- MCNone
  Data <- MCNone
  FrameFlags <- MCAnyFlag
  WinderFlags <- MCAnyFlag
  PromptFlags <- MCFlagOff
  InitCapacity <- MCInitCapacity
  MaxBoxes <- MCOneBox
  MaxStateBoxes <- MCNoStateBoxes
  MaxDepth <- MCMaxDepth
  MaxFullConts <- MCMaxConts
  MaxPartConts <- MCMaxConts
  AllowReentry = TRUE
SYMMETRY MCSymmetry
SPECIFICATION Spec
PROPERTY FluidRefinement
