\* with-fluids bindings and with-dynamic-state extents across aborts, throws
\* and continuations; frames are non-rewindable (rewindable ones are rewound
\* in the winders run).
CONSTANTS
  f1 = f1
  v1 = v1
  v2 = v2
  k1 = k1
  t1 = t1
  d1 = d1
  d2 = d2
  NoVal = NoVal
  Unbound = Unbound
  dflt = dflt
  FluidDefault = dflt
  Fluids <- MCFluids
  Values <- MCValues
  States <- MCStates
  Keys <- MCKeys
  Thunks <- MCNone
  Data <- MCNone
  FrameFlags <- MCFlagOff
  WinderFlags <- MCAnyFlag
  PromptFlags <- MCFlagOff
  InitCapacity <- MCInitCapacity
  MaxBoxes <- MCOneBox
  MaxStateBoxes <- MCOneStateBox
  MaxDepth <- MCMaxDepth
  MaxFullConts <- MCMaxConts
  MaxPartConts <- MCMaxConts
  AllowReentry = FALSE
SYMMETRY MCSymmetry
SPECIFICATION Spec
INVARIANT TypeOK
PROPERTY FluidRefinement
INVARIANT OldFluidValue
