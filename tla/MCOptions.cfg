\* One thread setting options with every argument list of up to three elements.
CONSTANTS
  b = b
  n = n
  s = s
  x = x
  u = u
  t1 = t1
  t2 = t2
  None = None
  Table <- MCTable
  Type <- MCType
  Values <- MCValues
  Threads <- MCOne
  Unknown = u
  MaxArgs = 3
SPECIFICATION Spec
INVARIANT TypeOK
INVARIANT SettingRoundTrip
PROPERTY OptionsAtomic
