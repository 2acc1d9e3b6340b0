\* One thread setting options with every argument list of up to three elements.
CONSTANTS
  b = b
  n = n
  s = s
  x = x
  u = u
  t1 = t1
  t2 = t2
  None = None
  Table <- MCTableRace
  Type <- MCTypeRace
  Values <- MCValuesRace
  Threads <- MCTwo
  Unknown = u
  MaxArgs = 2
SPECIFICATION Spec
PROPERTY OptionsAtomic
