\* Numbers of three bits that wrap again and again.
SPECIFICATION Spec
CONSTANTS
  Half = 4
  MaxLag = 2
  MaxAir = 2
  MaxResets = 2
  Old = Old
  None = None
INVARIANT ComparedTruly
PROPERTY HeardAgain
