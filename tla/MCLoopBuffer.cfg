SPECIFICATION Spec
CONSTANTS
  Size = 3
  Byte = {x, y}
  Blocks <- MCBlocks
  Lengths <- MCLengths
INVARIANTS
  TypeOK
  NeverOverfull
PROPERTIES
  ImplementsByteQueue
