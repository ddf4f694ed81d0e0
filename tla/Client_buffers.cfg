SPECIFICATION Spec
CONSTANTS
  Objects = {o1, o2, o3}
  Buffers = {b1, b2, b3, b4}
  Null = Null
  MaxLen = 2
  KeyLen = 1
  NoValue = NoValue
  NoObject = NoObject
  DbMayFail = TRUE
  MemoryMayFail = TRUE
INVARIANTS TypeOK OneOwner NoBadDelete SizeOfBuffer
PROPERTY ImplementsValues
