SPECIFICATION Spec
CONSTANTS
  Byte = {0, 1}
  Zero = 0
  kCheapPrepend = 2
  kInitialSize = 3
  kExtraBuf = 2
  MaxLen = 2
  MaxReadable = 4
INVARIANTS
  MakeSpaceSound
  CapacityBounded
PROPERTIES
  MethodsDoTheirOperation
  ImplementsByteQueue
