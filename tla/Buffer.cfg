\* Every sequence of calls on a buffer that starts with three bytes of memory.
CONSTANTS
    Bytes = {x, y}
    Junk = junk
    INIT_BUFFER_SIZE = 3
    MaxLen = 4
    MaxTotal = 7
SPECIFICATION Spec
INVARIANTS
    TypeOK
    BytesArriveInOrder
PROPERTY GrowsInProportion
