SPECIFICATION Spec
CONSTANTS
    BufferSize = 4
    Sample = {0, 1}
    MaxTransfer = 3
INVARIANTS Inv NoDataRace
PROPERTIES ImplementsQueue
