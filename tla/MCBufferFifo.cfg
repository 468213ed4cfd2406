CONSTANTS
    BufferCount = 4
    MaxBufferSize = 2
    MaxTransfer = 13
    StageCounts = {2, 3}
SPECIFICATION Spec
INVARIANTS NoConflict ReadsNextChunk CompleteMeansMoved
PROPERTIES EveryTransferCompletes
