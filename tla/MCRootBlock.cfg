CONSTANTS
    NFields = 2
    IterMod = 16
    MaxVersion = 4
SPECIFICATION Spec
INVARIANTS AlwaysRecoverable SyncedIsDurable
PROPERTIES AtomicUpdate EventuallySynced
