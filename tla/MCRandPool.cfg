CONSTANTS
    Size = 4
    MaxNeed = 2
    Preempt = TRUE
    BootRewind = TRUE
SPECIFICATION Spec
INVARIANTS NeverOverstated Replayed
PROPERTIES Served
CHECK_DEADLOCK FALSE
