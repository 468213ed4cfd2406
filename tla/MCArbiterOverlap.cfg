CONSTANTS
    Work = {"modify"}
    MaxCommands = 5
    MaxModify = 3
SPECIFICATION Spec
INVARIANTS OneAtATime
CHECK_DEADLOCK FALSE
