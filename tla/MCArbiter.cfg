CONSTANTS
    Work = {"progress", "modify"}
    MaxCommands = 5
    MaxModify = 3
SPECIFICATION Spec
INVARIANTS TurnsRespected HeldOnlyInUse
PROPERTIES SignetServed CtapServed
CHECK_DEADLOCK FALSE
