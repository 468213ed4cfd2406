SPECIFICATION HidSpec
CONSTANTS
    MaxPackets = 2
    MaxEntries = 2
    Texts = {2, 3}
    CharMod = 3
    IdMod = 3
    Disturbances = {"restart", "event"}
INVARIANT AnswersWhole
PROPERTIES TypedTrue Answered
CHECK_DEADLOCK FALSE
