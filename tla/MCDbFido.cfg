CONSTANTS
    MaxDataBlock = 2
    MaxUid = 1
    Data = {a}
    NoData = NoData
    Events = {"fido"}
SPECIFICATION Spec
INVARIANTS AcknowledgedIsWritten
CHECK_DEADLOCK FALSE
