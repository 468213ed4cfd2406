CONSTANTS
    MaxDataBlock = 2
    MaxUid = 3
    Data = {a}
    NoData = NoData
    Events = {"full"}
SPECIFICATION Spec
INVARIANTS EntriesOnEmmcOnly
CHECK_DEADLOCK FALSE
