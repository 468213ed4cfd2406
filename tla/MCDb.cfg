\* Two blocks for two ids, with mass storage on the same eMMC and FIDO2 on the
\* same device.
CONSTANTS
    MaxDataBlock = 2
    MaxUid = 2
    Data = {a, b}
    NoData = NoData
    Events = {"fido", "storage"}
SPECIFICATION Spec
INVARIANTS MapMatchesDisk OneBlockPerUid CacheCoherent AnswersAreTrue ReadAllExact
           NoAssertion
PROPERTIES EntriesAtomic Answered
CHECK_DEADLOCK FALSE
