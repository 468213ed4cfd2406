SPECIFICATION Spec
CONSTANTS
    N = 2
    RingSize = 3
    SignetWords = 2
    CtapWords = 2
    Checks = {0, 2}
    Events = {"fido", "storage", "disconnect", "power"}
    MaxWritten = 4
INVARIANTS WipedWhole NoAssertion
PROPERTIES InitializedWhole Answered
