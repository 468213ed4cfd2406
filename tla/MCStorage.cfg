\* Three commands of the host on either volume: a piece of one sector after two
\* full ones, addresses within the volume, beyond it and wrapping; one operation
\* of the database; one BOT_RESET.
SPECIFICATION Spec
CONSTANTS
    BufferCount = 2
    BufSectors = 2
    Capacity0 = 5
    Capacity1 = 6
    AddrMod = 16
    LBAs = {1, 14}
    Lens = {0, 5}
    MaxCommands = 3
    MaxDb = 1
    MaxResets = 1
INVARIANTS NoFault StatusIsMine ReadsTrue WritesStick WithinVolume
PROPERTIES Answered DbServed
CHECK_DEADLOCK FALSE
