\* Two versions of the two programs, no bound on the number of commands, writes
\* of the root block, resets and losses of power.
SPECIFICATION Spec
CONSTANTS
    Versions = {"old", "new"}
    N = 2
INVARIANTS BootsWhole ConfirmedIsWritten
PROPERTIES Answered
