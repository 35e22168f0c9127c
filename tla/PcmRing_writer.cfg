CONSTANTS
    app = app
    Threads = {app}
    Writers = {app}
    Callers = {app}
    BufferSize = 4
    PeriodSize = 1
    Boundary = 16
    AvailMin = 3
    StartThreshold = 3
    MaxLate = 1
    MaxWrite = 5
    Calls = {"rewind", "forward", "drain", "drop", "nonblock"}
SPECIFICATION FairSpec
INVARIANTS RingNotOverrun ChunkIsFree PointerFollows NoLostWakeup
PROPERTIES NothingReallyWrong WriteReturns
