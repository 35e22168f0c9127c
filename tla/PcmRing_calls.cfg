CONSTANTS
    app = app
    ctl = ctl
    Threads = {app, ctl}
    Writers = {app}
    Callers = {ctl}
    BufferSize = 2
    PeriodSize = 1
    Boundary = 8
    AvailMin = 1
    StartThreshold = 2
    MaxLate = 0
    MaxWrite = 2
    Calls = {"pause", "reset", "rewind", "drop", "nonblock"}
SPECIFICATION Spec
INVARIANTS NoEmptyChunk TwakeWhileWriting
