CONSTANTS
    app = app
    other = other
    Threads = {app, other}
    Writers = {app, other}
    Callers = {app}
    BufferSize = 4
    PeriodSize = 1
    Boundary = 16
    AvailMin = 2
    StartThreshold = 3
    MaxLate = 1
    MaxWrite = 5
    Calls = {}
SPECIFICATION Spec
INVARIANTS NoEmptyChunk
