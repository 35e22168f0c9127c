CONSTANTS
    app = app
    ctl = ctl
    Threads = {app, ctl}
    Writers = {app}
    Callers = {ctl}
    BufferSize = 4
    PeriodSize = 1
    Boundary = 16
    AvailMin = 2
    StartThreshold = 3
    MaxLate = 1
    MaxWrite = 5
    Calls = {"drop"}
SPECIFICATION Spec
INVARIANTS NoLostWakeup
