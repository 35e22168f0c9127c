CONSTANTS
    app = app
    Threads = {app}
    Writers = {app}
    Callers = {app}
    BufferSize = 4
    PeriodSize = 1
    Boundary = 16
    AvailMin = 2
    StartThreshold = 3
    MaxLate = 1
    MaxWrite = 5
    Calls = {"pause", "forward"}
SPECIFICATION Spec
PROPERTIES NothingReallyWrong
