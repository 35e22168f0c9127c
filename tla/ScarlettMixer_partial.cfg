CONSTANTS
    a = a
    b = b
    Threads = {a, b}
    Ioctls = {a, b}
    Volumes = {"Master Volume"}
    Switches = {}
    Enums = {}
    Saves = {}
    Channels = 2
    Levels = {0, 128}
    Attempts = 2
    Faults = TRUE
    MaxUnpaid = 1
SPECIFICATION Spec
\* INVARIANT PmBalancedToTheEnd is violated as well.
INVARIANTS EveryChangeIsTold
