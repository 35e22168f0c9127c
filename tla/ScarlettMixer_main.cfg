CONSTANTS
    a = a
    b = b
    Threads = {a, b}
    Ioctls = {a, b}
    Volumes = {"Master Volume"}
    Switches = {}
    Enums = {"Impedance"}
    Saves = {"Save"}
    Channels = 2
    Levels = {0, 128}
    Attempts = 2
    Faults = TRUE
    MaxUnpaid = 1
SPECIFICATION FairSpec
INVARIANTS CacheIsDevice PmBalanced EveryChangeIsReported
PROPERTIES SilentAfterShutdown CallsReturn
