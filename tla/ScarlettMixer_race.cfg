CONSTANTS
    a = a
    b = b
    Threads = {a, b}
    Ioctls = {a}
    Volumes = {"Master Volume"}
    Switches = {}
    Enums = {}
    Saves = {}
    Channels = 1
    Levels = {0, 128}
    Attempts = 2
    Faults = FALSE
    MaxUnpaid = 1
SPECIFICATION Spec
INVARIANTS CacheIsDevice
