CONSTANTS
    a = a
    b = b
    Threads = {a, b}
    Ioctls = {a, b}
    Volumes = {"Master Volume"}
    Switches = {}
    Enums = {}
    Saves = {}
    Channels = 1
    Levels = {128, 300}
    Attempts = 2
    Faults = FALSE
    MaxUnpaid = 1
SPECIFICATION Spec
INVARIANTS CacheIsDevice
