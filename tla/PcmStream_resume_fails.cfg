SPECIFICATION Spec
CONSTANTS
 Streams = {play, capt}
 Playback = {play}
 Threads = {app}
 Driver = pmtask
 BufferSize = 1
 HasPause = FALSE
 HasResume = TRUE
 Fallible = {"resume"}
 Features = {"link", "pm"}
CHECK_DEADLOCK FALSE
INVARIANTS SuspendQuiets
