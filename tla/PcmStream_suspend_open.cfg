SPECIFICATION Spec
CONSTANTS
 Streams = {play, capt}
 Playback = {play}
 Threads = {app}
 Driver = pmtask
 BufferSize = 1
 HasPause = FALSE
 HasResume = FALSE
 Fallible = {}
 Features = {"pm"}
CHECK_DEADLOCK FALSE
INVARIANTS  PreparedIsSetUp
