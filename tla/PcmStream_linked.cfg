SPECIFICATION Spec
CONSTANTS
 Streams = {play, capt}
 Playback = {play}
 Threads = {app}
 Driver = pmtask
 BufferSize = 2
 HasPause = TRUE
 HasResume = FALSE
 Fallible = {"start", "push", "release"}
 Features = {"link", "close"}
CHECK_DEADLOCK FALSE
INVARIANTS HardwareFollowsState DmaHasBuffer PreparedIsSetUp RunningTogether
PROPERTIES XrunQuiets DropQuiets
