SPECIFICATION Spec
CONSTANTS
 Streams = {play, capt}
 Playback = {play, capt}
 Threads = {app}
 Driver = pmtask
 BufferSize = 1
 HasPause = FALSE
 HasResume = FALSE
 Fallible = {}
 Features = {"link", "signal"}
CHECK_DEADLOCK FALSE
PROPERTIES DropQuiets
