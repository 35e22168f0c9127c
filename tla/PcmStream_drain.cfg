SPECIFICATION Spec
CONSTANTS
 Streams = {play, capt}
 Playback = {play}
 Threads = {app}
 Driver = pmtask
 BufferSize = 1
 HasPause = FALSE
 HasResume = FALSE
 Fallible = {}
 Features = {}
CHECK_DEADLOCK FALSE
\* PROPERTY DrainEndsInSetup is violated as well.
PROPERTIES DrainTimeoutIsTrouble
