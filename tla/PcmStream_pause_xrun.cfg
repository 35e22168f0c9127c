SPECIFICATION Spec
CONSTANTS
 Streams = {play, capt}
 Playback = {play}
 Threads = {app}
 Driver = pmtask
 BufferSize = 1
 HasPause = TRUE
 HasResume = FALSE
 Fallible = {}
 Features = {"link"}
CHECK_DEADLOCK FALSE
\* PROPERTY XrunIsFromRunning is violated as well, with HasPause = FALSE too.
INVARIANTS  NeverStuck
