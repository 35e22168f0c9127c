SPECIFICATION FairSpec
CONSTANTS
 Streams = {play, capt}
 Playback = {play}
 Threads = {app}
 Driver = pmtask
 BufferSize = 1
 HasPause = FALSE
 HasResume = FALSE
 Fallible = {"start"}
 Features = {"link", "unplug"}
CHECK_DEADLOCK FALSE
PROPERTIES DrainReturns XrunIsHandled
