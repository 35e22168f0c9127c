SPECIFICATION Spec
CONSTANTS
 Feedback = {"explicit"}
 NUrbs = 2
 AtOnce = 1
 Faulty = {}
 Unplug = "any time"
 Grow = FALSE
 None = None
CHECK_DEADLOCK FALSE
INVARIANT NoStaleBit
