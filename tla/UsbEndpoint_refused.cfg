SPECIFICATION Spec
CONSTANTS
 Feedback = {"explicit"}
 NUrbs = 2
 AtOnce = 1
 Faulty = {"in"}
 Unplug = "never"
 Grow = FALSE
 None = None
CHECK_DEADLOCK FALSE
INVARIANT RestartsFromRest
