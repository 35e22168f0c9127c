SPECIFICATION Spec
CONSTANTS
 Feedback = {"explicit"}
 NUrbs = 2
 AtOnce = 1
 Faulty = {"fb"}
 Unplug = "never"
 Grow = TRUE
 None = None
CHECK_DEADLOCK FALSE
\* With Grow = FALSE and Unplug = "any time" the same happens at a disconnect.
\* INVARIANT CallbackHasSubstream is violated as well, with Grow = FALSE too.
INVARIANT CallbackHasBuffer
