SPECIFICATION Spec
CONSTANTS
 Feedback = {"none", "implicit"}
 NUrbs = 2
 AtOnce = 1
 Faulty = {"out"}
 Unplug = "at rest"
 Grow = FALSE
 None = None
CHECK_DEADLOCK FALSE
INVARIANT FreedWhenIdle CallbackHasBuffer AtHostIsActive RestartsFromRest
