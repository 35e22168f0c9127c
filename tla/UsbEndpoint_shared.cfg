SPECIFICATION Spec
CONSTANTS
 Feedback = {"implicit"}
 NUrbs = 2
 AtOnce = 2
 Faulty = {}
 Unplug = "never"
 Grow = FALSE
 None = None
CHECK_DEADLOCK FALSE
\* INVARIANT FreedWhenIdle is violated as well.
PROPERTY DeactivateSparesUsers
