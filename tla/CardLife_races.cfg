SPECIFICATION LateSpec
CONSTANTS
 Files = {f, g}
 Interfaces = {i, j}
 Cards = {c, d}
 Faults = {"create", "register"}
 Replug = TRUE
 Overlap = TRUE
 None = None
CHECK_DEADLOCK FALSE
\* PmBalanced and ClearIsSafe are violated as well, and under Spec HeldIsAlive.
INVARIANT LastLookIsSafe
