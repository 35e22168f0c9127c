SPECIFICATION FairSpec
CONSTANTS
 Files = {f, g}
 Interfaces = {i, j}
 Cards = {c, d}
 Faults = {"create", "register"}
 Replug = FALSE
 Overlap = FALSE
 None = None
CHECK_DEADLOCK FALSE
INVARIANT HeldIsAlive FilesAreDead PmBalanced
PROPERTY FreedAtLast
