SPECIFICATION Spec
CONSTANTS
 Senders = {s1, s2}
 Readers = {r1, r2}
 Events = {note, sysex}
 Long = {sysex}
 big = big
 small = small
 Pools <- MCPools
 Size <- MCSize
 PutsBack = "never"
 Resizes = "any time"
 GivesUp = FALSE
 None = None
SYMMETRY AlikeThreads
CHECK_DEADLOCK FALSE
\* With Resizes = "before a call" and GivesUp = TRUE the same happens to a cell.
INVARIANT NoFreedCell
