SPECIFICATION Spec
CONSTANTS
 Senders = {s1, s2}
 Readers = {r1, r2}
 Events = {note, sysex}
 Long = {sysex}
 big = big
 small = small
 Pools <- MCPools
 Size <- MCSize
 PutsBack = "any time"
 Resizes = "never"
 GivesUp = FALSE
 None = None
SYMMETRY AlikeThreads
CHECK_DEADLOCK FALSE
\* NoReaderMissed is violated as well: a cell put back wakes nobody.
INVARIANT Linked
