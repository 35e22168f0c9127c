SPECIFICATION Spec
CONSTANTS
 Senders = {s1, s2}
 Readers = {r1, r2}
 Events = {note, sysex}
 Long = {sysex}
 big = big
 small = small
 Pools <- MCPools
 Size <- MCSize
 PutsBack = "before others"
 Resizes = "before a call"
 GivesUp = FALSE
 None = None
SYMMETRY AlikeThreads
CHECK_DEADLOCK FALSE
INVARIANT CellsAccounted NoReaderMissed
PROPERTY EventsInOrder
