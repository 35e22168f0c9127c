SPECIFICATION Spec
CONSTANTS
 Threads = {t1, t2}
 Files = {f, g}
 Subscribers = {f}
 Fixed = {}
 Users = {usr}
 MaxUsers = 1
 MaxNumid = 2
 MaxFailures = 1
 None = None
CHECK_DEADLOCK FALSE
INVARIANT EventsHaveNumbers
