SPECIFICATION Spec
CONSTANTS
 Threads = {t1, t2}
 Files = {f, g}
 Subscribers = {f}
 Fixed = {}
 Users = {usr, own}
 MaxUsers = 1
 MaxNumid = 2
 MaxFailures = 1
 None = None
CHECK_DEADLOCK FALSE
\* One at a time: TLC stops at the first that is violated.
INVARIANT UsersAreFew UsersAreCounted
