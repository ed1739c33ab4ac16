CONSTANTS
    Loop = Loop
    Notices = {n1, n2}
    Edits = {e1}
    Ops = {o1, o2}
    OpKinds = {"enable", "pause", "disconnect"}
    Impatient = {e1, o2}
    Casts = {{e1}, {o1}, {o2}}
SPECIFICATION FairSpec
INVARIANT InvalidationOptsOut
PROPERTIES DeadStaysDead  StopEndsConnection 
CHECK_DEADLOCK FALSE
