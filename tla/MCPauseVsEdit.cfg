CONSTANTS
    Loop = Loop
    Notices = {}
    Edits = {e1}
    Ops = {o1}
    OpKinds = {"pause"}
    Impatient = {}
    Casts = {{e1, o1}}
SPECIFICATION Spec
INVARIANT PauseSticks
CHECK_DEADLOCK FALSE
