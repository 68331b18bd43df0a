CONSTANTS
    Calls = {c1, c2}
    Keys = {k1}
    Bodies = {b1}
    Nothing = nothing
SPECIFICATION KeysSpec
INVARIANT SameRequestOnce
CHECK_DEADLOCK FALSE
