SPECIFICATION Spec
CONSTANTS
    Chat = {chat}
    Case = {k1, k2}
    Turn = {t1, t2}
    None = None
    Never = Never
    MaxCommands = 2
SYMMETRY Symmetry
INVARIANT LayersFollowPin
CHECK_DEADLOCK FALSE
