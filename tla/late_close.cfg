SPECIFICATION Spec
CONSTANTS
    Conn = {chat1, chat2}
    Chat = {chat1, chat2}
    Stream = {case1, case2}
    Turn = {t1, t2}
    None = None
    Overlap = TRUE
SYMMETRY Symmetry
INVARIANT BusyCoversTurns
CHECK_DEADLOCK FALSE
