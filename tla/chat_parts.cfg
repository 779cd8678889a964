SPECIFICATION Spec
CONSTANTS
    Conn = {app, x1, x2}
    Chat = {x1, x2}
    Case = {k1, k2}
    Turn = {t1, t2}
    Writer = {chat}
    Key = {tool}
    None = None
    Never = Never
    Owner = own
    Stranger = other
    MaxCommands = 2
    MaxQueue = 2
    MaxTimers = 2
    MaxRefreshes = 1
    MaxVersion = 1
    MaxGhosts = 1
    MaxWire = 2
    Lag = 1
SYMMETRY Symmetry
CONSTRAINT LayersBound
INVARIANT TypeOK OneTurnPerStream BusyCoversTurns StopReachesTurn PublishedIsKept NoForeignLayer EditsKept GuardLetsThrough AskedFailsClosed FreshApproval WaiterIsReachable OneIdentity NotStranded HandedOnce
CHECK_DEADLOCK FALSE
