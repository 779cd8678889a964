SPECIFICATION Spec
CONSTANTS
    Session = {s1}
    Tab = {app}
    Task = {t1, t2}
    None = None
    ProvisionTimeout = 1
    ReaperBudget = 0
    OrphanGrace = 3
    MaxAge = 4
    IdleExitAfter = 4
    IdleThreshold = 1
    HbStale = 1
    HealthMode = "probe"
    InVpc = TRUE
    HeartbeatArmed = FALSE
    Faults = {"describe", "probe", "batch", "list", "stoptask", "streak", "delete", "lambda", "runtask", "getroute", "putroute", "dial", "broker", "crash", "ttl", "address"}
    MaxFaults = 1
SYMMETRY Symmetry
INVARIANT ProvisionSafe OrphanIsOrphan
