SPECIFICATION SelfExitSpec
CONSTANTS
    Session = {s1}
    Tab = {app}
    Task = {t1}
    None = None
    ProvisionTimeout = 1
    ReaperBudget = 0
    OrphanGrace = 3
    MaxAge = 4
    IdleExitAfter = 4
    IdleThreshold = 1
    HbStale = 1
    HealthMode = "heartbeat"
    InVpc = FALSE
    HeartbeatArmed = TRUE
    Faults = {"crash", "putroute", "delete", "lambda", "ttl"}
    MaxFaults = 1
PROPERTY ScaleToZero
