SPECIFICATION HeartbeatSpec
CONSTANTS
    Session = {s1}
    Tab = {app}
    Task = {t1}
    None = None
    ProvisionTimeout = 1
    ReaperBudget = 0
    OrphanGrace = 3
    MaxAge = 4
    IdleExitAfter = 4
    IdleThreshold = 1
    HbStale = 3
    HealthMode = "heartbeat"
    InVpc = FALSE
    HeartbeatArmed = TRUE
    Faults = {}
    MaxFaults = 0
PROPERTY IdleTaskReaped
