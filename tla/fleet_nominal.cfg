SPECIFICATION Spec
CONSTANTS
    Session = {s1}
    Tab = {app, chat}
    Task = {t1, t2}
    None = None
    ProvisionTimeout = 1
    ReaperBudget = 0
    OrphanGrace = 3
    MaxAge = 4
    IdleExitAfter = 4
    IdleThreshold = 2
    HbStale = 1
    HealthMode = "probe"
    InVpc = TRUE
    HeartbeatArmed = FALSE
    Faults = {}
    MaxFaults = 0
SYMMETRY Symmetry
INVARIANT TypeOK NoLeak StreakIsEarned
PROPERTY RoutedWorkSurvives DroppedRouteIsDead PromiseKept
