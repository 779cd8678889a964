SPECIFICATION Spec
CONSTANTS
    Job = {j1, j2}
    None = None
    Deadline = 2
INVARIANT NoOrphanJob
CHECK_DEADLOCK FALSE
