CONSTANTS
    Task = {t1, t2, t3}
    Handler = {h1}
    Agent = Agent
    NoTask = NoTask
    HumanOps = {"create", "link", "delete", "unlink", "breakdown", "cancel", "reopen"}
    Faults = {"db", "lock", "agentDies", "crash"}
    MaxFaults = 1
    MaxRuns = 2
    MaxAsks = 3
SYMMETRY TaskSymmetry
SPECIFICATION Spec
INVARIANTS Acyclic AbortIsClean
PROPERTIES ReadyIsWhole
CHECK_DEADLOCK FALSE
