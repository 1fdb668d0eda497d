CONSTANTS
    e1 = e1
    t1 = t1
    t2 = t2
    t3 = t3
    s1 = s1
    Worker = {w1, w2}
    Handler = {h1}
    Epic = {e1}
    EpicTask = {t1, t2}
    Solo = {}
    ChangeTask = {}
    Parent <- MCParent
    Blockers <- MCBlockers
    NoWorker = NoWorker
    NoItem = NoItem
    NoTask = NoTask
    Request = {"Ready", "InProgress", "Cancelled", "retry"}
    PatchTo = {}
    Faults = {"lapse", "panic"}
    MaxCrashes = 0
    MaxStages = 0
SYMMETRY WorkerSymmetry
SPECIFICATION CalmSpec
INVARIANTS RegistrySound StageKillable DepsRespected
PROPERTIES ImplementsLease
