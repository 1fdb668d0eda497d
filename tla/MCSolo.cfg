CONSTANTS
    e1 = e1
    t1 = t1
    t2 = t2
    t3 = t3
    s1 = s1
    Worker = {w1, w2}
    Handler = {h1}
    Epic = {}
    EpicTask = {}
    Solo = {s1}
    ChangeTask = {}
    Parent <- MCParent
    Blockers <- MCBlockers
    NoWorker = NoWorker
    NoItem = NoItem
    NoTask = NoTask
    Request = {"run", "retry", "merge", "close", "change"}
    PatchTo = {"Todo", "Cancelled"}
    Faults = {"lostReply"}
    MaxCrashes = 0
    MaxStages = 1
SPECIFICATION CalmFairSpec
INVARIANTS OneStagePerItem PrRowSound
PROPERTIES SoloSettles
