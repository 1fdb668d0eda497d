CONSTANTS
    e1 = e1
    t1 = t1
    t2 = t2
    t3 = t3
    s1 = s1
    Worker = {w1}
    Handler = {h1}
    Epic = {e1}
    EpicTask = {t1, t2, t3}
    Solo = {}
    ChangeTask = {t3}
    Parent <- MCParent
    Blockers <- MCBlockers
    NoWorker = NoWorker
    NoItem = NoItem
    NoTask = NoTask
    Request = {"Ready", "Blocked", "InProgress", "Cancelled", "retry", "merge", "close", "change"}
    PatchTo = {}
    Faults = {"lostReply"}
    MaxCrashes = 1
    MaxStages = 1
SPECIFICATION CalmFairSpec
INVARIANTS ReviewedIsDone
PROPERTIES EpicSettlesOrFails CancelledIsLeft
