CONSTANTS
    e1 = e1
    t1 = t1
    release = release
    main = main
    Container = {e1, t1}
    Epics = {e1}
    Branch = {main, release}
    Default = main
    NoBase = NoBase
    EpicBase <- MCEpicBase
    Job = {j1}
    Nobody = Nobody
    Asks = {"walk"}
    Faults = {}
    MaxFaults = 0
    MaxCommits = 1
    MaxTitles = 2
    MaxRequests = 3
SPECIFICATION Spec
INVARIANT WorkspaceOnItsBase
CHECK_DEADLOCK FALSE
