CONSTANTS
    e1 = e1
    t1 = t1
    release = release
    main = main
    Container = {e1, t1}
    Epics = {e1}
    Branch = {main, release}
    Default = main
    NoBase = NoBase
    EpicBase <- MCEpicBase
    Job = {j1, j2}
    Nobody = Nobody
    Asks = {"base", "refresh", "walk", "title"}
    Faults = {"git", "hang", "setup", "db", "crash", "stray"}
    MaxFaults = 2
    MaxCommits = 1
    MaxTitles = 2
    MaxRequests = 3
SPECIFICATION Spec
PROPERTIES CommitsSurvive ProvisionEnds
CHECK_DEADLOCK FALSE
