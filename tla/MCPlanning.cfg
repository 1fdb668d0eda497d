CONSTANTS
    p1 = p1
    r1 = r1
    g1 = g1
    Node = {p1, r1, g1}
    NoNode = NoNode
    Handler = {h1, h2}
    Caller <- MCCaller
    NoCaller = NoCaller
    Kind <- MCKind
    Fresh = {g1}
    Bundles <- MCBundles
    Ops = {"create", "link", "patch", "prose", "sync", "resolve", "post", "close", "promote", "open", "message", "fire"}
    Faults = {"drop", "crash", "settings", "agent", "panic", "expire"}
    MaxRequests = 2
    MaxPosts = 1
    MaxFaults = 1
SPECIFICATION FairSpec
INVARIANTS DecisionInDocument TokensDieWithRuns
PROPERTIES SettledStays SiblingsNeverStall
CHECK_DEADLOCK FALSE
