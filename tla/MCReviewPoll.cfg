CONSTANTS
    e1 = e1
    s1 = s1
    c1 = c1
    c2 = c2
    Epic = {e1}
    Solo = {s1}
    Comment = {c1, c2}
    On <- MCOn
    Kind <- MCKind
    Threaded = {c1}
    PrNumber <- MCDistinct
    NoSha = NoSha
    NoItem = NoItem
    Faults = {"host","git","walk","crash","cancel"}
    MaxTriages = 2
    Decision = {"merged"}
    MaxSpecs = 1
    MaxFaults = 1
SPECIFICATION FairSpec
INVARIANTS AddressedIsLanded OwnPostsLeftAlone
PROPERTIES SettledForGood MergedLeaves LandedIsAddressed
