CONSTANTS
    Worker = {w1, w2, w3}
    Item = {i1, i2}
    NoWorker = NoWorker
    NoItem = NoItem
SYMMETRY Symmetry
SPECIFICATION CalmSpec
INVARIANTS OwnerWalks LostIsFenced MutexWhileCalm
PROPERTIES FencedForGood
