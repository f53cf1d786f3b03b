SPECIFICATION Spec
CONSTANTS
    w1 = w1
    w2 = w2
    w3 = w3
    r1 = r1
    o1 = o1
    o2 = o2
    Writers = {w1, w2, w3}
    Readers = {r1}
    Objects = {o1, o2}
    ObjectOf <- MCObjectOf
    Nobody = nobody
    Missing = missing
    Torn = torn
    MaxCrashes = 1
INVARIANTS TypeOK CopyIsCurrent NeverTorn
PROPERTIES StoreIsAtomic EveryRequestEnds
CHECK_DEADLOCK FALSE
