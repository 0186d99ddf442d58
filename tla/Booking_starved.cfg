\* Two connections and two requests: each call's record needs a third.
SPECIFICATION Spec
CONSTANTS
    r1 = r1  r2 = r2  r3 = r3  o1 = o1
    Order = {o1}
    Request = {r1, r2}
    OrderOf <- SameOrder
    Definition <- ManyDefinitions
    Parcels = 1
    Capacity = 2
    Pool = 2
    MaxBroken = 0
CHECK_DEADLOCK FALSE
INVARIANT CallsAreRecorded
