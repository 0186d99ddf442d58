\* Two requests for one order that wait for each other's key; either may break.
SPECIFICATION FairSpec
CONSTANTS
    r1 = r1  r2 = r2  r3 = r3  o1 = o1
    Order = {o1}
    Request = {r1, r2}
    OrderOf <- SameOrder
    Definition <- ManyDefinitions
    Parcels = 1
    Capacity = 1
    Pool = 2
    MaxBroken = 2
\* Every request has ended: no more are sent.
CHECK_DEADLOCK FALSE
PROPERTY RequestEnds
