\* An infrastructure fault in the last attempt the queue grants.
SPECIFICATION Spec
CONSTANTS
    c1 = c1  c2 = c2  g1 = g1  g2 = g2  k1 = k1
    Consignment = {c1}
    ManifestId = {m1}
    Txn = {t1}
    Group = {g1}
    Carrier = {k1}
    GroupOf <- OneGroup
    CarrierOf <- OneCarrier
    FailureStatus = {"rejected"}
    FanOut = {}
    MaxAttempts = 0
    MaxSweeps = 1
    MaxCrashes = 0
    MaxFaults = 1
SYMMETRY SymmetricIds
INVARIANT OverIsNotPending
