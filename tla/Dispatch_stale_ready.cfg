\* A mark-ready call overlapping a confirmation, then a sweep.
SPECIFICATION Spec
CONSTANTS
    c1 = c1  c2 = c2  g1 = g1  g2 = g2  k1 = k1
    Consignment = {c1}
    ManifestId = {m1, m2}
    Txn = {t1, t2}
    Group = {g1}
    Carrier = {k1}
    GroupOf <- OneGroup
    CarrierOf <- OneCarrier
    FailureStatus = {"rejected"}
    FanOut = {}
    MaxAttempts = 0
    MaxSweeps = 2
    MaxCrashes = 0
    MaxFaults = 0
SYMMETRY SymmetricIds
INVARIANT DeclaredOnce
