\* One request at a time; a fan-out manifest whose send is retried, crashes, faults.
SPECIFICATION FairSpec
CONSTANTS
    c1 = c1  c2 = c2  g1 = g1  g2 = g2  k1 = k1
    Consignment = {c1, c2}
    ManifestId = {m1, m2}
    Txn = {t1}
    Group = {g1}
    Carrier = {k1}
    GroupOf <- OneGroup
    CarrierOf <- OneCarrier
    FailureStatus = {"rejected"}
    FanOut = {k1}
    MaxAttempts = 1
    MaxSweeps = 1
    MaxCrashes = 1
    MaxFaults = 1
INVARIANTS DispatchedIsAccountedFor SentIsComplete FailedIsExhausted AuditTracksQueue
PROPERTIES PendingSettles KeepsPromise
