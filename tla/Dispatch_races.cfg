\* Two overlapping requests of any kind over two warehouses; each send is tried once.
SPECIFICATION Spec
CONSTANTS
    c1 = c1  c2 = c2  g1 = g1  g2 = g2  k1 = k1
    Consignment = {c1, c2}
    ManifestId = {m1, m2, m3}
    Txn = {t1, t2}
    Group = {g1, g2}
    Carrier = {k1}
    GroupOf <- GroupEach
    CarrierOf <- OneCarrier
    FailureStatus = {"rejected"}
    FanOut = {}
    MaxAttempts = 0
    MaxSweeps = 1
    MaxCrashes = 0
    MaxFaults = 0
SYMMETRY SymmetricIds
INVARIANTS DeclaredOnceUnlessClobbered OnManifestIsUnsent OverIsNotPending
PROPERTY ForwardUnlessClobbered
