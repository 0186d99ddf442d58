\* Three requests for one order: duplicates, retries after any answer, one that breaks.
SPECIFICATION Spec
CONSTANTS
    r1 = r1  r2 = r2  r3 = r3  o1 = o1
    Order = {o1}
    Request = {r1, r2, r3}
    OrderOf <- SameOrder
    Definition <- TwoDefinitions
    Parcels = 2
    Capacity = 5
    Pool = 4
    MaxBroken = 1
SYMMETRY SymmetricRequests
\* Every request has ended: no more are sent.
CHECK_DEADLOCK FALSE
INVARIANTS TypeOK BookedIsRecorded RebookedOnlyByOverlap AuditComplete SuccessIsBooked NoCodeReused LabelledHasLabel
PROPERTY RowIsFinal
