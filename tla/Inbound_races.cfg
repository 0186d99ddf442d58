SPECIFICATION InboundSpec
CONSTANTS
    a1 = a1
    a2 = a2
    a3 = a3
    o1 = o1
    o2 = o2
    nextday = nextday
    odd = odd
    c1 = c1
    c2 = c2
    e1 = e1
    e2 = e2
    e3 = e3
    Caller = {a1, a2}
    Ceiling = {0, 1, 2, 3}
    OldNext = {2, 3}
    MaxHanded = 8
    Thread = {a1, a2}
    Client = {c1, c2}
    Lifetime = {1, 3, 5}
    Margin = 2
    Travel = 1
    Horizon = 6
    Call = {a1, a2}
    Order = {o1, o2}
    Group = {nextday, odd}
    Known = {nextday}
    MaxRow = 2
    MaxCalls = 3
    Webhook = {a1, a2, a3}
    Event = {e1, e2, e3}
    Status <- EventStatus
    EventAt <- EventTime
    MaxBatch = 2
    MaxReceived = 1
SYMMETRY SymmetricActors
CHECK_DEADLOCK FALSE
INVARIANTS InboundTypeOK HaltNeverReissues ReissuedOnlyAfterALap BearerIsGood AcknowledgedIsStaged ShipsWhatWasTold AnsweredIsStored
PROPERTIES RangeTermsFixed DeliveryNotHidden
