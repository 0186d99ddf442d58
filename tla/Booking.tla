------------------------------- MODULE Booking -------------------------------
(***************************************************************************)
(* create_consignment: one HTTP request turns an order into a consignment  *)
(* that is booked with its carrier and has a label on disk.                *)
(*                                                                         *)
(* The request's own transaction writes only at its flush and commits only *)
(* after the answer has left.  Three things escape it: the SSCC serials    *)
(* and the traffic of each carrier call, committed in transactions of      *)
(* their own, and the label, a file named after the order.  A client may   *)
(* send the same order again, at once or after any answer.                 *)
(*                                                                         *)
(* The carrier is external: a call may create the shipment or not, and its *)
(* answer may be a refusal, or be lost, although it did.                   *)
(***************************************************************************)
EXTENDS Integers, FiniteSets

CONSTANTS
    Order,
    Request,      \* create requests; a retry is a request of its own
    OrderOf,      \* request -> order
    Definition,   \* what a published definition's book operation may be
    Parcels,      \* parcels of a consignment
    Capacity,     \* last serial of the carrier's SSCC range
    Pool,         \* database connections of the process: pool_size + max_overflow
    MaxBroken     \* bound on requests that die or hit an unhandled exception

ASSUME OrderAssumption == OrderOf \in [Request -> Order]
ASSUME DefinitionAssumption ==
    Definition \subseteq [steps : Nat, mints : BOOLEAN, label : {"local", "carrier"},
                          manifest : BOOLEAN]
ASSUME RangeAssumption == Parcels \in Nat \ {0} /\ Capacity \in Nat
ASSUME BoundsAssumption == Pool \in Nat \ {0} /\ MaxBroken \in Nat

Nobody == "nobody"
ASSUME NobodyAssumption == Nobody \notin Request
NoRow  == [status |-> "absent", by |-> Nobody]
Unread == [steps |-> 0, mints |-> FALSE, label |-> "local", manifest |-> FALSE]

Labelled == {"allocated", "dispatched"}
Failed   == {"rejected", "booking_failed", "label_failed"}

VARIABLES
    pc,         \* how far each request is
    edge,       \* which edge it came through
    reads,      \* the definition it read
    outcome,    \* the status it will write
    answer,     \* the carrier's last answer to it
    calls,      \* carrier calls it has made
    traffic,    \* CarrierTraffic rows committed for it
    codes,      \* serials minted for its parcels
    issued,     \* the range's counter: the last serial handed out
    booked,     \* requests whose shipment exists at the carrier
    label,      \* the label file of an order: the request that wrote it
    holder,     \* the uncommitted insert holding the order number's unique key
    row,        \* the committed Consignment row
    broken,     \* history: requests that died or hit an unhandled exception or time-out
    earlier     \* history: the requests that had ended when this one began

requestVars == <<pc, edge, reads, outcome, answer>>
carrierVars == <<calls, traffic, codes, issued, booked>>
storeVars   == <<label, holder, row>>
vars == <<pc, edge, reads, outcome, answer, calls, traffic, codes, issued, booked,
          label, holder, row, broken, earlier>>

TypeOK ==
    /\ pc \in [Request -> {"new", "minting", "booking", "answered", "failed", "flushing",
                           "inserted", "replied", "done"}]
    /\ edge \in [Request -> {"json", "soap"}]
    /\ reads \in [Request -> Definition \union {Unread}]
    /\ outcome \in [Request -> Labelled \union Failed]
    /\ answer \in [Request -> {"ok", "refused"}]
    /\ calls \in [Request -> Nat] /\ traffic \in [Request -> Nat]
    /\ codes \in [Request -> SUBSET (1 .. Capacity)]
    /\ issued \in 0 .. Capacity
    /\ booked \subseteq Request /\ broken \subseteq Request
    /\ label \in [Order -> Request \union {Nobody}]
    /\ holder \in [Order -> Request \union {Nobody}]
    /\ row \in [Order -> [status : Labelled \union Failed, by : Request] \union {NoRow}]
    /\ earlier \in [Request -> SUBSET Request]

Init ==
    /\ pc = [r \in Request |-> "new"]
    /\ edge = [r \in Request |-> "json"]
    /\ reads = [r \in Request |-> Unread]
    /\ outcome = [r \in Request |-> "allocated"]
    /\ answer = [r \in Request |-> "ok"]
    /\ calls = [r \in Request |-> 0] /\ traffic = [r \in Request |-> 0]
    /\ codes = [r \in Request |-> {}]
    /\ issued = 0
    /\ booked = {} /\ broken = {}
    /\ label = [o \in Order |-> Nobody]
    /\ holder = [o \in Order |-> Nobody]
    /\ row = [o \in Order |-> NoRow]
    /\ earlier = [r \in Request |-> {}]

-----------------------------------------------------------------------------
(* A definition such as Spend_variant is a plausible slip in the code that  *)
(* Spend models; nothing in Next uses it.                                   *)

Exists(r) == row[OrderOf[r]] # NoRow
Goto(r, where) == pc' = [pc EXCEPT ![r] = where]
End(r) == Goto(r, "done")

\* A request keeps a connection from its first query to the end of its transaction.
\* Whoever needs one more waits for the pool.
Connected == {r \in Request : pc[r] \notin {"new", "done"}}
FreeConnection == Cardinality(Connected) < Pool

\* What a labelled consignment is created as: without a manifest operation the
\* label is the departure.
Arrives(d) == IF d.manifest THEN "allocated" ELSE "dispatched"

\* The existence check, the allocation and the published definition.  A duplicate, an
\* invalid request, a carrier without a usable definition or an exhausted pool ends
\* with nothing written.
Start(r) ==
    /\ pc[r] = "new"
    /\ \E e \in {"json", "soap"} : edge' = [edge EXCEPT ![r] = e]
    /\ earlier' = [earlier EXCEPT ![r] = {q \in Request : pc[q] = "done"}]
    /\ \/ End(r) /\ UNCHANGED <<reads, outcome>>
       \/ /\ FreeConnection
          /\ ~ Exists(r)
          /\ outcome' = [outcome EXCEPT ![r] = "rejected"]
          /\ Goto(r, "flushing")
          /\ UNCHANGED reads
       \/ /\ FreeConnection
          /\ ~ Exists(r)
          /\ \E d \in Definition :
                /\ reads' = [reads EXCEPT ![r] = d]
                /\ outcome' = [outcome EXCEPT ![r] = Arrives(d)]
                /\ Goto(r, IF d.mints THEN "minting" ELSE "booking")
    /\ UNCHANGED <<answer, broken>> /\ UNCHANGED carrierVars /\ UNCHANGED storeVars

\* The range's counter after the mint's own transaction.
Spend_variant(n) == issued
Spend(n) == issued + n

Fits_variant == issued < Capacity
Fits == issued + Parcels <= Capacity

\* _mint_parcel_allocations, on a second connection: every parcel gets its serial,
\* or the range is exhausted and none does.
Mint(r) ==
    /\ pc[r] = "minting"
    /\ FreeConnection
    /\ IF Fits
       THEN /\ codes' = [codes EXCEPT ![r] = issued + 1 .. issued + Parcels]
            /\ issued' = Spend(Parcels)
            /\ Goto(r, "booking")
       ELSE End(r) /\ UNCHANGED <<codes, issued>>
    /\ UNCHANGED <<edge, reads, outcome, answer, calls, traffic, booked, broken, earlier>>
    /\ UNCHANGED storeVars

\* A step that cannot be rendered, authenticated or executed reaches no carrier.
StepUnsent(r) ==
    /\ pc[r] = "booking"
    /\ calls[r] < reads[r].steps
    /\ outcome' = [outcome EXCEPT ![r] = "booking_failed"]
    /\ Goto(r, "failed")
    /\ UNCHANGED <<edge, reads, answer, broken, earlier>>
    /\ UNCHANGED carrierVars /\ UNCHANGED storeVars

\* The call of the next step.  When the last one reports success, there is a shipment.
CallCarrier(r) ==
    /\ pc[r] = "booking"
    /\ calls[r] < reads[r].steps
    /\ calls' = [calls EXCEPT ![r] = @ + 1]
    /\ booked' \in {booked, booked \union {r}}
    /\ \E a \in {"ok", "refused"} :
        /\ a = "ok" /\ calls[r] + 1 = reads[r].steps => r \in booked'
        /\ answer' = [answer EXCEPT ![r] = a]
    /\ Goto(r, "answered")
    /\ UNCHANGED <<edge, reads, outcome, traffic, codes, issued, broken, earlier>>
    /\ UNCHANGED storeVars

\* record_traffic commits the step on a second connection; a refused one fails the
\* booking.
Recorded_variant(r) == IF answer[r] = "ok" THEN traffic[r] + 1 ELSE traffic[r]
Recorded(r) == traffic[r] + 1

RecordTraffic(r) ==
    /\ pc[r] = "answered"
    /\ FreeConnection
    /\ traffic' = [traffic EXCEPT ![r] = Recorded(r)]
    /\ IF answer[r] = "ok"
       THEN Goto(r, "booking") /\ UNCHANGED outcome
       ELSE Goto(r, "failed") /\ outcome' = [outcome EXCEPT ![r] = "booking_failed"]
    /\ UNCHANGED <<edge, reads, answer, calls, codes, issued, booked, broken, earlier>>
    /\ UNCHANGED storeVars

Stepped_variant(r) == pc[r] = "booking" /\ calls[r] + 1 >= reads[r].steps
Stepped(r) == pc[r] = "booking" /\ calls[r] = reads[r].steps

\* store.save: the file is the order's, whoever writes it.
Written_variant(r) == IF reads[r].label = "carrier" THEN label[OrderOf[r]] ELSE r
Written(r) == r

SaveLabel(r) ==
    /\ Stepped(r)
    /\ reads[r].label = "carrier" => reads[r].steps > 0
    /\ label' = [label EXCEPT ![OrderOf[r]] = Written(r)]
    /\ Goto(r, "flushing")
    /\ UNCHANGED <<edge, reads, outcome, answer, holder, row, broken, earlier>>
    /\ UNCHANGED carrierVars

\* The carrier's label does not decode: what was booked is kept as a failure.
AfterBadLabel_variant(r) == "done"
AfterBadLabel(r) == IF reads[r].steps > 0 THEN "failed" ELSE "done"

BadLabel(r) ==
    /\ Stepped(r)
    /\ reads[r].label = "carrier"
    /\ outcome' = [outcome EXCEPT ![r] = "label_failed"]
    /\ Goto(r, AfterBadLabel(r))
    /\ UNCHANGED <<edge, reads, answer, broken, earlier>>
    /\ UNCHANGED carrierVars /\ UNCHANGED storeVars

\* The unique key: an insert waits for another uncommitted one of the same order.
KeyIsFree(r) == holder[OrderOf[r]] = Nobody
Conflicts_variant(r) == FALSE
Conflicts(r) == Exists(r)

\* persist_failure: flush and commit; a duplicate that won the row is a 409.
Persisted_variant(r) == row
Persisted(r) == IF Conflicts(r) THEN row
                ELSE [row EXCEPT ![OrderOf[r]] = [status |-> outcome[r], by |-> r]]

PersistFailure(r) ==
    /\ pc[r] = "failed"
    /\ KeyIsFree(r)
    /\ row' = Persisted(r)
    /\ End(r)
    /\ UNCHANGED <<edge, reads, outcome, answer, label, holder, broken, earlier>>
    /\ UNCHANGED carrierVars

\* The flush of the success path, and of a rejection.
Insert(r) ==
    /\ pc[r] = "flushing"
    /\ KeyIsFree(r)
    /\ IF Conflicts(r)
       THEN End(r) /\ UNCHANGED holder
       ELSE holder' = [holder EXCEPT ![OrderOf[r]] = r] /\ Goto(r, "inserted")
    /\ UNCHANGED <<edge, reads, outcome, answer, label, row, broken, earlier>>
    /\ UNCHANGED carrierVars

\* A transaction that ends without a commit gives its key back.
Released(r) == [o \in Order |-> IF holder[o] = r THEN Nobody ELSE holder[o]]

\* The answer.  The legacy edge answers a rejection with a fault and rolls it back.
Reply(r) ==
    /\ pc[r] = "inserted"
    /\ IF edge[r] = "soap" /\ outcome[r] = "rejected"
       THEN End(r) /\ holder' = Released(r)
       ELSE Goto(r, "replied") /\ UNCHANGED holder
    /\ UNCHANGED <<edge, reads, outcome, answer, label, row, broken, earlier>>
    /\ UNCHANGED carrierVars

\* get_session commits after the answer.
Commit(r) ==
    /\ pc[r] = "replied"
    /\ row' = [row EXCEPT ![OrderOf[r]] = [status |-> outcome[r], by |-> r]]
    /\ holder' = [holder EXCEPT ![OrderOf[r]] = Nobody]
    /\ End(r)
    /\ UNCHANGED <<edge, reads, outcome, answer, label, broken, earlier>>
    /\ UNCHANGED carrierVars

\* The request is gone and its transaction with it.
Unwind(r) ==
    /\ broken' = broken \union {r}
    /\ holder' = Released(r)
    /\ End(r)
    /\ UNCHANGED <<edge, reads, outcome, answer, label, row, earlier>>
    /\ UNCHANGED carrierVars

\* The process dies, or an exception that no handler names unwinds the request (a
\* full disk at store.save, a value wider than its column).
Break(r) ==
    /\ pc[r] \notin {"new", "done"}
    /\ Cardinality(broken) < MaxBroken
    /\ Unwind(r)

\* The pool's time-out, an exception that no handler names either: every connection
\* is with a request, and this one waits for a second.
Starved_variant(r) == pc[r] = "minting" /\ ~ FreeConnection
Starved(r) == pc[r] \in {"minting", "answered"} /\ ~ FreeConnection

PoolTimeout(r) == Starved(r) /\ Unwind(r)

-----------------------------------------------------------------------------
Serve(r) ==
    \/ Mint(r) \/ StepUnsent(r) \/ CallCarrier(r) \/ RecordTraffic(r) \/ SaveLabel(r)
    \/ BadLabel(r) \/ PersistFailure(r) \/ Insert(r) \/ Reply(r) \/ Commit(r)

Lost(r) == Break(r) \/ PoolTimeout(r)

Next == \E r \in Request : Start(r) \/ Serve(r) \/ Lost(r)

Spec == Init /\ [][Next]_vars

\* A request that has begun is served, or the pool's time-out ends it; nobody has to
\* begin one, or to break.
FairSpec == Spec /\ \A r \in Request : WF_vars(Serve(r) \/ PoolTimeout(r))

-----------------------------------------------------------------------------
(* Safety *)

Ended(r) == pc[r] = "done"

\* Whichever way a request ends, a shipment it left at the carrier has a consignment
\* row for its order: the one exception is a request that broke.
BookedIsRecorded ==
    \A r \in booked : Ended(r) /\ r \notin broken => Exists(r)

\* So a retry never books a second shipment (the comment above label_failed): two
\* shipments of one order come from overlapping requests, or the first one broke.
RebookedOnlyByOverlap ==
    \A r, q \in booked :
        q \in earlier[r] /\ OrderOf[q] = OrderOf[r] /\ q # r => q \in broken

\* Carrier contact always commits traffic, also when the booking fails or loses the
\* duplicate race: at most the call in flight is unrecorded, or the last one of a request
\* that died or timed out waiting for a connection.
AuditComplete ==
    \A r \in Request :
        traffic[r] = calls[r] \/ (traffic[r] + 1 = calls[r]
                                  /\ (pc[r] = "answered" \/ r \in broken))

\* consignments.py of record_traffic: "each step committed in its own transaction the
\* moment the call returns, so no later failure can discard the audit trail".  Of every
\* request that no death or unforeseen exception ended.
CallsAreRecorded ==
    \A r \in Request : traffic[r] = calls[r] \/ pc[r] = "answered"

\* Every step of r's book operation was taken and is on record; its parcels are coded.
Complete(r) ==
    /\ traffic[r] = reads[r].steps
    /\ reads[r].steps > 0 => r \in booked
    /\ reads[r].mints => Cardinality(codes[r]) = Parcels

\* Never a silent success: a labelled row's own request took every step of its book
\* operation at the carrier, and each left its traffic.
SuccessIsBooked ==
    \A o \in Order : row[o].status \in Labelled => Complete(row[o].by)

\* A serial that may have reached the carrier is never minted again, whatever failed,
\* broke or was retried since.
NoCodeReused ==
    \A r, q \in Request : r # q => codes[r] \cap codes[q] = {}

\* A labelled consignment has a label to serve.
LabelledHasLabel ==
    \A o \in Order : row[o].status \in Labelled => label[o] # Nobody

\* consignments.py of LABELLED_STATUSES: "Failure statuses (rejected, booking_failed,
\* label_failed) have no label".
FailedHasNoLabel ==
    \A o \in Order : row[o].status \in Failed => label[o] = Nobody

\* One consignment per order: a committed row is never replaced.
RowIsFinal ==
    [][\A o \in Order : row[o] # NoRow => row'[o] = row[o]]_vars

(* The inductive invariant behind the theorems of Booking_proofs *)

\* What is true of a request at each point of its way.
OnItsWay(r) ==
    /\ pc[r] \in {"new", "minting"} => r \notin booked /\ calls[r] = 0
    /\ pc[r] \in {"minting", "booking", "answered"} => outcome[r] \in Labelled
    /\ pc[r] \in {"booking", "answered"} /\ reads[r].mints => Cardinality(codes[r]) = Parcels
    /\ pc[r] \in {"booking", "answered"} /\ (pc[r] = "answered" => answer[r] = "ok")
          /\ calls[r] > 0 /\ calls[r] = reads[r].steps => r \in booked
    /\ pc[r] = "failed" => outcome[r] \in Failed
    /\ pc[r] \in {"flushing", "inserted", "replied"} /\ outcome[r] \in Labelled =>
          Complete(r) /\ label[OrderOf[r]] # Nobody
    /\ r \in booked => reads[r].steps > 0 /\ outcome[r] # "rejected"
    /\ r \in broken => pc[r] = "done"

Underway == \A r \in Request : OnItsWay(r)

\* Traffic is one behind only while an answer is in hand, or for good when that died.
TrafficFollows ==
    \A r \in Request :
        IF pc[r] = "answered" THEN traffic[r] + 1 = calls[r]
        ELSE traffic[r] = calls[r] \/ (traffic[r] + 1 = calls[r] /\ r \in broken)

\* The unique key of an order is held by the one request between flush and commit.
KeysHold ==
    /\ \A o \in Order : holder[o] # Nobody =>
          row[o] = NoRow /\ OrderOf[holder[o]] = o /\ pc[holder[o]] \in {"inserted", "replied"}
    /\ \A r \in Request : pc[r] \in {"inserted", "replied"} => holder[OrderOf[r]] = r

\* A row was written by a request that is over.
RowsAreOver == \A o \in Order : row[o] # NoRow => pc[row[o].by] = "done"

\* A request that got past the existence check had no booked predecessor but a broken one.
NoPredecessor ==
    \A r \in Request : \A q \in earlier[r] :
        /\ pc[q] = "done"
        /\ (pc[r] \notin {"new", "done"} \/ r \in booked)
              /\ q \in booked /\ OrderOf[q] = OrderOf[r] /\ q # r => q \in broken

\* Nothing beyond the counter has been minted.
CodesAreIssued ==
    /\ \A r \in Request : codes[r] \subseteq 1 .. issued
    /\ NoCodeReused

BookingInv ==
    /\ Underway /\ TrafficFollows /\ KeysHold /\ RowsAreOver /\ NoPredecessor
    /\ CodesAreIssued /\ BookedIsRecorded /\ SuccessIsBooked /\ LabelledHasLabel

(* Liveness *)

\* A request that has begun ends, whoever holds the order's key meanwhile, and when
\* every connection is with a request that waits for a second one.
RequestEnds ==
    \A r \in Request : pc[r] # "new" ~> Ended(r)

=============================================================================
