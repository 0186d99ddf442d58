---------------------------- MODULE Booking_proofs ----------------------------
(* Theorems about Booking for any number of overlapping and repeated requests, *)
(* any orders, definitions, range capacity and any number of broken requests.  *)
EXTENDS Booking, FiniteSetTheorems, TLAPS

-----------------------------------------------------------------------------
(* Types *)

USE DEF NoRow, Nobody

LEMMA InitType == Init => TypeOK
BY OrderAssumption, RangeAssumption DEF Init, TypeOK, Unread, Labelled

\* What a request reads of a definition it can compute with.
LEMMA ReadsType ==
    ASSUME TypeOK, NEW r \in Request
    PROVE  /\ reads[r].steps \in Nat
           /\ reads[r].mints \in BOOLEAN
           /\ reads[r].label \in {"local", "carrier"}
           /\ reads[r].manifest \in BOOLEAN
           /\ OrderOf[r] \in Order
<1>1. reads[r] \in Definition \union {Unread} /\ OrderOf[r] \in Order
  BY OrderAssumption DEF TypeOK
<1>2. reads[r] \in [steps : Nat, mints : BOOLEAN, label : {"local", "carrier"},
                   manifest : BOOLEAN]
  <2>1. CASE reads[r] \in Definition
    BY <2>1, DefinitionAssumption
  <2>2. CASE reads[r] = Unread
    BY <2>2 DEF Unread
  <2> QED
    BY <1>1, <2>1, <2>2
<1> QED
  BY <1>1, <1>2

LEMMA StartType ==
    ASSUME TypeOK, NEW r \in Request, Start(r)
    PROVE  TypeOK'
<1>1. \A d \in Definition : Arrives(d) \in Labelled
  BY DEF Arrives, Labelled
<1>2. /\ pc' \in [Request -> {"new", "minting", "booking", "answered", "failed", "flushing",
                             "inserted", "replied", "done"}]
      /\ edge' \in [Request -> {"json", "soap"}]
      /\ earlier' \in [Request -> SUBSET Request]
  BY DEF TypeOK, Start, Goto, End
<1>3. reads' \in [Request -> Definition \union {Unread}]
  BY DEF TypeOK, Start
<1>4. outcome' \in [Request -> Labelled \union Failed]
  BY <1>1 DEF TypeOK, Start, Failed
<1>5. UNCHANGED <<answer, calls, traffic, codes, issued, booked, label, holder, row, broken>>
  BY DEF Start, carrierVars, storeVars
<1> QED
  BY <1>2, <1>3, <1>4, <1>5 DEF TypeOK

LEMMA ServeType ==
    ASSUME TypeOK, NEW r \in Request, Serve(r)
    PROVE  TypeOK'
<1> USE DEF TypeOK, Goto, End
<1>1. CASE Mint(r)
  <2>1. CASE Fits
    <3>1. issued + 1 .. issued + Parcels \subseteq 1 .. Capacity /\ issued' \in 0 .. Capacity
      BY <1>1, <2>1, RangeAssumption DEF Mint, Fits, Spend
    <3> QED
      BY <1>1, <2>1, <3>1 DEF Mint, storeVars
  <2>2. CASE ~ Fits
    BY <1>1, <2>2 DEF Mint, storeVars
  <2> QED
    BY <2>1, <2>2
<1>2. CASE StepUnsent(r)
  BY <1>2 DEF StepUnsent, carrierVars, storeVars, Failed
<1>3. CASE CallCarrier(r)
  <2>1. booked' \subseteq Request /\ answer' \in [Request -> {"ok", "refused"}]
    BY <1>3 DEF CallCarrier
  <2> QED
    BY <1>3, <2>1 DEF CallCarrier, storeVars
<1>4. CASE RecordTraffic(r)
  <2>1. traffic' \in [Request -> Nat] /\ outcome' \in [Request -> Labelled \union Failed]
    BY <1>4 DEF RecordTraffic, Recorded, Failed
  <2> QED
    BY <1>4, <2>1 DEF RecordTraffic, storeVars
<1>5. CASE SaveLabel(r)
  BY <1>5, ReadsType DEF SaveLabel, Written, carrierVars
<1>6. CASE BadLabel(r)
  BY <1>6 DEF BadLabel, AfterBadLabel, carrierVars, storeVars, Failed
<1>7. CASE PersistFailure(r)
  <2>1. row' \in [Order -> [status : Labelled \union Failed, by : Request] \union {NoRow}]
    BY <1>7, ReadsType DEF PersistFailure, Persisted
  <2> QED
    BY <1>7, <2>1 DEF PersistFailure, carrierVars
<1>8. CASE Insert(r)
  BY <1>8, ReadsType DEF Insert, carrierVars
<1>9. CASE Reply(r)
  BY <1>9 DEF Reply, Released, carrierVars
<1>10. CASE Commit(r)
  <2>1. row' \in [Order -> [status : Labelled \union Failed, by : Request] \union {NoRow}]
    BY <1>10, ReadsType DEF Commit
  <2> QED
    BY <1>10, <2>1 DEF Commit, carrierVars
<1> QED
  BY <1>1, <1>2, <1>3, <1>4, <1>5, <1>6, <1>7, <1>8, <1>9, <1>10 DEF Serve

\* A request lost to a death, an exception or the pool's time-out was under way.
LEMMA LostUnwinds ==
    ASSUME NEW r \in Request, Lost(r)
    PROVE  Unwind(r) /\ pc[r] \notin {"new", "done"}
BY DEF Lost, Break, PoolTimeout, Starved

LEMMA LostType ==
    ASSUME TypeOK, NEW r \in Request, Lost(r)
    PROVE  TypeOK'
<1>1. Unwind(r)
  BY LostUnwinds
<1> QED
  BY <1>1 DEF TypeOK, Unwind, Released, Goto, End, carrierVars

LEMMA IdleType ==
    ASSUME TypeOK, UNCHANGED vars
    PROVE  TypeOK'
BY DEF TypeOK, vars

\* The state of the booking path has its types: no request, row, label or serial
\* outside them, whatever overlaps or breaks.
THEOREM TypeCorrect == Spec => []TypeOK
<1>1. TypeOK /\ [Next]_vars => TypeOK'
  BY StartType, ServeType, LostType, IdleType DEF Next
<1> QED
  BY InitType, <1>1, PTL DEF Spec

-----------------------------------------------------------------------------
(* What a step of one request does to the others *)

Step(r) == Start(r) \/ Serve(r) \/ Lost(r)

\* The request that moves is not over, and only its own fields change.
LEMMA OthersUntouched ==
    ASSUME TypeOK, NEW r \in Request, Step(r)
    PROVE  /\ pc[r] # "done"
           /\ \A q \in Request \ {r} :
                /\ pc'[q] = pc[q] /\ reads'[q] = reads[q] /\ outcome'[q] = outcome[q]
                /\ answer'[q] = answer[q] /\ calls'[q] = calls[q] /\ traffic'[q] = traffic[q]
                /\ codes'[q] = codes[q] /\ earlier'[q] = earlier[q]
                /\ q \in booked' <=> q \in booked
                /\ q \in broken' <=> q \in broken
<1> USE DEF TypeOK, Goto, End
<1>1. CASE Start(r)
  BY <1>1 DEF Start, carrierVars, storeVars
<1>2. CASE Lost(r)
  BY <1>2, LostUnwinds DEF Unwind, carrierVars
<1>3. CASE Mint(r)
  BY <1>3 DEF Mint, storeVars
<1>4. CASE StepUnsent(r)
  BY <1>4 DEF StepUnsent, carrierVars, storeVars
<1>5. CASE CallCarrier(r)
  BY <1>5 DEF CallCarrier, storeVars
<1>6. CASE RecordTraffic(r)
  BY <1>6 DEF RecordTraffic, storeVars
<1>7. CASE SaveLabel(r)
  BY <1>7 DEF SaveLabel, Stepped, carrierVars
<1>8. CASE BadLabel(r)
  BY <1>8 DEF BadLabel, Stepped, carrierVars, storeVars
<1>9. CASE PersistFailure(r)
  BY <1>9 DEF PersistFailure, carrierVars
<1>10. CASE Insert(r)
  BY <1>10 DEF Insert, carrierVars
<1>11. CASE Reply(r)
  BY <1>11 DEF Reply, carrierVars
<1>12. CASE Commit(r)
  BY <1>12 DEF Commit, carrierVars
<1> QED
  BY <1>1, <1>2, <1>3, <1>4, <1>5, <1>6, <1>7, <1>8, <1>9, <1>10, <1>11, <1>12
     DEF Step, Serve

\* Only these three touch a row or a key, and nothing but SaveLabel a label.
LEMMA StoresTouchedBy ==
    ASSUME NEW r \in Request, Step(r)
    PROVE  /\ \/ UNCHANGED row
              \/ PersistFailure(r)
              \/ Commit(r)
           /\ \/ UNCHANGED holder
              \/ Insert(r) \/ Reply(r) \/ Commit(r) \/ Lost(r)
           /\ \/ UNCHANGED label
              \/ SaveLabel(r)
BY LostUnwinds DEF Step, Serve, Start, Unwind, Mint,
         StepUnsent, CallCarrier, RecordTraffic, SaveLabel,
       BadLabel, PersistFailure, Insert, Reply, Commit, storeVars

-----------------------------------------------------------------------------
(* Keys and rows *)

LEMMA KeysStay ==
    ASSUME TypeOK, KeysHold, NEW r \in Request, Step(r)
    PROVE  KeysHold'
<1> USE DEF TypeOK
<1>1. OrderOf \in [Request -> Order] /\ Nobody \notin Request
  BY OrderAssumption, NobodyAssumption
<1>2. CASE Insert(r)
  BY <1>1, <1>2 DEF KeysHold, Insert, KeyIsFree, Conflicts, Exists, Goto, End
<1>3. CASE Reply(r)
  BY <1>1, <1>3 DEF KeysHold, Reply, Released, Goto, End
<1>4. CASE Commit(r)
  BY <1>1, <1>4 DEF KeysHold, Commit, Goto, End
<1>5. CASE Lost(r)
  BY <1>1, <1>5, LostUnwinds DEF KeysHold, Unwind, Released, Goto, End
<1>6. CASE PersistFailure(r)
  BY <1>1, <1>6 DEF KeysHold, PersistFailure, Persisted, KeyIsFree, Goto, End
<1>7. CASE Start(r) \/ Mint(r) \/ StepUnsent(r) \/ CallCarrier(r) \/ RecordTraffic(r)
           \/ SaveLabel(r) \/ BadLabel(r)
  <2>1. /\ pc[r] \notin {"inserted", "replied"} /\ pc'[r] \notin {"inserted", "replied"}
        /\ UNCHANGED <<holder, row>>
    BY <1>7 DEF Start, Mint, StepUnsent, CallCarrier, RecordTraffic, SaveLabel, BadLabel,
                Stepped, AfterBadLabel, Goto, End, storeVars
  <2>2. \A q \in Request \ {r} : pc'[q] = pc[q]
    BY OthersUntouched
  <2> QED
    BY <1>1, <2>1, <2>2 DEF KeysHold
<1> QED
  BY <1>2, <1>3, <1>4, <1>5, <1>6, <1>7 DEF Step, Serve

\* A committed row is never written again.
LEMMA RowsStay ==
    ASSUME TypeOK, KeysHold, NEW r \in Request, Step(r), NEW o \in Order, row[o] # NoRow
    PROVE  row'[o] = row[o]
<1>1. CASE PersistFailure(r)
  BY <1>1, ReadsType DEF TypeOK, PersistFailure, Persisted, Conflicts, Exists
<1>2. CASE Commit(r)
  <2>1. holder[OrderOf[r]] = r
    BY <1>2 DEF Commit, KeysHold
  <2>2. OrderOf[r] # o
    BY <2>1, NobodyAssumption, ReadsType DEF KeysHold
  <2> QED
    BY <1>2, <2>2 DEF TypeOK, Commit
<1> QED
  BY <1>1, <1>2, StoresTouchedBy

\* A new row names the request that wrote it, which is over.
LEMMA NewRow ==
    ASSUME TypeOK, NEW r \in Request, Step(r), NEW o \in Order, row'[o] # row[o]
    PROVE  /\ PersistFailure(r) \/ Commit(r)
           /\ row'[o] = [status |-> outcome[r], by |-> r]
           /\ OrderOf[r] = o
           /\ pc'[r] = "done"
BY StoresTouchedBy, ReadsType DEF TypeOK, PersistFailure, Persisted, Commit, Goto, End

LEMMA RowsAreOverStays ==
    ASSUME TypeOK, KeysHold, RowsAreOver, NEW r \in Request, Step(r)
    PROVE  RowsAreOver'
<1> SUFFICES ASSUME NEW o \in Order, row'[o] # NoRow
             PROVE  pc'[row'[o].by] = "done"
  BY DEF RowsAreOver
<1>1. CASE row'[o] = row[o]
  <2>1. row[o].by \in Request /\ pc[row[o].by] = "done"
    BY <1>1 DEF TypeOK, RowsAreOver
  <2> QED
    BY <1>1, <2>1, OthersUntouched
<1>2. CASE row'[o] # row[o]
  <2>1. row'[o] = [status |-> outcome[r], by |-> r] /\ pc'[r] = "done"
    BY <1>2, NewRow
  <2> QED
    BY <2>1
<1> QED
  BY <1>1, <1>2

-----------------------------------------------------------------------------
(* The request that moves *)

LEMMA UnderwayStays ==
    ASSUME TypeOK, KeysHold, Underway, TrafficFollows, NEW r \in Request, Step(r)
    PROVE  OnItsWay(r)'
<1> USE DEF TypeOK, Goto, End
<1>1. OnItsWay(r)
  BY DEF Underway
<1>2. /\ reads[r].steps \in Nat /\ reads[r].mints \in BOOLEAN /\ OrderOf[r] \in Order
      /\ calls[r] \in Nat /\ traffic[r] \in Nat
  BY ReadsType
<1>3. \A d \in Definition : Arrives(d) \in Labelled
  BY DEF Arrives, Labelled
<1>4. "rejected" \notin Labelled /\ Labelled \cap Failed = {}
  BY DEF Labelled, Failed
<1>5. CASE Start(r)
  BY <1>1, <1>5 DEF Start, OnItsWay, carrierVars, storeVars, Labelled, Failed, Arrives, Complete
<1>6. CASE Mint(r)
  <2>1. CASE Fits
    <3>1. issued \in Nat /\ Parcels \in Nat \ {0}
      BY RangeAssumption
    <3>2. Cardinality(issued + 1 .. issued + Parcels) = Parcels
      BY <3>1, FS_Interval
    <3>3. codes'[r] = issued + 1 .. issued + Parcels /\ pc'[r] = "booking"
      BY <1>6, <2>1 DEF Mint
    <3> QED
      BY <1>1, <1>2, <1>6, <3>2, <3>3 DEF Mint, OnItsWay, storeVars
  <2>2. CASE ~ Fits
    BY <1>1, <1>6, <2>2 DEF Mint, OnItsWay, storeVars
  <2> QED
    BY <2>1, <2>2
<1>7. CASE StepUnsent(r)
  <2>1. pc'[r] = "failed" /\ outcome'[r] = "booking_failed"
    BY <1>7 DEF StepUnsent
  <2> QED
    BY <1>1, <1>7, <2>1 DEF StepUnsent, OnItsWay, carrierVars, storeVars, Failed
<1>8. CASE CallCarrier(r)
  <2>1. /\ pc'[r] = "answered" /\ calls'[r] = calls[r] + 1 /\ reads[r].steps > 0
        /\ answer'[r] = "ok" /\ calls'[r] = reads[r].steps => r \in booked'
        /\ outcome[r] \in Labelled
        /\ r \notin broken
    BY <1>1, <1>2, <1>8 DEF CallCarrier, OnItsWay
  <2> QED
    BY <1>1, <1>4, <1>8, <2>1 DEF CallCarrier, OnItsWay, storeVars
<1>9. CASE RecordTraffic(r)
  <2>1. CASE answer[r] = "ok"
    <3>1. pc'[r] = "booking" /\ UNCHANGED outcome
      BY <1>9, <2>1 DEF RecordTraffic
    <3> QED
      BY <1>1, <1>9, <2>1, <3>1 DEF RecordTraffic, OnItsWay, storeVars
  <2>2. CASE answer[r] # "ok"
    <3>1. pc'[r] = "failed" /\ outcome'[r] = "booking_failed"
      BY <1>9, <2>2 DEF RecordTraffic
    <3> QED
      BY <1>1, <1>9, <2>2, <3>1 DEF RecordTraffic, OnItsWay, storeVars, Failed
  <2> QED
    BY <2>1, <2>2
<1>10. CASE SaveLabel(r)
  <2>1. pc'[r] = "flushing" /\ label'[OrderOf[r]] # Nobody
    BY <1>2, <1>10, NobodyAssumption DEF SaveLabel, Written
  <2>2. traffic[r] = calls[r] /\ calls[r] = reads[r].steps
    BY <1>1, <1>2, <1>10 DEF SaveLabel, Stepped, TrafficFollows, OnItsWay
  <2>3. Complete(r)'
    BY <1>1, <1>2, <1>10, <2>2 DEF SaveLabel, Stepped, OnItsWay, Complete, carrierVars
  <2> QED
    BY <1>1, <1>10, <2>1, <2>3 DEF SaveLabel, Stepped, OnItsWay, carrierVars
<1>11. CASE BadLabel(r)
  <2>1. pc'[r] \in {"failed", "done"} /\ outcome'[r] = "label_failed"
    BY <1>11 DEF BadLabel, AfterBadLabel
  <2> QED
    BY <1>1, <1>11, <2>1 DEF BadLabel, Stepped, OnItsWay, carrierVars, storeVars, Failed
<1>12. CASE PersistFailure(r)
  BY <1>1, <1>12 DEF PersistFailure, OnItsWay, carrierVars
<1>13. CASE Insert(r)
  BY <1>1, <1>13 DEF Insert, OnItsWay, Complete, carrierVars
<1>14. CASE Reply(r)
  BY <1>1, <1>14 DEF Reply, OnItsWay, Complete, carrierVars
<1>15. CASE Commit(r)
  BY <1>1, <1>15 DEF Commit, OnItsWay, carrierVars
<1>16. CASE Lost(r)
  BY <1>1, <1>16, LostUnwinds DEF Unwind, OnItsWay, carrierVars
<1> QED
  BY <1>5, <1>6, <1>7, <1>8, <1>9, <1>10, <1>11, <1>12, <1>13, <1>14, <1>15, <1>16
     DEF Step, Serve

\* A label file, once written, is only overwritten.
LEMMA LabelsStay ==
    ASSUME TypeOK, NEW r \in Request, Step(r), NEW o \in Order, label[o] # Nobody
    PROVE  label'[o] # Nobody
BY StoresTouchedBy, NobodyAssumption DEF TypeOK, SaveLabel, Written

LEMMA AllUnderwayStays ==
    ASSUME TypeOK, KeysHold, Underway, TrafficFollows, NEW r \in Request, Step(r)
    PROVE  Underway'
<1> SUFFICES ASSUME NEW q \in Request
             PROVE  OnItsWay(q)'
  BY DEF Underway
<1>1. CASE q = r
  BY <1>1, UnderwayStays
<1>2. CASE q # r
  <2>1. OnItsWay(q) /\ OrderOf[q] \in Order
    BY ReadsType DEF Underway
  <2>2. Complete(q)' <=> Complete(q)
    BY <1>2, OthersUntouched DEF Complete
  <2>3. label[OrderOf[q]] # Nobody => label'[OrderOf[q]] # Nobody
    BY <2>1, LabelsStay
  <2> QED
    BY <1>2, <2>1, <2>2, <2>3, OthersUntouched DEF OnItsWay
<1> QED
  BY <1>1, <1>2

LEMMA TrafficStays ==
    ASSUME TypeOK, Underway, TrafficFollows, NEW r \in Request, Step(r)
    PROVE  TrafficFollows'
<1> SUFFICES ASSUME NEW q \in Request
             PROVE  IF pc'[q] = "answered" THEN traffic'[q] + 1 = calls'[q]
                    ELSE traffic'[q] = calls'[q]
                         \/ (traffic'[q] + 1 = calls'[q] /\ q \in broken')
  BY DEF TrafficFollows
<1>1. CASE q # r
  BY <1>1, OthersUntouched DEF TrafficFollows
<1>2. CASE q = r
  <2> USE DEF TypeOK, Goto, End
  <2>1. IF pc[r] = "answered" THEN traffic[r] + 1 = calls[r]
        ELSE traffic[r] = calls[r] \/ (traffic[r] + 1 = calls[r] /\ r \in broken)
    BY DEF TrafficFollows
  <2>2. pc[r] # "done" /\ r \notin broken
    BY OthersUntouched DEF Underway, OnItsWay
  <2>3. CASE Lost(r)
    BY <1>2, <2>1, <2>3, LostUnwinds DEF Unwind, carrierVars
  <2>4. CASE CallCarrier(r)
    BY <1>2, <2>1, <2>2, <2>4 DEF CallCarrier
  <2>5. CASE RecordTraffic(r)
    BY <1>2, <2>1, <2>5 DEF RecordTraffic, Recorded
  <2>6. CASE Start(r) \/ Mint(r) \/ StepUnsent(r) \/ SaveLabel(r) \/ BadLabel(r)
             \/ PersistFailure(r) \/ Insert(r) \/ Reply(r) \/ Commit(r)
    <3>1. UNCHANGED <<calls, traffic>> /\ pc[r] # "answered" /\ pc'[r] # "answered"
      BY <2>6 DEF Start, Mint, StepUnsent, SaveLabel, BadLabel, PersistFailure, Insert,
                  Reply, Commit, Stepped, AfterBadLabel, carrierVars
    <3> QED
      BY <1>2, <2>1, <2>2, <3>1
  <2> QED
    BY <2>3, <2>4, <2>5, <2>6 DEF Step, Serve
<1> QED
  BY <1>1, <1>2

-----------------------------------------------------------------------------
(* What the carrier and the database agree on *)

LEMMA CodesStay ==
    ASSUME TypeOK, CodesAreIssued, NEW r \in Request, Step(r)
    PROVE  CodesAreIssued'
<1>1. CASE UNCHANGED <<codes, issued>>
  BY <1>1 DEF CodesAreIssued, NoCodeReused
<1>2. CASE Mint(r) /\ Fits
  <2>1. issued \in Nat /\ Parcels \in Nat \ {0}
    BY RangeAssumption DEF TypeOK
  <2>2. /\ codes' = [codes EXCEPT ![r] = issued + 1 .. issued + Parcels]
        /\ issued' = issued + Parcels
    BY <1>2 DEF Mint, Spend
  <2>3. \A q \in Request : codes'[q] \subseteq 1 .. issued'
    BY <2>1, <2>2 DEF TypeOK, CodesAreIssued
  <2>4. \A q \in Request \ {r} : codes'[q] \cap codes'[r] = {}
    BY <2>1, <2>2 DEF TypeOK, CodesAreIssued
  <2>5. \A q, p \in Request : q # p => codes'[q] \cap codes'[p] = {}
    BY <2>2, <2>4 DEF TypeOK, CodesAreIssued, NoCodeReused
  <2> QED
    BY <2>3, <2>5 DEF CodesAreIssued, NoCodeReused
<1>3. (Mint(r) /\ Fits) \/ UNCHANGED <<codes, issued>>
  BY LostUnwinds DEF Step, Serve, Start, Unwind, Mint,
         StepUnsent, CallCarrier, RecordTraffic, SaveLabel,
         BadLabel, PersistFailure, Insert, Reply, Commit, carrierVars
<1> QED
  BY <1>1, <1>2, <1>3

\* Only a call books, and it leaves its request under way; only a lost request is broken.
LEMMA BookedBy ==
    ASSUME NEW r \in Request, Step(r)
    PROVE  /\ booked \subseteq booked' /\ broken \subseteq broken'
           /\ CallCarrier(r) \/ UNCHANGED booked
           /\ Lost(r) \/ UNCHANGED broken
BY LostUnwinds DEF Step, Serve, Start, Unwind, Mint,
         StepUnsent, CallCarrier, RecordTraffic, SaveLabel,
       BadLabel, PersistFailure, Insert, Reply, Commit, carrierVars

\* However a booked request ends, its order has a row then, or it broke.
LEMMA EndsRecorded ==
    ASSUME TypeOK, KeysHold, Underway, NEW r \in Request, Step(r), pc'[r] = "done", r \in booked'
    PROVE  r \in broken' \/ row'[OrderOf[r]] # NoRow
<1> USE DEF TypeOK, Goto, End
<1>1. OnItsWay(r) /\ OrderOf[r] \in Order /\ reads[r].steps \in Nat
  BY ReadsType DEF Underway
<1>2. CASE Lost(r)
  BY <1>2, LostUnwinds DEF Unwind
<1>3. CASE CallCarrier(r)
  BY <1>3 DEF CallCarrier
<1>4. CASE ~ CallCarrier(r) /\ ~ Lost(r)
  <2>1. r \in booked
    BY <1>4, BookedBy
  <2>2. ~ Start(r) /\ ~ Mint(r)
    BY <1>1, <2>1 DEF OnItsWay, Start, Mint
  <2>3. CASE StepUnsent(r) \/ RecordTraffic(r) \/ SaveLabel(r)
    BY <2>3 DEF StepUnsent, RecordTraffic, SaveLabel, Stepped
  <2>4. CASE BadLabel(r)
    BY <1>1, <2>1, <2>4 DEF OnItsWay, BadLabel, Stepped, AfterBadLabel
  <2>5. CASE PersistFailure(r)
    BY <1>1, <2>5, NobodyAssumption DEF PersistFailure, Persisted, Conflicts, Exists
  <2>6. CASE Insert(r)
    BY <1>1, <2>6 DEF Insert, Conflicts, Exists, storeVars
  <2>7. CASE Reply(r)
    BY <1>1, <2>1, <2>7 DEF OnItsWay, Reply
  <2>8. CASE Commit(r)
    BY <1>1, <2>8, NobodyAssumption DEF Commit
  <2> QED
    BY <1>4, <2>2, <2>3, <2>4, <2>5, <2>6, <2>7, <2>8 DEF Step, Serve
<1> QED
  BY <1>2, <1>3, <1>4

LEMMA BookedStays ==
    ASSUME TypeOK, KeysHold, Underway, BookedIsRecorded, NEW r \in Request, Step(r)
    PROVE  BookedIsRecorded'
<1> SUFFICES ASSUME NEW q \in Request, q \in booked', pc'[q] = "done", q \notin broken'
             PROVE  row'[OrderOf[q]] # NoRow
  <2>1. booked' \subseteq Request
    BY BookedBy DEF TypeOK, CallCarrier
  <2> QED
    BY <2>1 DEF BookedIsRecorded, Ended, Exists
<1>1. CASE q = r
  BY <1>1, EndsRecorded
<1>2. CASE q # r
  <2>1. row[OrderOf[q]] # NoRow /\ OrderOf[q] \in Order
    BY <1>2, OthersUntouched, ReadsType DEF BookedIsRecorded, Ended, Exists
  <2> QED
    BY <2>1, RowsStay
<1> QED
  BY <1>1, <1>2

\* Start is where a request learns who is over.
LEMMA EarlierSetBy ==
    ASSUME NEW r \in Request, Step(r)
    PROVE  Start(r) \/ (UNCHANGED earlier /\ pc[r] # "new")
BY LostUnwinds DEF Step, Serve, Unwind, Mint,
         StepUnsent, CallCarrier, RecordTraffic, SaveLabel,
       BadLabel, PersistFailure, Insert, Reply, Commit, Stepped

LEMMA PredecessorStays ==
    ASSUME TypeOK, KeysHold, Underway, BookedIsRecorded, NoPredecessor,
           NEW r \in Request, Step(r)
    PROVE  NoPredecessor'
<1> DEFINE Clear(p, q) ==
      (pc[p] \notin {"new", "done"} \/ p \in booked)
         /\ q \in booked /\ OrderOf[q] = OrderOf[p] /\ q # p => q \in broken
<1> SUFFICES ASSUME NEW p \in Request, NEW q \in earlier'[p]
             PROVE  pc'[q] = "done" /\ Clear(p, q)'
  BY DEF NoPredecessor
<1>1. q \in Request
  BY StartType, ServeType, LostType DEF Step, TypeOK
<1>2. pc[r] # "done" /\ booked \subseteq booked' /\ broken \subseteq broken'
  BY OthersUntouched, BookedBy
<1>3. pc[q] = "done" => q # r /\ pc'[q] = "done" /\ (q \in booked' <=> q \in booked)
  BY <1>1, <1>2, OthersUntouched
<1>4. CASE q \in earlier[p]
  <2>1. pc[q] = "done" /\ Clear(p, q)
    BY <1>4 DEF NoPredecessor
  <2>2. CASE p # r
    BY <1>2, <1>3, <2>1, <2>2, OthersUntouched
  <2>3. CASE p = r /\ ~ Start(r)
    <3>1. pc[r] \notin {"new", "done"}
      BY <1>2, <2>3, EarlierSetBy
    <3> QED
      BY <1>2, <1>3, <2>1, <2>3, <3>1
  <2>4. CASE p = r /\ Start(r)
    <3>1. pc[r] = "new" /\ r \notin booked /\ UNCHANGED <<booked, row>>
      BY <2>4 DEF Start, carrierVars, storeVars, Underway, OnItsWay
    <3>2. Exists(r) => pc'[r] = "done"
      BY <2>4 DEF Start, Exists, End, Goto, TypeOK
    <3>3. q \in booked /\ OrderOf[q] = OrderOf[r] /\ q \notin broken => Exists(r)
      BY <1>1, <2>1 DEF BookedIsRecorded, Ended, Exists
    <3> QED
      BY <1>2, <1>3, <2>1, <2>4, <3>1, <3>2, <3>3
  <2> QED
    BY <2>2, <2>3, <2>4
<1>5. CASE q \notin earlier[p]
  <2>1. p = r /\ Start(r)
    BY <1>5, OthersUntouched, EarlierSetBy
  <2>2. pc[q] = "done"
    BY <2>1 DEF Start, TypeOK
  <2>3. pc[r] = "new" /\ r \notin booked /\ UNCHANGED <<booked, row>>
    BY <2>1 DEF Start, carrierVars, storeVars, Underway, OnItsWay
  <2>4. Exists(r) => pc'[r] = "done"
    BY <2>1 DEF Start, Exists, End, Goto, TypeOK
  <2>5. q \in booked /\ OrderOf[q] = OrderOf[r] /\ q \notin broken => Exists(r)
    BY <1>1, <2>2 DEF BookedIsRecorded, Ended, Exists
  <2> QED
    BY <1>2, <1>3, <2>1, <2>2, <2>3, <2>4, <2>5
<1> QED
  BY <1>4, <1>5

\* A labelled row that was not there is written by a request that is complete.
LEMMA NewLabelledRow ==
    ASSUME TypeOK, Underway, NEW r \in Request, Step(r), NEW o \in Order,
           row'[o] # row[o], row'[o].status \in Labelled
    PROVE  Complete(r) /\ Commit(r) /\ label[o] # Nobody /\ row'[o].by = r
<1>1. /\ PersistFailure(r) \/ Commit(r)
      /\ row'[o] = [status |-> outcome[r], by |-> r]
      /\ OrderOf[r] = o
  BY NewRow
<1>2. ~ PersistFailure(r)
  BY <1>1 DEF Underway, OnItsWay, PersistFailure, Labelled, Failed
<1>3. pc[r] = "replied" /\ outcome[r] \in Labelled
  BY <1>1, <1>2 DEF Commit
<1> QED
  BY <1>1, <1>2, <1>3 DEF Underway, OnItsWay

LEMMA SuccessStays ==
    ASSUME TypeOK, KeysHold, Underway, RowsAreOver, SuccessIsBooked, LabelledHasLabel,
           NEW r \in Request, Step(r)
    PROVE  SuccessIsBooked' /\ LabelledHasLabel'
<1> SUFFICES ASSUME NEW o \in Order, row'[o].status \in Labelled
             PROVE  Complete(row[o].by)' /\ label'[o] # Nobody
  BY DEF SuccessIsBooked, LabelledHasLabel
<1>1. CASE row'[o] = row[o]
  <2>1. row[o] # NoRow /\ row[o].by \in Request
    BY <1>1 DEF TypeOK, Labelled
  <2>2. row[o].by # r
    BY <2>1, OthersUntouched DEF RowsAreOver
  <2>3. Complete(row[o].by) /\ label[o] # Nobody
    BY <1>1 DEF SuccessIsBooked, LabelledHasLabel
  <2>4. Complete(row[o].by)'
    BY <1>1, <2>1, <2>2, <2>3, OthersUntouched DEF Complete
  <2> QED
    BY <1>1, <2>3, <2>4, LabelsStay
<1>2. CASE row'[o] # row[o]
  <2>1. Complete(r) /\ Commit(r) /\ label[o] # Nobody /\ row'[o].by = r
    BY <1>2, NewLabelledRow
  <2>2. Complete(row[o].by)'
    BY <2>1 DEF Commit, Complete, carrierVars
  <2> QED
    BY <2>1, <2>2, LabelsStay
<1> QED
  BY <1>1, <1>2

-----------------------------------------------------------------------------
(* The invariant and what follows from it *)

LEMMA InitInv == Init => BookingInv
<1> SUFFICES ASSUME Init PROVE BookingInv
  OBVIOUS
<1>1. TypeOK
  BY InitType
<1>2. Underway
  BY DEF Init, Underway, OnItsWay, Labelled, Failed
<1>3. TrafficFollows /\ KeysHold /\ RowsAreOver /\ NoPredecessor
  BY OrderAssumption DEF Init, TrafficFollows, KeysHold, RowsAreOver, NoPredecessor
<1>4. CodesAreIssued
  BY DEF Init, CodesAreIssued, NoCodeReused
<1>5. BookedIsRecorded /\ SuccessIsBooked /\ LabelledHasLabel
  BY DEF Init, BookedIsRecorded, SuccessIsBooked, LabelledHasLabel, Labelled
<1> QED
  BY <1>2, <1>3, <1>4, <1>5 DEF BookingInv

LEMMA StepKeepsInv ==
    ASSUME TypeOK, BookingInv, NEW r \in Request, Step(r)
    PROVE  BookingInv'
<1> USE DEF BookingInv
<1>1. Underway' /\ TrafficFollows'
  BY AllUnderwayStays, TrafficStays
<1>2. KeysHold' /\ RowsAreOver'
  BY KeysStay, RowsAreOverStays
<1>3. NoPredecessor' /\ BookedIsRecorded'
  BY PredecessorStays, BookedStays
<1>4. CodesAreIssued' /\ SuccessIsBooked' /\ LabelledHasLabel'
  BY CodesStay, SuccessStays
<1> QED
  BY <1>1, <1>2, <1>3, <1>4

LEMMA IdleKeepsInv ==
    ASSUME BookingInv, UNCHANGED vars
    PROVE  BookingInv'
<1>1. UNCHANGED vars => (Underway' <=> Underway) /\ (TrafficFollows' <=> TrafficFollows)
  BY DEF vars, Underway, OnItsWay, Complete, TrafficFollows
<1>2. UNCHANGED vars => (KeysHold' <=> KeysHold) /\ (RowsAreOver' <=> RowsAreOver)
  BY DEF vars, KeysHold, RowsAreOver
<1>3. UNCHANGED vars => /\ NoPredecessor' <=> NoPredecessor
                        /\ CodesAreIssued' <=> CodesAreIssued
  BY DEF vars, NoPredecessor, CodesAreIssued, NoCodeReused
<1>4. UNCHANGED vars => /\ BookedIsRecorded' <=> BookedIsRecorded
                        /\ SuccessIsBooked' <=> SuccessIsBooked
                        /\ LabelledHasLabel' <=> LabelledHasLabel
  BY DEF vars, BookedIsRecorded, Ended, Exists, SuccessIsBooked, Complete, LabelledHasLabel
<1> QED
  BY <1>1, <1>2, <1>3, <1>4 DEF BookingInv

\* BookingInv, the inductive invariant behind the theorems below.
THEOREM BookingSafe == Spec => [](TypeOK /\ BookingInv)
<1>1. Init => TypeOK /\ BookingInv
  BY InitType, InitInv
<1>2. TypeOK /\ BookingInv /\ [Next]_vars => (TypeOK /\ BookingInv)'
  <2> SUFFICES ASSUME TypeOK, BookingInv, [Next]_vars
               PROVE  TypeOK' /\ BookingInv'
    OBVIOUS
  <2>1. ASSUME NEW r \in Request, Step(r)
        PROVE  TypeOK' /\ BookingInv'
    BY <2>1, StartType, ServeType, LostType, StepKeepsInv DEF Step
  <2>2. CASE UNCHANGED vars
    BY <2>2, IdleType, IdleKeepsInv
  <2> QED
    BY <2>1, <2>2 DEF Next, Step
<1> QED
  BY <1>1, <1>2, PTL DEF Spec

\* Whichever way a request ends - a refused step, an undecodable label, a lost duplicate
\* race - a shipment it left at the carrier has a row for its order, unless it broke.
THEOREM BookedIsRecordedHolds == Spec => []BookedIsRecorded
<1>1. BookingInv => BookedIsRecorded
  BY DEF BookingInv
<1> QED
  BY BookingSafe, <1>1, PTL

\* A retry never books a second shipment: two of one order come from requests that
\* overlapped, or the first one broke.
THEOREM NoDoubleBooking == Spec => []RebookedOnlyByOverlap
<1>1. BookingInv /\ TypeOK => RebookedOnlyByOverlap
  BY DEF BookingInv, NoPredecessor, RebookedOnlyByOverlap, TypeOK
<1> QED
  BY BookingSafe, <1>1, PTL

\* Carrier contact always commits traffic, but for the one call a death cuts off.
THEOREM AuditCompleteHolds == Spec => []AuditComplete
<1>1. BookingInv => AuditComplete
  BY DEF BookingInv, TrafficFollows, AuditComplete
<1> QED
  BY BookingSafe, <1>1, PTL

\* A labelled consignment's own request took every step at the carrier, on record.
THEOREM NoSilentSuccess == Spec => []SuccessIsBooked
<1>1. BookingInv => SuccessIsBooked
  BY DEF BookingInv
<1> QED
  BY BookingSafe, <1>1, PTL

\* No serial is given to two requests, whatever failed, broke or was sent again.
THEOREM CodesAreUnique == Spec => []NoCodeReused
<1>1. BookingInv => NoCodeReused
  BY DEF BookingInv, CodesAreIssued
<1> QED
  BY BookingSafe, <1>1, PTL

\* A labelled consignment has a label file to serve.
THEOREM LabelledHasLabelHolds == Spec => []LabelledHasLabel
<1>1. BookingInv => LabelledHasLabel
  BY DEF BookingInv
<1> QED
  BY BookingSafe, <1>1, PTL

\* One consignment per order: a committed row is never replaced.
THEOREM RowsAreFinal == Spec => RowIsFinal
<1>1. TypeOK /\ BookingInv /\ [Next]_vars =>
        [\A o \in Order : row[o] # NoRow => row'[o] = row[o]]_vars
  <2> SUFFICES ASSUME TypeOK, BookingInv, Next
               PROVE  \A o \in Order : row[o] # NoRow => row'[o] = row[o]
    BY DEF vars
  <2>1. PICK r \in Request : Step(r)
    BY DEF Next, Step
  <2> QED
    BY <2>1, RowsStay DEF BookingInv
<1> QED
  BY BookingSafe, <1>1, PTL DEF Spec, RowIsFinal

=============================================================================
