------------------------------- MODULE Tracking -------------------------------
(***************************************************************************)
(* Tracking webhooks: each delivery parses its rows and stores its events  *)
(* one after the other in one transaction, a savepoint around each, so     *)
(* that an event already there is skipped.  An insert waits for the        *)
(* transaction that holds the same (source, external_id); deliveries that  *)
(* wait for each other are a deadlock, and Postgres ends one of them.      *)
(***************************************************************************)
EXTENDS Integers, Sequences, FiniteSets, SequencesExt, FiniteSetsExt, Functions

CONSTANTS
    Webhook,     \* deliveries, redeliveries included
    Event,       \* external ids, all of one order and one source
    Status,      \* the canonical status of each event
    EventAt,     \* when the source says each event happened, or Unsaid
    MaxBatch,    \* bound on the rows of one delivery
    MaxReceived  \* bound on the clock that stamps received_at

Unsaid == -1
Precedence == [unknown |-> 0, in_transit |-> 1, out_for_delivery |-> 2, exception |-> 3,
               returned |-> 4, delivered |-> 5]
ASSUME TrackingAssumption ==
    /\ Status \in [Event -> DOMAIN Precedence]
    /\ EventAt \in [Event -> Nat \union {Unsaid}]
    /\ IsFiniteSet(Event)
    /\ MaxReceived \in Nat /\ MaxBatch \in Nat

VARIABLES
    stored,     \* the committed events
    received,   \* when each of these, or of the uncommitted ones, was inserted
    now,        \* the clock that stamps them
    hookStep,   \* where each delivery is
    sent,       \* the events it carries, in its order
    left,       \* those it has still to store
    mine,       \* those it has inserted, uncommitted
    count       \* events_stored so far

trackingVars == <<stored, received, now, hookStep, sent, left, mine, count>>

TrackingTypeOK ==
    /\ stored \subseteq Event
    /\ received \in [Event -> 0 .. MaxReceived]
    /\ now \in 0 .. MaxReceived
    /\ hookStep \in [Webhook -> 
            {"new", "storing", "told", "ok", "lost", "rejected", "failed"}]
    /\ sent \in [Webhook -> Seq(Event)] /\ left \in [Webhook -> Seq(Event)]
    /\ mine \in [Webhook -> SUBSET Event]
    /\ count \in [Webhook -> 0 .. Cardinality(Event)]

TrackingInit ==
    /\ stored = {}
    /\ received = [e \in Event |-> 0]
    /\ now = 0
    /\ hookStep = [w \in Webhook |-> "new"]
    /\ sent = [w \in Webhook |-> <<>>] /\ left = [w \in Webhook |-> <<>>]
    /\ mine = [w \in Webhook |-> {}]
    /\ count = [w \in Webhook |-> 0]

-----------------------------------------------------------------------------
HookGoto(w, where) == hookStep' = [hookStep EXCEPT ![w] = where]

\* What a payload parses to: a row without a status code or an update id is skipped, and
\* nothing keeps one id from coming twice.
Payload == BoundedSeq(Event, MaxBatch)

\* A field too long for its column rejects the whole delivery before it writes.
Receive(w) ==
    /\ hookStep[w] = "new"
    /\ \/ HookGoto(w, "rejected") /\ UNCHANGED <<sent, left>>
       \/ \E events \in Payload :
            /\ sent' = [sent EXCEPT ![w] = events]
            /\ left' = [left EXCEPT ![w] = events]
            /\ HookGoto(w, "storing")
    /\ UNCHANGED <<stored, received, now, mine, count>>

\* The deliveries whose uncommitted insert the next one of w waits for.
Waits(w) == {v \in Webhook \ {w} : hookStep[w] = "storing" /\ left[w] # <<>>
                                   /\ Head(left[w]) \in mine[v]}

\* One event in its savepoint: inserted, or an IntegrityError that skips this one only.
Duplicate(w) == Head(left[w]) \in stored \union mine[w]
Remaining_variant(w) == IF Duplicate(w) THEN <<>> ELSE Tail(left[w])
Remaining(w) == Tail(left[w])
StoreEvent(w) ==
    /\ hookStep[w] = "storing" /\ left[w] # <<>>
    /\ Waits(w) = {}
    /\ left' = [left EXCEPT ![w] = Remaining(w)]
    /\ IF Duplicate(w) THEN UNCHANGED <<mine, received, count>>
       ELSE /\ mine' = [mine EXCEPT ![w] = @ \union {Head(left[w])}]
            /\ received' = [received EXCEPT ![Head(left[w])] = now]
            /\ count' = [count EXCEPT ![w] = @ + 1]
    /\ UNCHANGED <<stored, now, hookStep, sent>>

\* The answer, {"events_stored": count}, leaves while the transaction is open.
AnswerEvents(w) ==
    /\ hookStep[w] = "storing" /\ left[w] = <<>>
    /\ HookGoto(w, "told")
    /\ UNCHANGED <<stored, received, now, sent, left, mine, count>>

\* The commit of the session, after the answer.
CommitEvents(w) ==
    /\ hookStep[w] = "told"
    /\ stored' = stored \union mine[w]
    /\ mine' = [mine EXCEPT ![w] = {}]
    /\ HookGoto(w, "ok")
    /\ UNCHANGED <<received, now, sent, left, count>>

\* A transaction that ends without a commit leaves nothing of the delivery.
RollBack(w) ==
    /\ mine' = [mine EXCEPT ![w] = {}]
    /\ received' = [e \in Event |-> IF e \in mine[w] THEN 0 ELSE received[e]]
    /\ UNCHANGED <<stored, now>>
Forget(w) ==
    /\ sent' = [sent EXCEPT ![w] = <<>>] /\ left' = [left EXCEPT ![w] = <<>>]
    /\ count' = [count EXCEPT ![w] = 0]
    /\ HookGoto(w, "failed")

\* The process or its connection dies, or the commit fails: before the answer, and the
\* source sees a failure; or after it, and the source keeps an answer that is not so.
BreakBeforeAnswer(w) == hookStep[w] = "storing" /\ RollBack(w) /\ Forget(w)
BreakAfterAnswer(w) ==
    /\ hookStep[w] = "told"
    /\ RollBack(w)
    /\ HookGoto(w, "lost")
    /\ UNCHANGED <<sent, left, count>>

\* A ring of deliveries each waiting for the next: Postgres ends one, with an error that
\* is no IntegrityError, and its transaction is rolled back.
Ring(S) == \A v \in S : Waits(v) \intersect S # {} /\ \E u \in S : v \in Waits(u)
EndVictim(w) ==
    /\ \E S \in SUBSET Webhook : w \in S /\ Ring(S)
    /\ RollBack(w) /\ Forget(w)

ReceiptTick ==
    /\ now < MaxReceived /\ now' = now + 1
    /\ UNCHANGED <<stored, received, hookStep, sent, left, mine, count>>

TrackingNext ==
    \/ ReceiptTick
    \/ \E w \in Webhook :
        \/ Receive(w) \/ StoreEvent(w) \/ AnswerEvents(w) \/ CommitEvents(w)
        \/ BreakBeforeAnswer(w) \/ BreakAfterAnswer(w) \/ EndVictim(w)

TrackingSpec == TrackingInit /\ [][TrackingNext]_trackingVars

-----------------------------------------------------------------------------
\* current_status: of the events of the latest instant, the most advanced status.
Instant(e) == IF EventAt[e] = Unsaid THEN received[e] ELSE EventAt[e]
Latest == Max({Instant(e) : e \in stored})
Tied == {Status[e] : e \in {f \in stored : Instant(f) = Latest}}
CurrentStatus_variant == CHOOSE s \in Tied : \A t \in Tied : Precedence[s] =< Precedence[t]
CurrentStatus == CHOOSE s \in Tied : \A t \in Tied : Precedence[s] >= Precedence[t]

(* Safety. *)

\* The answer leaves before the commit (tracking.receive_webhook, db.get_session).  What
\* a delivery was told is so once it has committed: each of its events is stored, those
\* behind a duplicate too, and these answers count every stored event once.  A delivery
\* whose transaction broke after the answer misses at most the events it counted itself:
\* what it skipped as a duplicate had been committed by another.
Committed == {w \in Webhook : hookStep[w] = "ok"}
Told == UNION {{w} \X (1 .. count[w]) : w \in Committed}   \* one by one, as each counted
Unstored(w) == Range(sent[w]) \ stored
AnsweredIsStored ==
    /\ \A w \in Committed : Unstored(w) = {}
    /\ Cardinality(Told) = Cardinality(stored)
    /\ \A w \in Webhook : hookStep[w] = "lost" => Cardinality(Unstored(w)) =< count[w]

\* A delivered order stays delivered until an event of a later instant is stored: the
\* carriers' late, repeated and same-instant events do not hide it.
DeliveryNotHidden == [][
    stored # {} /\ CurrentStatus = "delivered" /\ Latest' = Latest
        => CurrentStatus' = "delivered"]_trackingVars

(* The inductive invariant behind the theorems about tracking. *)

\* An uncommitted event is one delivery's alone, and that delivery's transaction is open.
Open == {"storing", "told"}
MineIsMine == \A w \in Webhook :
    /\ hookStep[w] \notin Open => mine[w] = {}
    /\ mine[w] \intersect stored = {}
    /\ \A v \in Webhook \ {w} : mine[v] \intersect mine[w] = {}

\* A delivery has stored, or has found stored, what it has not left, and has counted
\* what it has inserted.
StoringInv == \A w \in Webhook :
    /\ hookStep[w] \in Open \union {"new"} => count[w] = Cardinality(mine[w])
    /\ hookStep[w] \in Open =>
          Range(sent[w]) \subseteq stored \union mine[w] \union Range(left[w])
    /\ hookStep[w] = "told" => left[w] = <<>>

TrackingInv ==
    /\ TrackingTypeOK
    /\ MineIsMine
    /\ StoringInv
    /\ AnsweredIsStored /\ IsFiniteSet(Told)
=============================================================================
