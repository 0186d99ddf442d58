--------------------------- MODULE DispatchPromise ---------------------------
(***************************************************************************)
(* What ADR 0013 promises of a consignment, with no requests, jobs or      *)
(* retries: once accepted it is held, it is declared in at most one batch, *)
(* and it departs once, together with its whole batch, or alone when its   *)
(* carrier takes no manifest.  Nothing comes back.                         *)
(***************************************************************************)
CONSTANTS Consignment, Batch, NoBatch

VARIABLES
    phase,   \* where each consignment is
    batch,   \* what each batch declares, {} before it is closed
    away     \* the batches that have departed

promiseVars == <<phase, batch, away>>

Held == {c \in Consignment : phase[c] = "held"}

Init ==
    /\ phase = [c \in Consignment |-> "unknown"]
    /\ batch = [b \in Batch |-> {}]
    /\ away = {}

\* Paperwork: the order is held for a manifest, leaves with its label, or is refused.
Enter(c) ==
    /\ phase[c] = "unknown"
    /\ \E p \in {"held", "gone", "refused"} : phase' = [phase EXCEPT ![c] = p]
    /\ UNCHANGED <<batch, away>>

\* Some held consignments are declared, each in one new batch, or leave directly.
Declare ==
    \E work \in SUBSET Held :
    \E place \in [work -> {b \in Batch : batch[b] = {}} \union {NoBatch}] :
        /\ work # {}
        /\ phase' = [c \in Consignment |->
                       IF c \notin work THEN phase[c]
                       ELSE IF place[c] = NoBatch THEN "gone" ELSE "declared"]
        /\ batch' = [b \in Batch |->
                       IF batch[b] = {} THEN {c \in work : place[c] = b} ELSE batch[b]]
        /\ UNCHANGED away

\* A declared batch departs, every consignment of it at once.
Depart(b) ==
    /\ b \notin away
    /\ batch[b] # {}
    /\ away' = away \union {b}
    /\ phase' = [c \in Consignment |-> IF c \in batch[b] THEN "gone" ELSE phase[c]]
    /\ UNCHANGED batch

Next == \/ \E c \in Consignment : Enter(c)
        \/ Declare
        \/ \E b \in Batch : Depart(b)

Spec == Init /\ [][Next]_promiseVars

=============================================================================
