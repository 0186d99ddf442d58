----------------------------- MODULE NumberRange -----------------------------
(***************************************************************************)
(* One durable number range (a carrier's carrier_number_sequences row) and *)
(* the transactions that allocate from it.  allocate_number takes an       *)
(* advisory lock, reads the row, decides, and writes it back with an       *)
(* UPDATE guarded by the value it read; the number is handed out when the  *)
(* surrounding transaction commits.  Callers disagree: the policy and the  *)
(* ceiling are arguments of every call.                                    *)
(***************************************************************************)
EXTENDS Integers, Sequences

CONSTANTS
    Caller,      \* concurrent callers; each allocates one number per transaction
    Ceiling,     \* values of wrap_after a call may pass
    OldNext,     \* counters an older install may have left
    MaxHanded    \* bound on the numbers handed out

Policy == {"wrap", "halt"}
NoCaller == "no caller"
NoPolicy == "no policy"     \* a null policy column
NoBound == -1               \* a null wrap_after column
NoRow == [next |-> 0, policy |-> NoPolicy, bound |-> NoBound]
NoTerms == [policy |-> "wrap", ceiling |-> 0]

ASSUME RangeAssumption ==
    /\ Ceiling \subseteq Nat
    /\ OldNext \subseteq Nat \ {0}
    /\ MaxHanded \in Nat
    /\ NoCaller \notin Caller

VARIABLES
    range,      \* the committed row
    rangeLock,  \* holder of advisory lock 815_006
    rangeStep,  \* where each caller is
    terms,      \* the policy and ceiling its call passes
    seen,       \* the row it read
    claim,      \* the number it has claimed
    following,  \* the row it will commit
    handed      \* history: the numbers handed out, oldest first, with their ceiling

rangeVars == <<range, rangeLock, rangeStep, terms, seen, claim, following, handed>>

Row == [next : Nat, policy : Policy \union {NoPolicy}, bound : Nat \union {NoBound}]

RangeTypeOK ==
    /\ range \in Row
    /\ rangeLock \in Caller \union {NoCaller}
    /\ rangeStep \in [Caller -> {"idle", "deciding", "committing"}]
    /\ terms \in [Caller -> [policy : Policy, ceiling : Nat]]
    /\ seen \in [Caller -> Row]
    /\ claim \in [Caller -> Nat]
    /\ following \in [Caller -> Row]
    /\ handed \in Seq([number : Nat, policy : Policy \union {NoPolicy}, ceiling : Nat])

\* Rows older than the policy column, or than the wrap_after column, hold nulls; the
\* numbers below their counter have been handed out under no recorded ceiling.
OldRows == [next : OldNext, policy : Policy \union {NoPolicy}, bound : {NoBound}]
RangeInit ==
    /\ range \in {NoRow} \union OldRows
    /\ rangeLock = NoCaller
    /\ rangeStep = [c \in Caller |-> "idle"]
    /\ terms = [c \in Caller |-> NoTerms]
    /\ seen = [c \in Caller |-> NoRow]
    /\ claim = [c \in Caller |-> 0]
    /\ following = [c \in Caller |-> NoRow]
    /\ handed = [n \in 1 .. (IF range = NoRow THEN 0 ELSE range.next - 1) |->
                    [number |-> n, policy |-> range.policy, ceiling |-> 0]]

-----------------------------------------------------------------------------
RangeGoto(c, where) == rangeStep' = [rangeStep EXCEPT ![c] = where]

\* The advisory lock, then the row as committed.
TakeRange(c) == rangeLock = NoCaller /\ rangeLock' = c
ReadRange(c) ==
    /\ rangeStep[c] = "idle" /\ Len(handed) < MaxHanded
    /\ TakeRange(c)
    /\ \E p \in Policy, n \in Ceiling :
          terms' = [terms EXCEPT ![c] = [policy |-> p, ceiling |-> n]]
    /\ seen' = [seen EXCEPT ![c] = range]
    /\ RangeGoto(c, "deciding")
    /\ UNCHANGED <<range, claim, following, handed>>

\* What the recorded row says of the call: its policy is fixed, a halt range must have a
\* recorded ceiling that no call changes, a wrap range never shrinks.
PolicyKept_variant(row, t) == TRUE
PolicyKept(row, t) == row.policy \in {NoPolicy, t.policy}
CeilingKept_variant(row, t) == t.policy = "halt" => row.bound = t.ceiling
CeilingKept(row, t) ==
    IF t.policy = "halt" THEN row.bound = t.ceiling
    ELSE row.bound =< t.ceiling
HasRoom_variant(row, t) == TRUE
HasRoom(row, t) == t.policy = "halt" => row.next =< t.ceiling
MayClaim(row, t) ==
    IF row = NoRow THEN t.policy = "halt" => t.ceiling >= 1
    ELSE PolicyKept(row, t) /\ CeilingKept(row, t) /\ HasRoom(row, t)

\* The number a call claims, and the counter it leaves.
Claimed(row, t) == IF row = NoRow \/ row.next > t.ceiling THEN 1 ELSE row.next
NextAfter(row, t) ==
    IF row = NoRow \/ t.policy = "halt" \/ row.next # t.ceiling
    THEN Claimed(row, t) + 1 ELSE 1

\* The guarded UPDATE (a fresh row's INSERT) waits for another one's commit and matches
\* only the counter that was read: the backstop of the advisory lock.
ClaimNumber(c) ==
    /\ rangeStep[c] = "deciding"
    /\ MayClaim(seen[c], terms[c])
    /\ \A other \in Caller : rangeStep[other] # "committing"
    /\ range.next = seen[c].next
    /\ claim' = [claim EXCEPT ![c] = Claimed(seen[c], terms[c])]
    /\ following' = [following EXCEPT ![c] = [next |-> NextAfter(seen[c], terms[c]),
                                              policy |-> terms[c].policy,
                                              bound |-> terms[c].ceiling]]
    /\ RangeGoto(c, "committing")
    /\ UNCHANGED <<range, rangeLock, terms, seen, handed>>

EndRange(c) ==
    /\ RangeGoto(c, "idle")
    /\ rangeLock' = IF rangeLock = c THEN NoCaller ELSE rangeLock
    /\ terms' = [terms EXCEPT ![c] = NoTerms]
    /\ seen' = [seen EXCEPT ![c] = NoRow]
    /\ claim' = [claim EXCEPT ![c] = 0]
    /\ following' = [following EXCEPT ![c] = NoRow]

\* The transaction commits: its row appears, its number is out.
CommitNumber(c) ==
    /\ rangeStep[c] = "committing"
    /\ range' = following[c]
    /\ handed' = Append(handed, [number |-> claim[c], policy |-> terms[c].policy,
                                 ceiling |-> terms[c].ceiling])
    /\ EndRange(c)

\* A refusal (RangeExhausted, ValueError), or a transaction that dies with its claim.
AbortNumber(c) ==
    /\ rangeStep[c] # "idle"
    /\ EndRange(c)
    /\ UNCHANGED <<range, handed>>

RangeNext == \E c \in Caller :
    ReadRange(c) \/ ClaimNumber(c) \/ CommitNumber(c) \/ AbortNumber(c)

RangeSpec == RangeInit /\ [][RangeNext]_rangeVars

-----------------------------------------------------------------------------
(* Safety. *)

\* A halt range ("an SSCC identifies a physical unit still in the network") hands no number
\* out twice, whatever policies and ceilings its callers pass and whatever an older
\* install left in the row.
HaltNeverReissues == \A i, j \in DOMAIN handed :
    i < j /\ handed[j].policy = "halt" => handed[i].number # handed[j].number

\* A wrap range hands a number out again only after a whole lap: at least as many numbers
\* lie between as the ceiling it was first handed out under.
ReissuedOnlyAfterALap == \A i, j \in DOMAIN handed :
    i < j /\ handed[i].number = handed[j].number => j - i >= handed[i].ceiling

\* Once a call has recorded a policy and a ceiling, the policy stays, a halt range's
\* ceiling stays, and a wrap range's only grows: an exhausted halt range never revives.
RangeTermsFixed == [][range.bound # NoBound =>
    /\ range'.policy = range.policy
    /\ range'.bound # NoBound
    /\ range.policy = "wrap" => range'.bound >= range.bound
    /\ range.policy = "halt" => range'.bound = range.bound /\ range'.next >= range.next]_rangeVars
=============================================================================
