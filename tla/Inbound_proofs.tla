----------------------------- MODULE Inbound_proofs -----------------------------
(* The number range, for any callers, any policies and ceilings they pass, any   *)
(* row an older install left and any number of allocations; the token cache, for *)
(* any numbers of threads and clients; tracking, for any numbers of deliveries   *)
(* and events; and the four components of MCInbound side by side.                *)
EXTENDS MCInbound, LegacyStaging_proofs,
        FiniteSetTheorems, SequenceTheorems, WellFoundedInduction, TLAPS

-----------------------------------------------------------------------------
(* The number range: the inductive invariant *)

\* The advisory lock serialises the callers, so what the holder read is still the row.
OneAllocator == \A c \in Caller : rangeStep[c] # "idle" =>
    /\ rangeLock = c
    /\ seen[c] = range

\* What a caller that has claimed commits follows from what it read.
ClaimFollows == \A c \in Caller : rangeStep[c] = "committing" =>
    /\ MayClaim(seen[c], terms[c])
    /\ claim[c] = Claimed(seen[c], terms[c])
    /\ following[c] = [next |-> NextAfter(seen[c], terms[c]), policy |-> terms[c].policy,
                       bound |-> terms[c].ceiling]

\* The row tells what the last number was: the counter follows it, or a wrap range has
\* just handed out its ceiling.
RowFollows ==
    /\ range = NoRow => handed = <<>>
    /\ range # NoRow => range.next \in Nat \ {0}
    /\ range.bound # NoBound => range.policy # NoPolicy
    /\ handed # <<>> =>
          \/ range.next = handed[Len(handed)].number + 1
          \/ range.policy = "wrap" /\ range.next = 1 /\ handed[Len(handed)].number >= range.bound

\* A halt range has handed out its numbers one by one from 1; no other row has handed
\* out any under the halt policy.
HaltCounts ==
    /\ range.policy = "halt" => /\ \A i \in DOMAIN handed : handed[i].number = i
                                /\ range.next = Len(handed) + 1
    /\ range.policy # "halt" => \A i \in DOMAIN handed : handed[i].policy # "halt"

\* Seen from the newest number, every earlier one lies in the same lap, or a whole lap of
\* its own ceiling has begun to close; no ceiling is above the recorded one.
LapsClose == \A i \in DOMAIN handed :
    /\ handed[i].ceiling =< range.bound \/ handed[i].ceiling = 0
    /\ LET far == Len(handed) - i
           last == handed[Len(handed)].number
       IN  \/ last = handed[i].number + far
           \/ far >= handed[i].ceiling - handed[i].number + last

RangeInv ==
    /\ RangeTypeOK
    /\ OneAllocator
    /\ ClaimFollows
    /\ RowFollows
    /\ HaltCounts
    /\ LapsClose
    /\ HaltNeverReissues
    /\ ReissuedOnlyAfterALap

LEMMA InitHolds == RangeInit => RangeInv
<1> SUFFICES ASSUME RangeInit PROVE RangeInv
  OBVIOUS
<1> DEFINE k == IF range = NoRow THEN 0 ELSE range.next - 1
           old(n) == [number |-> n, policy |-> range.policy, ceiling |-> 0]
<1>1. range \in Row /\ k \in Nat
  <2>1. CASE range = NoRow
    BY <2>1 DEF NoRow, Row, NoPolicy, NoBound
  <2>2. CASE range \in OldRows
    <3>1. range.next \in Nat \ {0} /\ range \in Row
      BY <2>2, RangeAssumption DEF OldRows, Row
    <3> QED
      BY <3>1
  <2> QED
    BY <2>1, <2>2 DEF RangeInit
<1>2. /\ handed = [n \in 1 .. k |-> old(n)]
      /\ handed \in Seq([number : Nat, policy : Policy \union {NoPolicy}, ceiling : Nat])
      /\ Len(handed) = k
  <2>1. handed = [n \in 1 .. k |-> old(n)]
    BY DEF RangeInit
  <2>2. \A n \in 1 .. k :
           old(n) \in [number : Nat, policy : Policy \union {NoPolicy}, ceiling : Nat]
    BY <1>1 DEF Row
  <2> HIDE DEF k, old
  <2> QED
    BY <1>1, <2>1, <2>2, IsASeq
<1>3. \A n \in DOMAIN handed : /\ n \in 1 .. k
                               /\ handed[n].number = n
                               /\ handed[n].policy = range.policy
                               /\ handed[n].ceiling = 0
  BY <1>2
<1>4. RangeTypeOK
  BY <1>1, <1>2, RangeAssumption DEF RangeInit, RangeTypeOK, NoTerms, NoRow, Row, Policy, NoBound
<1>5. OneAllocator /\ ClaimFollows
  BY DEF RangeInit, OneAllocator, ClaimFollows
<1>6. range = NoRow \/ (range \in OldRows /\ range.next \in Nat \ {0} /\ range # NoRow)
  BY RangeAssumption DEF RangeInit, OldRows, NoRow
<1>7. range.bound = NoBound
  BY <1>6 DEF OldRows, NoRow
<1>8. range = NoRow => handed = <<>>
  BY <1>2, EmptySeq
<1>9. range # NoRow => range.next = Len(handed) + 1
  BY <1>2, <1>6
<1>10. RowFollows
  <2>1. handed # <<>> => range.next = handed[Len(handed)].number + 1
    <3> SUFFICES ASSUME handed # <<>> PROVE range.next = handed[Len(handed)].number + 1
      OBVIOUS
    <3>1. k # 0 /\ Len(handed) \in DOMAIN handed
      <4>1. k # 0
        BY <1>2, EmptySeq
      <4> HIDE DEF k
      <4>2. Len(handed) \in 1 .. Len(handed)
        BY <1>1, <1>2, <4>1
      <4> QED
        BY <1>2, <4>1, <4>2, LenProperties
    <3> QED
      BY <1>3, <1>8, <1>9, <3>1
  <2> QED
    BY <1>6, <1>7, <1>8, <2>1 DEF RowFollows
<1>11. HaltCounts
  <2>1. range = NoRow => range.policy # "halt"
    <3>1. NoRow.policy = NoPolicy
      BY DEF NoRow
    <3> QED
      BY <3>1 DEF NoPolicy
  <2> QED
    BY <1>3, <1>9, <2>1 DEF HaltCounts
<1>12. LapsClose
  <2> SUFFICES ASSUME NEW i \in DOMAIN handed
               PROVE  handed[Len(handed)].number = handed[i].number + (Len(handed) - i)
    BY <1>3 DEF LapsClose
  <2>1. DOMAIN handed = 1 .. Len(handed) /\ Len(handed) \in Nat
    BY <1>2, LenProperties
  <2>2. i \in 1 .. Len(handed) /\ Len(handed) \in DOMAIN handed
    BY <2>1
  <2> QED
    BY <1>3, <2>1, <2>2
<1>13. HaltNeverReissues /\ ReissuedOnlyAfterALap
  BY <1>1, <1>3 DEF HaltNeverReissues, ReissuedOnlyAfterALap
<1> QED
  BY <1>4, <1>5, <1>10, <1>11, <1>12, <1>13 DEF RangeInv

-----------------------------------------------------------------------------
(* The number range: the steps *)

\* Only a commit touches the row and the history.
LEMMA OtherStep ==
    ASSUME RangeInv, NEW c \in Caller, ReadRange(c) \/ ClaimNumber(c) \/ AbortNumber(c)
    PROVE  RangeInv'
<1> USE DEF RangeInv
<1>1. UNCHANGED <<range, handed>>
  BY DEF ReadRange, ClaimNumber, AbortNumber
<1>2. RowFollows' /\ HaltCounts' /\ LapsClose' /\ HaltNeverReissues' /\ ReissuedOnlyAfterALap'
  BY <1>1 DEF RowFollows, HaltCounts, LapsClose, HaltNeverReissues, ReissuedOnlyAfterALap
<1>3. CASE ReadRange(c)
  <2>1. RangeTypeOK'
    BY <1>3, RangeAssumption DEF ReadRange, RangeTypeOK, TakeRange, RangeGoto
  <2>2. OneAllocator' /\ ClaimFollows'
    BY <1>3, RangeAssumption
       DEF ReadRange, RangeTypeOK, TakeRange, RangeGoto, OneAllocator, ClaimFollows
  <2> QED
    BY <1>2, <2>1, <2>2
<1>4. CASE ClaimNumber(c)
  <2>1. /\ Claimed(seen[c], terms[c]) \in Nat /\ NextAfter(seen[c], terms[c]) \in Nat
        /\ terms[c].policy \in Policy /\ terms[c].ceiling \in Nat
    BY DEF RangeTypeOK, Row, Claimed, NextAfter
  <2>2. RangeTypeOK'
    BY <1>4, <2>1 DEF ClaimNumber, RangeTypeOK, RangeGoto, Row
  <2>3. OneAllocator'
    BY <1>4 DEF ClaimNumber, RangeTypeOK, RangeGoto, OneAllocator
  <2>4. ClaimFollows'
    BY <1>4 DEF ClaimNumber, RangeTypeOK, RangeGoto, ClaimFollows
  <2> QED
    BY <1>2, <2>2, <2>3, <2>4
<1>5. CASE AbortNumber(c)
  <2>1. RangeTypeOK'
    BY <1>5 DEF AbortNumber, EndRange, RangeTypeOK, RangeGoto, NoTerms, NoRow, Row, Policy, NoBound
  <2>2. OneAllocator' /\ ClaimFollows'
    BY <1>5 DEF AbortNumber, EndRange, RangeTypeOK, RangeGoto, OneAllocator, ClaimFollows
  <2> QED
    BY <1>2, <2>1, <2>2
<1> QED
  BY <1>3, <1>4, <1>5

\* What a commit hands out, and the row it leaves.
LEMMA CommitFacts ==
    ASSUME RangeInv, NEW c \in Caller, CommitNumber(c)
    PROVE  /\ claim[c] \in Nat \ {0} /\ terms[c] \in [policy : Policy, ceiling : Nat]
           /\ range' = [next |-> NextAfter(range, terms[c]), policy |-> terms[c].policy,
                        bound |-> terms[c].ceiling]
           /\ range'.next \in Nat \ {0}
           /\ range.bound =< terms[c].ceiling
           /\ handed # <<>> =>
                 \/ claim[c] = handed[Len(handed)].number + 1
                 \/ /\ terms[c].policy = "wrap" /\ claim[c] = 1
                    /\ handed[Len(handed)].number >= range.bound
           /\ \/ range'.next = claim[c] + 1
              \/ terms[c].policy = "wrap" /\ range'.next = 1 /\ claim[c] >= terms[c].ceiling
           /\ terms[c].policy = "halt" => /\ range.policy = "halt" \/ handed = <<>>
                                          /\ range # NoRow => range.bound = terms[c].ceiling
                                          /\ claim[c] = Len(handed) + 1
                                          /\ range'.next = claim[c] + 1
           /\ terms[c].policy = "wrap" => range.policy # "halt"
           /\ range # NoRow /\ range.policy # NoPolicy => range.policy = terms[c].policy
<1> DEFINE t == terms[c]
<1>1. /\ range \in Row /\ t \in [policy : Policy, ceiling : Nat]
      /\ MayClaim(range, t) /\ claim[c] = Claimed(range, t)
      /\ range' = [next |-> NextAfter(range, t), policy |-> t.policy, bound |-> t.ceiling]
  BY DEF CommitNumber, RangeInv, RangeTypeOK, OneAllocator, ClaimFollows
<1>2. /\ range.next \in Nat /\ range.policy \in {"wrap", "halt", NoPolicy}
      /\ range.bound \in Nat \union {NoBound}
      /\ t.policy \in {"wrap", "halt"} /\ t.ceiling \in Nat
  BY <1>1 DEF Row, Policy
<1>3. handed \in Seq([number : Nat, policy : Policy \union {NoPolicy}, ceiling : Nat])
  BY DEF RangeInv, RangeTypeOK
<1>4. CASE range = NoRow
  <2>1. handed = <<>> /\ Len(handed) = 0
    BY <1>4 DEF RangeInv, RowFollows
  <2>2. claim[c] = 1 /\ NextAfter(range, t) = 2
    BY <1>1, <1>4 DEF Claimed, NextAfter
  <2>3. range.bound = NoBound /\ range.policy = NoPolicy
    BY <1>4 DEF NoRow
  <2>4. range'.next = 2
    BY <1>1, <2>2
  <2>5. t.policy = "wrap" => range.policy # "halt"
    BY <2>3 DEF NoPolicy
  <2> QED
    BY <1>1, <1>2, <1>4, <2>1, <2>2, <2>3, <2>4, <2>5 DEF NoBound
<1>5. CASE range # NoRow
  <2>1. /\ range.policy \in {NoPolicy, t.policy}
        /\ t.policy = "halt" => range.bound = t.ceiling /\ range.next =< t.ceiling
        /\ range.bound =< t.ceiling
        /\ range.next # 0
    BY <1>1, <1>2, <1>5 DEF MayClaim, PolicyKept, CeilingKept, HasRoom, RangeInv, RowFollows
  <2>2. t.policy = "halt" => range.policy = "halt"
    BY <1>2, <2>1 DEF RangeInv, RowFollows, NoBound
  <2>3. /\ claim[c] = IF range.next > t.ceiling THEN 1 ELSE range.next
        /\ range'.next = IF t.policy = "halt" \/ range.next # t.ceiling THEN claim[c] + 1 ELSE 1
        /\ range'.policy = t.policy /\ range'.bound = t.ceiling
    BY <1>1, <1>5 DEF Claimed, NextAfter
  <2>4. t.policy = "halt" => claim[c] = Len(handed) + 1 /\ range'.next = claim[c] + 1
    BY <1>2, <2>1, <2>2, <2>3 DEF RangeInv, HaltCounts
  <2>5. ASSUME handed # <<>>
        PROVE  \/ claim[c] = handed[Len(handed)].number + 1
               \/ /\ t.policy = "wrap" /\ claim[c] = 1
                  /\ handed[Len(handed)].number >= range.bound
    <3>1. handed[Len(handed)].number \in Nat
      <4>1. Len(handed) \in Nat \ {0}
        BY <1>3, <2>5, EmptySeq
      <4>2. Len(handed) \in 1 .. Len(handed)
        BY <4>1
      <4>3. handed[Len(handed)] \in [number : Nat, policy : Policy \union {NoPolicy}, ceiling : Nat]
        BY <1>3, <4>2, ElementOfSeq
      <4> QED
        BY <4>3
    <3>2. \/ range.next = handed[Len(handed)].number + 1
          \/ range.policy = "wrap" /\ range.next = 1 /\ handed[Len(handed)].number >= range.bound
      BY <2>5 DEF RangeInv, RowFollows
    <3> HIDE DEF t
    <3>3. CASE range.next = handed[Len(handed)].number + 1
      BY <1>2, <2>1, <2>3, <3>1, <3>3 DEF NoBound
    <3>4. CASE range.policy = "wrap" /\ range.next = 1 /\ handed[Len(handed)].number >= range.bound
      <4>1. t.policy = "wrap"
        BY <2>1, <3>4 DEF NoPolicy
      <4> QED
        BY <1>2, <2>3, <3>4, <4>1
    <3> QED
      BY <3>2, <3>3, <3>4
  <2>6. /\ claim[c] \in Nat \ {0}
        /\ \/ range'.next = claim[c] + 1
           \/ t.policy = "wrap" /\ range'.next = 1 /\ claim[c] >= t.ceiling
    BY <1>2, <2>1, <2>3
  <2>7. t.policy = "wrap" => range.policy # "halt"
    BY <2>1 DEF NoPolicy
  <2> QED
    BY <1>1, <1>2, <2>1, <2>2, <2>4, <2>5, <2>6, <2>7
<1> QED
  BY <1>4, <1>5

LEMMA CommitStep ==
    ASSUME RangeInv, NEW c \in Caller, CommitNumber(c)
    PROVE  RangeInv'
<1> DEFINE L == Len(handed)
           n == claim[c]
           Handed == [number : Nat, policy : Policy \union {NoPolicy}, ceiling : Nat]
           new == [number |-> n, policy |-> terms[c].policy, ceiling |-> terms[c].ceiling]
<1>1. /\ n \in Nat \ {0} /\ new \in Handed /\ handed \in Seq(Handed) /\ L \in Nat
      /\ terms[c].policy \in Policy /\ terms[c].ceiling \in Nat
  BY CommitFacts DEF RangeInv, RangeTypeOK
<1>2. /\ handed' = Append(handed, new) /\ handed' \in Seq(Handed) /\ Len(handed') = L + 1
      /\ DOMAIN handed = 1 .. L /\ DOMAIN handed' = 1 .. L + 1
      /\ \A i \in 1 .. L : handed'[i] = handed[i]
      /\ handed'[L + 1] = new
      /\ handed' # <<>>
  BY <1>1, AppendProperties, LenProperties DEF CommitNumber
<1>3. /\ \A i \in 1 .. L : /\ handed[i] \in Handed /\ handed[i].number \in Nat
                           /\ handed[i].ceiling \in Nat
      /\ L > 0 => handed # <<>>
  <2>1. \A i \in 1 .. L : handed[i] \in Handed
    BY <1>1, ElementOfSeq
  <2>2. L > 0 => handed # <<>>
    BY <1>1, EmptySeq
  <2> QED
    BY <2>1, <2>2
<1>4. /\ range' \in Row /\ range' # NoRow /\ range'.next \in Nat \ {0}
      /\ range'.bound = terms[c].ceiling /\ range'.policy = terms[c].policy
  BY <1>1, CommitFacts DEF Row, NoRow, NoBound
<1>5. RangeTypeOK'
  BY <1>2, <1>4 DEF CommitNumber, EndRange, RangeInv, RangeTypeOK, RangeGoto, NoTerms, NoRow, Row,
                    Policy, NoBound
<1>6. OneAllocator' /\ ClaimFollows'
  <2>1. \A d \in Caller \ {c} : rangeStep[d] = "idle"
    BY DEF CommitNumber, RangeInv, OneAllocator
  <2>2. \A d \in Caller : rangeStep'[d] = "idle"
    BY <2>1 DEF CommitNumber, EndRange, RangeGoto, RangeInv, RangeTypeOK
  <2> QED
    BY <2>2 DEF OneAllocator, ClaimFollows
<1>7. RowFollows'
  <2>1. range'.policy # NoPolicy
    BY <1>1, <1>4 DEF Policy, NoPolicy
  <2>2. \/ range'.next = n + 1
        \/ range'.policy = "wrap" /\ range'.next = 1 /\ n >= range'.bound
    BY <1>4, CommitFacts
  <2>3. handed'[Len(handed')].number = n
    BY <1>2
  <2> QED
    BY <1>2, <1>4, <2>1, <2>2, <2>3 DEF RowFollows
<1>8. HaltCounts' /\ HaltNeverReissues'
  <2>1. CASE terms[c].policy = "halt"
    <3>1. \A i \in 1 .. L : handed[i].number = i
      BY <1>1, <1>2, <2>1, CommitFacts DEF RangeInv, HaltCounts
    <3>2. n = L + 1 /\ range'.next = n + 1
      BY <2>1, CommitFacts
    <3>3. \A i \in 1 .. L + 1 : handed'[i].number = i
      BY <1>1, <1>2, <3>1, <3>2
    <3> QED
      BY <1>1, <1>2, <1>4, <2>1, <3>2, <3>3 DEF HaltCounts, HaltNeverReissues
  <2>2. CASE terms[c].policy = "wrap"
    <3>1. \A i \in 1 .. L + 1 : handed'[i].policy # "halt"
      BY <1>1, <1>2, <2>2, CommitFacts DEF RangeInv, HaltCounts
    <3> QED
      BY <1>2, <1>4, <2>2, <3>1 DEF HaltCounts, HaltNeverReissues
  <2> QED
    BY <1>1, <2>1, <2>2 DEF Policy
<1> DEFINE bound == range'.bound
           Number(i) == handed'[i].number
           Promised(i) == handed'[i].ceiling
<1>9. /\ bound \in Nat /\ range.bound \in Int /\ range.bound =< bound
      /\ \A i \in 1 .. L : /\ Number(i) = handed[i].number /\ Number(i) \in Nat
                           /\ Promised(i) = handed[i].ceiling /\ Promised(i) \in Nat
      /\ Number(L + 1) = n /\ Promised(L + 1) = bound
      /\ DOMAIN handed' = 1 .. L + 1 /\ Len(handed') = L + 1
  BY <1>1, <1>2, <1>3, <1>4, CommitFacts DEF RangeInv, RangeTypeOK, Row, NoBound
<1>10. L > 0 => n = Number(L) + 1 \/ (n = 1 /\ Number(L) >= range.bound)
  <2> SUFFICES ASSUME L > 0 PROVE n = Number(L) + 1 \/ (n = 1 /\ Number(L) >= range.bound)
    OBVIOUS
  <2>1. handed # <<>> /\ L \in 1 .. L
    BY <1>1, <1>3
  <2>2. n = handed[L].number + 1 \/ (n = 1 /\ handed[L].number >= range.bound)
    BY <2>1, CommitFacts
  <2> QED
    BY <1>9, <2>1, <2>2
<1>11. \A i \in 1 .. L :
          /\ Promised(i) =< range.bound \/ Promised(i) = 0
          /\ \/ Number(L) = Number(i) + (L - i)
             \/ L - i >= Promised(i) - Number(i) + Number(L)
  <2> SUFFICES ASSUME NEW i \in 1 .. L
               PROVE  /\ Promised(i) =< range.bound \/ Promised(i) = 0
                      /\ \/ Number(L) = Number(i) + (L - i)
                         \/ L - i >= Promised(i) - Number(i) + Number(L)
    OBVIOUS
  <2>1. L \in 1 .. L
    BY <1>1
  <2>2. /\ handed[i].ceiling =< range.bound \/ handed[i].ceiling = 0
        /\ \/ handed[L].number = handed[i].number + (L - i)
           \/ L - i >= handed[i].ceiling - handed[i].number + handed[L].number
    BY <1>2 DEF RangeInv, LapsClose
  <2>3. /\ Number(i) = handed[i].number /\ Promised(i) = handed[i].ceiling
        /\ Number(L) = handed[L].number
    BY <1>9, <2>1
  <2> HIDE DEF L, Number, Promised
  <2> QED
    BY <2>2, <2>3
<1>12. \A i, j \in 1 .. L : i < j /\ Number(i) = Number(j) => j - i >= Promised(i)
  BY <1>1, <1>2 DEF RangeInv, ReissuedOnlyAfterALap
<1>13. L \in Nat /\ n \in Nat \ {0}
  BY <1>1
<1> HIDE DEF L, n, Number, Promised, bound
\* The new number begins a lap, or goes on with the one the last number was in.
<1>14. \A i \in 1 .. L + 1 :
          /\ Promised(i) =< bound \/ Promised(i) = 0
          /\ \/ n = Number(i) + (L + 1 - i)
             \/ L + 1 - i >= Promised(i) - Number(i) + n
  <2> SUFFICES ASSUME NEW i \in 1 .. L + 1
               PROVE  /\ Promised(i) =< bound \/ Promised(i) = 0
                      /\ \/ n = Number(i) + (L + 1 - i)
                         \/ L + 1 - i >= Promised(i) - Number(i) + n
    OBVIOUS
  <2>1. CASE i = L + 1
    BY <1>9, <1>13, <2>1
  <2>2. CASE i \in 1 .. L
    <3>1. L > 0 /\ L \in 1 .. L
      BY <1>13, <2>2
    <3>2. Number(L) \in Nat /\ Number(i) \in Nat /\ Promised(i) \in Nat
      BY <1>9, <2>2, <3>1
    <3>3. /\ Promised(i) =< range.bound \/ Promised(i) = 0
          /\ Number(L) = Number(i) + (L - i) \/ L - i >= Promised(i) - Number(i) + Number(L)
      BY <1>11, <2>2
    <3>4. n = Number(L) + 1 \/ (n = 1 /\ Number(L) >= range.bound)
      BY <1>10, <3>1
    <3>5. bound \in Nat /\ range.bound \in Int /\ range.bound =< bound
      BY <1>9
    <3>6. i \in Int /\ i =< L
      BY <1>13, <2>2
    <3>7. CASE n = Number(L) + 1
      BY <1>13, <3>2, <3>3, <3>5, <3>6, <3>7
    <3>8. CASE n = 1 /\ Number(L) >= range.bound
      <4>1. Number(L) >= Promised(i)
        BY <3>2, <3>3, <3>5, <3>8
      <4> QED
        BY <1>13, <3>2, <3>3, <3>5, <3>6, <3>8, <4>1
    <3> QED
      BY <3>4, <3>7, <3>8
  <2> QED
    BY <1>13, <2>1, <2>2
<1>15. LapsClose'
  <2>1. Len(handed') = L + 1 /\ handed'[L + 1].number = n
    BY <1>9 DEF Number
  <2>2. \A i \in DOMAIN handed' :
          /\ handed'[i].ceiling =< range'.bound \/ handed'[i].ceiling = 0
          /\ \/ n = handed'[i].number + (L + 1 - i)
             \/ L + 1 - i >= handed'[i].ceiling - handed'[i].number + n
    BY <1>9, <1>14 DEF Number, Promised, bound
  <2>3. \A i \in DOMAIN handed' :
          /\ handed'[i].ceiling =< range'.bound \/ handed'[i].ceiling = 0
          /\ \/ handed'[Len(handed')].number = handed'[i].number + (Len(handed') - i)
             \/ Len(handed') - i >= handed'[i].ceiling - handed'[i].number
                                     + handed'[Len(handed')].number
    BY <1>13, <2>1, <2>2
  <2> QED
    BY <2>3 DEF LapsClose
<1>16. ReissuedOnlyAfterALap'
  <2>1. ASSUME NEW i \in 1 .. L + 1, NEW j \in 1 .. L + 1, i < j, Number(i) = Number(j)
        PROVE  j - i >= Promised(i)
    <3>1. CASE j \in 1 .. L
      BY <1>12, <1>13, <2>1, <3>1
    <3>2. CASE j = L + 1
      <4>1. i \in 1 .. L /\ Number(i) = n /\ Number(i) \in Nat /\ Promised(i) \in Nat
        BY <1>9, <1>13, <2>1, <3>2
      <4>2. \/ n = Number(i) + (L + 1 - i)
            \/ L + 1 - i >= Promised(i) - Number(i) + n
        BY <1>14, <2>1
      <4> QED
        BY <1>13, <3>2, <4>1, <4>2
    <3> QED
      BY <1>13, <3>1, <3>2
  <2> QED
    BY <1>9, <2>1 DEF ReissuedOnlyAfterALap, Number, Promised
<1> QED
  BY <1>5, <1>6, <1>7, <1>8, <1>15, <1>16 DEF RangeInv

-----------------------------------------------------------------------------
(* The number range: the theorems *)

\* The number range keeps its inductive invariant, type correctness included: the lock
\* serialises the callers, and the row tells how the history of numbers goes on.
THEOREM RangeSafe == RangeSpec => []RangeInv
<1>1. RangeInit => RangeInv
  BY InitHolds
<1>2. RangeInv /\ [RangeNext]_rangeVars => RangeInv'
  <2> SUFFICES ASSUME RangeInv, [RangeNext]_rangeVars PROVE RangeInv'
    OBVIOUS
  <2>1. CASE RangeNext
    BY <2>1, OtherStep, CommitStep DEF RangeNext
  <2>2. CASE UNCHANGED rangeVars
    BY <2>2 DEF rangeVars, RangeInv, RangeTypeOK, OneAllocator, ClaimFollows, RowFollows, HaltCounts,
                LapsClose, HaltNeverReissues, ReissuedOnlyAfterALap
  <2> QED
    BY <2>1, <2>2
<1> QED
  BY <1>1, <1>2, PTL DEF RangeSpec

\* A halt range hands no number out twice, for any mix of callers and any old row.
THEOREM HaltHolds == RangeSpec => []HaltNeverReissues
<1>1. RangeInv => HaltNeverReissues
  BY DEF RangeInv
<1> QED
  BY RangeSafe, <1>1, PTL

\* A wrap range reissues a number only after a whole lap of the ceiling it had then.
THEOREM LapHolds == RangeSpec => []ReissuedOnlyAfterALap
<1>1. RangeInv => ReissuedOnlyAfterALap
  BY DEF RangeInv
<1> QED
  BY RangeSafe, <1>1, PTL

\* A recorded policy stays, a halt range's ceiling stays and a wrap range's only grows.
THEOREM TermsFixed == RangeSpec => RangeTermsFixed
<1>1. RangeInv /\ [RangeNext]_rangeVars => [range.bound # NoBound =>
        /\ range'.policy = range.policy
        /\ range'.bound # NoBound
        /\ range.policy = "wrap" => range'.bound >= range.bound
        /\ range.policy = "halt" => range'.bound = range.bound /\ range'.next >= range.next]_rangeVars
  <2> SUFFICES ASSUME RangeInv, RangeNext, range.bound # NoBound
               PROVE  /\ range'.policy = range.policy
                      /\ range'.bound # NoBound
                      /\ range.policy = "wrap" => range'.bound >= range.bound
                      /\ range.policy = "halt" => /\ range'.bound = range.bound
                                                  /\ range'.next >= range.next
    BY DEF rangeVars
  <2>1. PICK c \in Caller : ReadRange(c) \/ ClaimNumber(c) \/ CommitNumber(c) \/ AbortNumber(c)
    BY DEF RangeNext
  <2>2. range.bound \in Nat /\ range.next \in Nat /\ range # NoRow /\ range.policy # NoPolicy
    BY DEF RangeInv, RangeTypeOK, Row, RowFollows, NoRow
  <2>3. CASE CommitNumber(c)
    <3>1. /\ range'.policy = terms[c].policy /\ range'.bound = terms[c].ceiling
          /\ terms[c].ceiling \in Nat /\ range.policy = terms[c].policy
          /\ range.bound =< terms[c].ceiling
      BY <2>2, <2>3, CommitFacts
    <3>2. range.policy = "halt" => /\ range.bound = terms[c].ceiling
                                   /\ range'.next = Len(handed) + 2
                                   /\ range.next = Len(handed) + 1
                                   /\ Len(handed) \in Nat
      BY <2>2, <2>3, <3>1, CommitFacts DEF RangeInv, RangeTypeOK, HaltCounts
    <3> QED
      BY <2>2, <3>1, <3>2 DEF NoBound
  <2>4. CASE ReadRange(c) \/ ClaimNumber(c) \/ AbortNumber(c)
    BY <2>2, <2>4 DEF ReadRange, ClaimNumber, AbortNumber
  <2> QED
    BY <2>1, <2>3, <2>4
<1> QED
  BY RangeSafe, <1>1, PTL DEF RangeSpec, RangeTermsFixed

-----------------------------------------------------------------------------
(* The token cache: the inductive invariant *)

\* A thread between two calls is nobody; under way it stays the client it looked up.
KnowsItsClient == \A t \in Thread : tokenStep[t] # "idle" => client[t] \in Client

\* A token under way was granted to the thread's own client, and not longer ago than an
\* answer may travel.
GrantIsRecent == \A t \in Thread : tokenStep[t] = "granted" =>
    /\ granted[t].token \in [client : {client[t]}, dies : Nat]
    /\ granted[t].token.dies = granted[t].since + granted[t].life
    /\ granted[t].since =< clock
    /\ clock - granted[t].since =< Travel

\* An entry that may still be served holds its client's token, and leaves it at least the
\* margin less the travel time.
EntryIsGood == \A c \in Client : cached[c].expires_at > 0 =>
    /\ cached[c].token \in [client : {c}, dies : Nat]
    /\ cached[c].token.dies - cached[c].expires_at >= Margin - Travel

TokenInv == TokenTypeOK /\ KnowsItsClient /\ GrantIsRecent /\ EntryIsGood /\ BearerIsGood

LEMMA TokenInitHolds == TokenInit => TokenInv
<1> SUFFICES ASSUME TokenInit PROVE TokenInv
  OBVIOUS
<1>1. TokenTypeOK
  BY TokenAssumption DEF TokenInit, TokenTypeOK, Token, Nothing, NoGrant, NoBearer
<1>2. KnowsItsClient /\ GrantIsRecent /\ BearerIsGood
  BY DEF TokenInit, KnowsItsClient, GrantIsRecent, BearerIsGood
<1>3. EntryIsGood
  BY DEF TokenInit, EntryIsGood, Nothing
<1> QED
  BY <1>1, <1>2, <1>3 DEF TokenInv

-----------------------------------------------------------------------------
(* Steps of the cache *)

LEMMA TickHolds ==
    ASSUME TokenInv, TokenTick
    PROVE  TokenInv'
<1> USE DEF TokenInv
<1>1. clock' \in 0 .. Horizon /\ clock \in Nat /\ clock' = clock + 1
  BY TokenAssumption DEF TokenTick, TokenTypeOK
<1>2. TokenTypeOK'
  BY <1>1 DEF TokenTick, TokenTypeOK
<1>3. KnowsItsClient' /\ EntryIsGood'
  BY DEF TokenTick, KnowsItsClient, EntryIsGood
<1>4. GrantIsRecent'
  BY <1>1, TokenAssumption DEF TokenTick, GrantIsRecent, TokenTypeOK
<1>5. BearerIsGood'
  BY DEF TokenTick, BearerIsGood
<1> QED
  BY <1>2, <1>3, <1>4, <1>5

LEMMA LookUpHolds ==
    ASSUME TokenInv, NEW t \in Thread, LookUp(t)
    PROVE  TokenInv'
<1> USE DEF TokenInv
<1>1. PICK c \in Client :
        /\ client' = [client EXCEPT ![t] = c]
        /\ IF Fresh(c)
           THEN /\ bearer' = [bearer EXCEPT ![t] = [token |-> cached[c].token, hit |-> TRUE]]
                /\ tokenStep' = [tokenStep EXCEPT ![t] = "sending"]
           ELSE /\ tokenStep' = [tokenStep EXCEPT ![t] = "fetching"]
                /\ UNCHANGED bearer
        /\ UNCHANGED <<clock, cached, granted>>
        /\ tokenStep[t] = "idle"
  BY DEF LookUp, KeyOf, TokenGoto
<1>2. TokenTypeOK'
  <2>1. /\ tokenStep' \in [Thread -> {"idle", "fetching", "granted", "sending"}]
        /\ client' \in [Thread -> Client \union {NoClient}]
    BY <1>1 DEF TokenTypeOK
  <2>2. bearer' \in [Thread -> [token : Token, hit : BOOLEAN]]
    <3>1. [token |-> cached[c].token, hit |-> TRUE] \in [token : Token, hit : BOOLEAN]
      BY DEF TokenTypeOK
    <3> QED
      BY <1>1, <3>1 DEF TokenTypeOK
  <2> QED
    BY <1>1, <2>1, <2>2 DEF TokenTypeOK
<1>3. KnowsItsClient' /\ GrantIsRecent' /\ EntryIsGood'
  BY <1>1 DEF TokenTypeOK, KnowsItsClient, GrantIsRecent, EntryIsGood
<1>4. BearerIsGood'
  <2>1. CASE Fresh(c)
    <3>1. clock \in Nat /\ cached[c].expires_at \in Int /\ clock < cached[c].expires_at
      BY <2>1, TokenAssumption DEF Fresh, KeyOf, TokenTypeOK
    <3>2. /\ cached[c].token.client = c /\ cached[c].token.dies \in Nat
          /\ cached[c].token.dies - cached[c].expires_at >= Margin - Travel
      BY <3>1 DEF EntryIsGood
    <3>3. cached[c].token.dies - clock > Margin - Travel
      BY <3>1, <3>2, TokenAssumption
    <3> QED
      BY <1>1, <2>1, <3>2, <3>3 DEF TokenTypeOK, BearerIsGood
  <2>2. CASE ~ Fresh(c)
    BY <1>1, <2>2 DEF TokenTypeOK, BearerIsGood
  <2> QED
    BY <2>1, <2>2
<1> QED
  BY <1>2, <1>3, <1>4

LEMMA GrantHolds ==
    ASSUME TokenInv, NEW t \in Thread, Grant(t)
    PROVE  TokenInv'
<1> USE DEF TokenInv
<1>1. PICK life \in Lifetime :
        granted' = [granted EXCEPT ![t] = [token |-> [client |-> client[t], dies |-> clock + life],
                                           life |-> life, since |-> clock]]
  BY DEF Grant
<1>2. clock \in Nat /\ life \in Nat /\ client[t] \in Client
  BY TokenAssumption DEF Grant, TokenTypeOK, KnowsItsClient
<1>3. TokenTypeOK'
  <2>1. [client |-> client[t], dies |-> clock + life] \in Token
    BY <1>2 DEF Token
  <2> QED
    BY <1>1, <1>2, <2>1 DEF Grant, TokenGoto, TokenTypeOK
<1>4. KnowsItsClient' /\ EntryIsGood' /\ BearerIsGood'
  BY <1>2 DEF Grant, TokenGoto, TokenTypeOK, KnowsItsClient, EntryIsGood, BearerIsGood
<1>5. GrantIsRecent'
  BY <1>1, <1>2, TokenAssumption DEF Grant, TokenGoto, TokenTypeOK, GrantIsRecent
<1> QED
  BY <1>3, <1>4, <1>5

LEMMA StoreHolds ==
    ASSUME TokenInv, NEW t \in Thread, Store(t)
    PROVE  TokenInv'
<1> USE DEF TokenInv
<1> DEFINE entry == [token |-> granted[t].token, expires_at |-> ExpiresAt(granted[t].life)]
<1>1. /\ client[t] \in Client /\ clock \in Nat
      /\ granted[t] \in [token : Token, life : Nat, since : Nat]
      /\ granted[t].token \in [client : {client[t]}, dies : Nat]
      /\ granted[t].token.dies = granted[t].since + granted[t].life
      /\ clock - granted[t].since =< Travel
  BY TokenAssumption DEF Store, TokenTypeOK, KnowsItsClient, GrantIsRecent
<1>2. cached' = [cached EXCEPT ![client[t]] = entry]
  BY DEF Store, KeyOf
<1>3. entry \in [token : Token, expires_at : Int]
  BY <1>1, TokenAssumption DEF ExpiresAt
<1>4. entry.token.dies - entry.expires_at >= Margin - Travel
  BY <1>1, TokenAssumption DEF ExpiresAt
<1>5. NoGrant \in [token : Token, life : Nat, since : Nat]
  BY DEF NoGrant, Token
<1>6. TokenTypeOK'
  <2>1. cached' \in [Client -> [token : Token, expires_at : Int]]
    BY <1>2, <1>3 DEF TokenTypeOK
  <2>2. bearer' \in [Thread -> [token : Token, hit : BOOLEAN]]
    <3>1. [token |-> granted[t].token, hit |-> FALSE] \in [token : Token, hit : BOOLEAN]
      BY <1>1
    <3> QED
      BY <3>1 DEF Store, TokenTypeOK
  <2>3. granted' \in [Thread -> [token : Token, life : Nat, since : Nat]]
    BY <1>5 DEF Store, TokenTypeOK
  <2>4. /\ clock' = clock /\ client' = client
        /\ tokenStep' = [tokenStep EXCEPT ![t] = "sending"]
    BY DEF Store, TokenGoto
  <2> QED
    BY <2>1, <2>2, <2>3, <2>4 DEF TokenTypeOK
<1>7. KnowsItsClient' /\ GrantIsRecent'
  BY <1>1 DEF Store, TokenGoto, TokenTypeOK, KnowsItsClient, GrantIsRecent
<1>8. EntryIsGood'
  BY <1>1, <1>2, <1>4 DEF TokenTypeOK, EntryIsGood
<1>9. BearerIsGood'
  BY <1>1 DEF Store, TokenGoto, TokenTypeOK, BearerIsGood
<1> QED
  BY <1>6, <1>7, <1>8, <1>9

LEMMA EndHolds ==
    ASSUME TokenInv, NEW t \in Thread, FetchFails(t) \/ Send(t)
    PROVE  TokenInv'
<1> USE DEF TokenInv
<1>1. NoGrant \in [token : Token, life : Nat, since : Nat] /\ NoBearer \in [token : Token, hit : BOOLEAN]
  BY DEF NoGrant, NoBearer, Token
<1>2. /\ UNCHANGED <<clock, cached>>
      /\ tokenStep' = [tokenStep EXCEPT ![t] = "idle"]
      /\ client' = [client EXCEPT ![t] = NoClient]
      /\ granted' = [granted EXCEPT ![t] = NoGrant] \/ granted' = granted
      /\ bearer' = [bearer EXCEPT ![t] = NoBearer] \/ bearer' = bearer
  BY DEF FetchFails, Send, TokenGoto
<1>3. TokenTypeOK'
  <2>1. granted' \in [Thread -> [token : Token, life : Nat, since : Nat]]
    BY <1>1, <1>2 DEF TokenTypeOK
  <2>2. bearer' \in [Thread -> [token : Token, hit : BOOLEAN]]
    BY <1>1, <1>2 DEF TokenTypeOK
  <2>3. /\ tokenStep' \in [Thread -> {"idle", "fetching", "granted", "sending"}]
        /\ client' \in [Thread -> Client \union {NoClient}]
    BY <1>2 DEF TokenTypeOK
  <2> QED
    BY <1>2, <2>1, <2>2, <2>3 DEF TokenTypeOK
<1>4. KnowsItsClient' /\ EntryIsGood'
  BY <1>2 DEF TokenTypeOK, KnowsItsClient, EntryIsGood
<1>5. GrantIsRecent'
  <2> SUFFICES ASSUME NEW u \in Thread, tokenStep'[u] = "granted"
               PROVE  /\ u # t /\ tokenStep[u] = "granted"
                      /\ granted'[u] = granted[u] /\ client'[u] = client[u] /\ clock' = clock
    BY DEF GrantIsRecent
  <2> QED
    BY <1>2 DEF TokenTypeOK
<1>6. BearerIsGood'
  BY DEF FetchFails, Send, TokenGoto, TokenTypeOK, BearerIsGood
<1> QED
  BY <1>3, <1>4, <1>5, <1>6

-----------------------------------------------------------------------------
(* Theorems about the cache *)

\* The token cache keeps its inductive invariant, type correctness included: what is on
\* its way is recent, and what may be served is good for the margin less the travel time.
THEOREM TokenSafe == TokenSpec => []TokenInv
<1>1. TokenInit => TokenInv
  BY TokenInitHolds
<1>2. TokenInv /\ [TokenNext]_tokenVars => TokenInv'
  <2> SUFFICES ASSUME TokenInv, [TokenNext]_tokenVars PROVE TokenInv'
    OBVIOUS
  <2>1. CASE TokenNext
    BY <2>1, TickHolds, LookUpHolds, GrantHolds, StoreHolds, EndHolds DEF TokenNext
  <2>2. CASE UNCHANGED tokenVars
    BY <2>2 DEF tokenVars, TokenInv, TokenTypeOK, KnowsItsClient, GrantIsRecent, EntryIsGood,
                BearerIsGood
  <2> QED
    BY <2>1, <2>2
<1> QED
  BY <1>1, <1>2, PTL DEF TokenSpec

\* A request's token is its own client's, and one from the cache outlives the call.
THEOREM BearerHolds == TokenSpec => []BearerIsGood
<1>1. TokenInv => BearerIsGood
  BY DEF TokenInv
<1> QED
  BY TokenSafe, <1>1, PTL

-----------------------------------------------------------------------------
(* Tracking: types *)

LEMMA PayloadType ==
    ASSUME MaxBatch \in Nat, NEW events \in Payload
    PROVE  events \in Seq(Event)
<1>1. PICK m \in 0 .. MaxBatch : events \in [1 .. m -> Event]
  BY DEF Payload, BoundedSeq, SeqOf
<1>2. m \in Nat
  BY MaxBatch \in Nat
<1> QED
  BY <1>1, <1>2, SeqDef

\* The head and the rest of what a delivery has left.
LEMMA LeftSplits ==
    ASSUME NEW s \in Seq(Event), s # <<>>
    PROVE  /\ Head(s) \in Event /\ Tail(s) \in Seq(Event)
           /\ Range(s) = {Head(s)} \union Range(Tail(s))
<1>1. /\ Head(s) \in Event /\ Tail(s) \in Seq(Event)
      /\ Len(s) \in Nat \ {0} /\ Len(Tail(s)) = Len(s) - 1
      /\ \A i \in 1 .. Len(Tail(s)) : Tail(s)[i] = s[i + 1]
      /\ Head(s) = s[1]
  BY HeadTailProperties, EmptySeq
<1>2. Range(s) = {s[i] : i \in 1 .. Len(s)}
  BY RangeEquality
<1>3. Range(Tail(s)) = {Tail(s)[i] : i \in 1 .. Len(Tail(s))}
  BY <1>1, RangeEquality
<1>4. ASSUME NEW i \in 1 .. Len(s)
      PROVE  s[i] \in {Head(s)} \union Range(Tail(s))
  <2>1. CASE i = 1
    BY <1>1, <2>1
  <2>2. CASE i # 1
    <3>1. i - 1 \in 1 .. Len(Tail(s)) /\ (i - 1) + 1 = i
      BY <1>1, <2>2
    <3>2. Tail(s)[i - 1] = s[i]
      BY <1>1, <3>1
    <3> QED
      BY <1>3, <3>1, <3>2
  <2> QED
    BY <2>1, <2>2
<1>5. 1 \in 1 .. Len(s)
  BY <1>1
<1>6. ASSUME NEW i \in 1 .. Len(Tail(s))
      PROVE  Tail(s)[i] \in Range(s)
  <2>1. i + 1 \in 1 .. Len(s)
    BY <1>1
  <2> QED
    BY <1>1, <1>2, <2>1
<1> QED
  BY <1>1, <1>2, <1>3, <1>4, <1>5, <1>6

-----------------------------------------------------------------------------
(* The invariant of tracking *)

\* Sets of events are finite, and so is what has been told.
LEMMA EventsFinite ==
    ASSUME NEW S \in SUBSET Event
    PROVE  IsFiniteSet(S) /\ Cardinality(S) \in Nat /\ Cardinality(S) =< Cardinality(Event)
BY TrackingAssumption, FS_Subset, FS_CardinalityType

LEMMA TrackingInitHolds == TrackingInit => TrackingInv
<1> SUFFICES ASSUME TrackingInit PROVE TrackingInv
  OBVIOUS
<1>1. TrackingTypeOK
  <2>1. <<>> \in Seq(Event) /\ 0 \in 0 .. MaxReceived /\ 0 \in 0 .. Cardinality(Event)
    BY EmptySeq, EventsFinite, TrackingAssumption
  <2> QED
    BY <2>1 DEF TrackingInit, TrackingTypeOK
<1>2. Committed = {} /\ Told = {} /\ Cardinality(Told) = 0 /\ Cardinality(stored) = 0
  BY FS_EmptySet DEF TrackingInit, Committed, Told
<1> QED
  BY <1>1, <1>2, FS_EmptySet
     DEF TrackingInit, TrackingInv, MineIsMine, StoringInv, AnsweredIsStored, Open

\* A step after which the same deliveries are committed or lost, with the same counts.
LEMMA ToldStays ==
    ASSUME AnsweredIsStored, IsFiniteSet(Told), Committed' = Committed, stored' = stored,
           \A w \in Webhook : hookStep'[w] = "lost" => hookStep[w] = "lost",
           \A w \in Webhook : hookStep[w] \in {"ok", "lost"} =>
               sent'[w] = sent[w] /\ count'[w] = count[w]
    PROVE  AnsweredIsStored' /\ IsFiniteSet(Told')
<1>1. \A w \in Committed : w \in Webhook /\ hookStep[w] = "ok"
  BY DEF Committed
<1>2. Told' = Told
  BY <1>1 DEF Told
<1>3. ASSUME NEW w \in Webhook, hookStep[w] \in {"ok", "lost"}
      PROVE  Unstored(w)' = Unstored(w)
  BY <1>3 DEF Unstored
<1> QED
  BY <1>1, <1>2, <1>3 DEF AnsweredIsStored

\* What a delivery carries are events, and what of it is not stored is finite.
LEMMA UnstoredFinite ==
    ASSUME TrackingTypeOK, NEW w \in Webhook
    PROVE  Unstored(w) \in SUBSET Event /\ IsFiniteSet(Unstored(w))
<1>1. sent[w] \in Seq(Event)
  BY DEF TrackingTypeOK
<1>2. Unstored(w) \in SUBSET Event
  BY <1>1, RangeEquality DEF Unstored
<1> QED
  BY <1>2, EventsFinite

LEMMA ReceiveHolds ==
    ASSUME TrackingInv, NEW w \in Webhook, Receive(w)
    PROVE  TrackingInv'
<1> USE DEF TrackingInv
<1>1. /\ hookStep[w] = "new" /\ mine[w] = {}
      /\ hookStep'[w] \in {"rejected", "storing"}
      /\ \A v \in Webhook \ {w} : /\ hookStep'[v] = hookStep[v]
                                  /\ sent'[v] = sent[v] /\ left'[v] = left[v]
  BY DEF Receive, HookGoto, MineIsMine, TrackingTypeOK, Open
<1>2. UNCHANGED <<stored, received, now, mine, count>>
  BY DEF Receive
<1>3. TrackingTypeOK'
  <2>1. \A events \in Payload : events \in Seq(Event)
    BY PayloadType, TrackingAssumption
  <2> QED
    BY <2>1 DEF Receive, HookGoto, TrackingTypeOK
<1>4. MineIsMine'
  BY <1>1, <1>2 DEF MineIsMine, Open
<1>5. ASSUME hookStep'[w] = "storing"
      PROVE  Range(sent'[w]) \subseteq Range(left'[w])
  BY <1>5 DEF Receive, HookGoto, TrackingTypeOK
<1>6. StoringInv'
  BY <1>1, <1>2, <1>5 DEF StoringInv, Open
<1>7. AnsweredIsStored' /\ IsFiniteSet(Told')
  <2>1. Committed' = Committed /\ w \notin Committed
    BY <1>1 DEF Committed
  <2> QED
    BY <1>1, <1>2, <2>1, ToldStays DEF Committed
<1> QED
  BY <1>3, <1>4, <1>6, <1>7

\* An event inserted is nobody else's and not stored; a duplicate is skipped.
LEMMA StoreEventHolds ==
    ASSUME TrackingInv, NEW w \in Webhook, StoreEvent(w)
    PROVE  TrackingInv'
<1> USE DEF TrackingInv
<1> DEFINE e == Head(left[w])
<1>1. /\ hookStep[w] = "storing" /\ left[w] \in Seq(Event) /\ left[w] # <<>>
      /\ UNCHANGED <<stored, now, hookStep, sent>>
      /\ left' = [left EXCEPT ![w] = Tail(left[w])]
  BY DEF StoreEvent, Remaining, TrackingTypeOK
<1>2. e \in Event /\ Tail(left[w]) \in Seq(Event)
      /\ Range(left[w]) = {e} \union Range(Tail(left[w]))
  BY <1>1, LeftSplits
<1>3. \A v \in Webhook \ {w} : e \notin mine[v]
  BY DEF StoreEvent, Waits, MineIsMine
<1>4. \/ e \in stored \union mine[w] /\ UNCHANGED <<mine, received, count>>
      \/ /\ e \notin stored \union mine[w]
         /\ mine' = [mine EXCEPT ![w] = @ \union {e}]
         /\ received' = [received EXCEPT ![e] = now]
         /\ count' = [count EXCEPT ![w] = @ + 1]
  BY DEF StoreEvent, Duplicate
<1>5. /\ mine'[w] = mine[w] \union ({e} \ stored)
      /\ \A v \in Webhook \ {w} : mine'[v] = mine[v] /\ count'[v] = count[v]
      /\ mine' \in [Webhook -> SUBSET Event]
  <2>1. mine \in [Webhook -> SUBSET Event] /\ count \in [Webhook -> 0 .. Cardinality(Event)]
    BY DEF TrackingTypeOK
  <2>2. CASE e \in stored \union mine[w] /\ UNCHANGED <<mine, received, count>>
    BY <2>1, <2>2
  <2>3. CASE /\ e \notin stored \union mine[w]
             /\ mine' = [mine EXCEPT ![w] = @ \union {e}]
             /\ count' = [count EXCEPT ![w] = @ + 1]
    <3>1. mine'[w] = mine[w] \union {e} /\ {e} \ stored = {e}
      BY <2>1, <2>3
    <3> QED
      BY <1>2, <2>1, <2>3, <3>1
  <2> QED
    BY <1>4, <2>2, <2>3
<1>6. count'[w] = Cardinality(mine'[w])
  <2>1. count[w] = Cardinality(mine[w]) /\ IsFiniteSet(mine[w]) /\ count[w] \in Nat
    BY <1>1, EventsFinite DEF StoringInv, TrackingTypeOK, Open
  <2>2. CASE UNCHANGED <<mine, received, count>>
    BY <2>1, <2>2
  <2>3. CASE /\ e \notin stored \union mine[w]
             /\ mine' = [mine EXCEPT ![w] = @ \union {e}]
             /\ count' = [count EXCEPT ![w] = @ + 1]
    <3>1. mine'[w] = mine[w] \union {e} /\ count'[w] = count[w] + 1
      BY <2>3 DEF TrackingTypeOK
    <3> QED
      BY <2>1, <2>3, <3>1, FS_AddElement
  <2> QED
    BY <1>4, <2>2, <2>3
<1>7. TrackingTypeOK'
  <2>1. received' \in [Event -> 0 .. MaxReceived]
    BY <1>2, <1>4 DEF TrackingTypeOK
  <2>2. count' \in [Webhook -> 0 .. Cardinality(Event)]
    <3>1. count'[w] \in 0 .. Cardinality(Event)
      BY <1>5, <1>6, EventsFinite
    <3>2. DOMAIN count' = Webhook /\ count' = [v \in Webhook |-> count'[v]]
      BY <1>4 DEF TrackingTypeOK
    <3> QED
      BY <1>5, <3>1, <3>2 DEF TrackingTypeOK
  <2> QED
    BY <1>1, <1>2, <1>5, <2>1, <2>2 DEF TrackingTypeOK
<1>8. MineIsMine'
  BY <1>1, <1>3, <1>5 DEF MineIsMine, Open
<1>9. StoringInv'
  <2>1. left'[w] = Tail(left[w]) /\ \A v \in Webhook \ {w} : left'[v] = left[v]
    BY <1>1 DEF TrackingTypeOK
  <2>2. Range(sent'[w]) \subseteq stored' \union mine'[w] \union Range(left'[w])
    BY <1>1, <1>2, <1>5, <2>1 DEF StoringInv, Open
  <2> QED
    BY <1>1, <1>5, <1>6, <2>1, <2>2 DEF StoringInv, Open
<1>10. AnsweredIsStored' /\ IsFiniteSet(Told')
  <2>1. Committed' = Committed /\ w \notin Committed
    BY <1>1 DEF Committed
  <2> QED
    BY <1>1, <1>5, <2>1, ToldStays DEF Committed
<1> QED
  BY <1>7, <1>8, <1>9, <1>10

LEMMA TellsMore ==
    ASSUME NEW S, NEW T, IsFiniteSet(S), IsFiniteSet(T), S \intersect T = {}
    PROVE  /\ IsFiniteSet(S \union T)
           /\ Cardinality(S \union T) = Cardinality(S) + Cardinality(T)
<1>1. Cardinality(S) \in Nat /\ Cardinality(T) \in Nat
  BY FS_CardinalityType
<1>2. Cardinality(S \union T) = Cardinality(S) + Cardinality(T) - 0
  BY FS_Union, FS_EmptySet
<1>3. IsFiniteSet(S \union T)
  BY FS_Union
<1> QED
  BY <1>1, <1>2, <1>3

LEMMA AnswerEventsHolds ==
    ASSUME TrackingInv, NEW w \in Webhook, AnswerEvents(w)
    PROVE  TrackingInv'
<1> USE DEF TrackingInv
<1>1. /\ hookStep[w] = "storing" /\ left[w] = <<>> /\ hookStep'[w] = "told"
      /\ \A v \in Webhook \ {w} : hookStep'[v] = hookStep[v]
      /\ UNCHANGED <<stored, received, now, sent, left, mine, count>>
  BY DEF AnswerEvents, HookGoto, TrackingTypeOK
<1>2. TrackingTypeOK'
  BY DEF AnswerEvents, HookGoto, TrackingTypeOK
<1>3. MineIsMine' /\ StoringInv'
  BY <1>1 DEF MineIsMine, StoringInv, Open
<1>4. AnsweredIsStored' /\ IsFiniteSet(Told')
  <2>1. Committed' = Committed
    BY <1>1 DEF Committed
  <2> QED
    BY <1>1, <2>1, ToldStays
<1> QED
  BY <1>2, <1>3, <1>4

\* A delivery that commits adds what it counted to what was told, and as many events to
\* what is stored.
LEMMA CommitEventsHolds ==
    ASSUME TrackingInv, NEW w \in Webhook, CommitEvents(w)
    PROVE  TrackingInv'
<1> USE DEF TrackingInv
<1> DEFINE new == {w} \X (1 .. count[w])
<1>1. /\ hookStep[w] = "told" /\ left[w] = <<>>
      /\ stored' = stored \union mine[w]
      /\ mine'[w] = {} /\ \A v \in Webhook \ {w} : mine'[v] = mine[v]
      /\ hookStep'[w] = "ok" /\ \A v \in Webhook \ {w} : hookStep'[v] = hookStep[v]
      /\ UNCHANGED <<received, now, sent, left, count>>
  BY DEF CommitEvents, HookGoto, TrackingTypeOK, StoringInv
<1>2. TrackingTypeOK'
  BY DEF CommitEvents, HookGoto, TrackingTypeOK
<1>3. MineIsMine'
  BY <1>1 DEF MineIsMine, Open
<1>4. StoringInv'
  BY <1>1 DEF StoringInv, Open
<1>5. Committed' = Committed \union {w} /\ w \notin Committed
  BY <1>1 DEF Committed
<1>6. Unstored(w)' = {}
  <2>1. Range(<<>>) = {}
    BY DEF Range
  <2> QED
    BY <1>1, <2>1 DEF StoringInv, Open, Unstored
<1>7. Told' = Told \union new /\ Told \intersect new = {}
  BY <1>1, <1>5 DEF Told
<1>8. IsFiniteSet(new) /\ Cardinality(new) = Cardinality(mine[w])
  <2>1. count[w] = Cardinality(mine[w]) /\ count[w] \in Nat
    BY <1>1, EventsFinite DEF StoringInv, TrackingTypeOK, Open
  <2>2. IsFiniteSet(1 .. count[w]) /\ Cardinality(1 .. count[w]) = count[w]
    <3>1. \A n \in Nat : IsFiniteSet(1 .. n) /\ Cardinality(1 .. n) = n
      <4>1. TAKE n \in Nat
      <4>2. 1 \in Int /\ n \in Int
        OBVIOUS
      <4>3. IsFiniteSet(1 .. n) /\ Cardinality(1 .. n) = IF 1 > n THEN 0 ELSE n - 1 + 1
        BY <4>2, FS_Interval
      <4> QED
        BY <4>3
    <3> QED
      BY <2>1, <3>1
  <2>3. IsFiniteSet({w}) /\ Cardinality({w}) = 1
    BY FS_Singleton
  <2> QED
    BY <2>1, <2>2, <2>3, FS_Product
<1>9. IsFiniteSet(Told') /\ Cardinality(Told') = Cardinality(Told) + Cardinality(mine[w])
  <2>1. Cardinality(Told) \in Nat /\ Cardinality(new) \in Nat
    BY <1>8, FS_CardinalityType
  <2> QED
    BY <1>7, <1>8, <2>1, TellsMore
<1>10. Cardinality(stored') = Cardinality(stored) + Cardinality(mine[w])
  <2>1. stored \in SUBSET Event /\ mine[w] \in SUBSET Event
    BY DEF TrackingTypeOK
  <2>2. stored \intersect mine[w] = {}
    BY DEF MineIsMine
  <2> QED
    BY <1>1, <2>1, <2>2, EventsFinite, TellsMore
<1>11. \A v \in Committed : Unstored(v)' = {}
  <2>1. \A v \in Committed : Unstored(v) = {}
    BY DEF AnsweredIsStored
  <2> QED
    BY <1>1, <2>1 DEF Unstored
<1>12. ASSUME NEW v \in Webhook, hookStep'[v] = "lost"
       PROVE  Cardinality(Unstored(v)') =< count'[v]
  <2>1. Unstored(v)' \subseteq Unstored(v) /\ IsFiniteSet(Unstored(v))
    BY <1>1, UnstoredFinite DEF Unstored
  <2>2. /\ Cardinality(Unstored(v)') =< Cardinality(Unstored(v))
        /\ Cardinality(Unstored(v)') \in Nat /\ Cardinality(Unstored(v)) \in Nat
    BY <2>1, FS_Subset, FS_CardinalityType
  <2>3. Cardinality(Unstored(v)) =< count[v] /\ count[v] \in Nat /\ count'[v] = count[v]
    <3>1. hookStep[v] = "lost"
      BY <1>1, <1>12
    <3>2. count[v] \in 0 .. Cardinality(Event)
      BY DEF TrackingTypeOK
    <3> QED
      BY <1>1, <3>1, <3>2 DEF AnsweredIsStored
  <2> QED
    BY <2>2, <2>3
<1>13. AnsweredIsStored'
  <2>1. \A v \in Committed' : Unstored(v)' = {}
    BY <1>5, <1>6, <1>11
  <2>2. Cardinality(Told') = Cardinality(stored')
    BY <1>9, <1>10 DEF AnsweredIsStored
  <2> QED
    BY <1>12, <2>1, <2>2 DEF AnsweredIsStored
<1> QED
  BY <1>2, <1>3, <1>4, <1>9, <1>13

\* What is left of a transaction without a commit.
LEMMA RollBackTypes ==
    ASSUME TrackingTypeOK, NEW w \in Webhook, RollBack(w)
    PROVE  /\ mine' \in [Webhook -> SUBSET Event] /\ received' \in [Event -> 0 .. MaxReceived]
           /\ mine'[w] = {} /\ \A v \in Webhook \ {w} : mine'[v] = mine[v]
           /\ UNCHANGED <<stored, now>>
<1>1. 0 \in 0 .. MaxReceived
  BY TrackingAssumption
<1> QED
  BY <1>1 DEF RollBack, TrackingTypeOK

\* One that ends before its answer: as if it had never come.
LEMMA ForgottenHolds ==
    ASSUME TrackingInv, NEW w \in Webhook, hookStep[w] = "storing", RollBack(w), Forget(w)
    PROVE  TrackingInv'
<1> USE DEF TrackingInv
<1>1. /\ hookStep'[w] = "failed"
      /\ \A v \in Webhook \ {w} : /\ hookStep'[v] = hookStep[v]
                                  /\ sent'[v] = sent[v] /\ left'[v] = left[v]
                                  /\ count'[v] = count[v]
  BY DEF Forget, HookGoto, TrackingTypeOK
<1>2. TrackingTypeOK'
  <2>1. <<>> \in Seq(Event) /\ 0 \in 0 .. Cardinality(Event)
    BY EmptySeq, EventsFinite, TrackingAssumption
  <2> QED
    BY <2>1, RollBackTypes DEF Forget, HookGoto, TrackingTypeOK
<1>3. MineIsMine' /\ StoringInv'
  BY <1>1, RollBackTypes DEF MineIsMine, StoringInv, Open
<1>4. AnsweredIsStored' /\ IsFiniteSet(Told')
  <2>1. Committed' = Committed
    BY <1>1 DEF Committed
  <2> QED
    BY <1>1, <2>1, RollBackTypes, ToldStays
<1> QED
  BY <1>2, <1>3, <1>4

\* One that ends after its answer: what is missing is what it had inserted and counted.
LEMMA BreakAfterAnswerHolds ==
    ASSUME TrackingInv, NEW w \in Webhook, BreakAfterAnswer(w)
    PROVE  TrackingInv'
<1> USE DEF TrackingInv
<1>1. /\ hookStep[w] = "told" /\ hookStep'[w] = "lost"
      /\ \A v \in Webhook \ {w} : hookStep'[v] = hookStep[v]
      /\ UNCHANGED <<sent, left, count>>
  BY DEF BreakAfterAnswer, HookGoto, TrackingTypeOK
<1>2. /\ mine' \in [Webhook -> SUBSET Event] /\ received' \in [Event -> 0 .. MaxReceived]
      /\ mine'[w] = {} /\ \A v \in Webhook \ {w} : mine'[v] = mine[v]
      /\ UNCHANGED <<stored, now>>
  BY RollBackTypes DEF BreakAfterAnswer
<1>3. TrackingTypeOK'
  BY <1>2 DEF BreakAfterAnswer, HookGoto, TrackingTypeOK
<1>4. MineIsMine' /\ StoringInv'
  BY <1>1, <1>2 DEF MineIsMine, StoringInv, Open
<1>5. Cardinality(Unstored(w)) =< count[w]
  <2>1. Range(<<>>) = {}
    BY DEF Range
  <2>2. Unstored(w) \subseteq mine[w] /\ count[w] = Cardinality(mine[w])
    BY <1>1, <2>1 DEF StoringInv, Open, Unstored
  <2>3. IsFiniteSet(mine[w])
    BY EventsFinite DEF TrackingTypeOK
  <2> QED
    BY <2>2, <2>3, FS_Subset
<1>6. Committed' = Committed /\ Told' = Told
  BY <1>1 DEF Committed, Told
<1>7. \A v \in Webhook : Unstored(v)' = Unstored(v)
  BY <1>1, <1>2 DEF Unstored
<1>8. AnsweredIsStored'
  <2>1. ASSUME NEW v \in Webhook, hookStep'[v] = "lost"
        PROVE  Cardinality(Unstored(v)') =< count'[v]
    <3>1. CASE v = w
      BY <1>1, <1>5, <1>7, <3>1
    <3>2. CASE v # w
      BY <1>1, <1>7, <2>1, <3>2 DEF AnsweredIsStored
    <3> QED
      BY <3>1, <3>2
  <2>2. \A v \in Committed' : Unstored(v)' = {}
    BY <1>6, <1>7 DEF AnsweredIsStored, Committed
  <2> QED
    BY <1>2, <1>6, <2>1, <2>2 DEF AnsweredIsStored
<1> QED
  BY <1>3, <1>4, <1>6, <1>8

LEMMA EndVictimHolds ==
    ASSUME TrackingInv, NEW w \in Webhook, EndVictim(w)
    PROVE  TrackingInv'
<1>1. hookStep[w] = "storing"
  <2>1. PICK S \in SUBSET Webhook : w \in S /\ Ring(S)
    BY DEF EndVictim
  <2> QED
    BY <2>1 DEF Ring, Waits
<1> QED
  BY <1>1, ForgottenHolds DEF EndVictim

LEMMA BreakBeforeAnswerHolds ==
    ASSUME TrackingInv, NEW w \in Webhook, BreakBeforeAnswer(w)
    PROVE  TrackingInv'
BY ForgottenHolds DEF BreakBeforeAnswer

LEMMA ReceiptTickHolds ==
    ASSUME TrackingInv, ReceiptTick
    PROVE  TrackingInv'
<1> USE DEF TrackingInv
<1>1. TrackingTypeOK'
  BY TrackingAssumption DEF ReceiptTick, TrackingTypeOK
<1>2. AnsweredIsStored' /\ IsFiniteSet(Told')
  BY ToldStays DEF ReceiptTick, Committed
<1> QED
  BY <1>1, <1>2 DEF ReceiptTick, MineIsMine, StoringInv

\* The inductive invariant: uncommitted events are one open delivery's alone, what a
\* delivery has behind it is stored or its own, and it counts what it inserted.
THEOREM TrackingSafe == TrackingSpec => []TrackingInv
<1>1. TrackingInv /\ [TrackingNext]_trackingVars => TrackingInv'
  <2>1. ASSUME TrackingInv, UNCHANGED trackingVars
        PROVE  TrackingInv'
    BY <2>1 DEF trackingVars, TrackingInv, TrackingTypeOK, MineIsMine, StoringInv,
                AnsweredIsStored, Committed, Told, Unstored
  <2> QED
    BY <2>1, ReceiveHolds, StoreEventHolds, AnswerEventsHolds, CommitEventsHolds,
       BreakBeforeAnswerHolds, BreakAfterAnswerHolds, EndVictimHolds, ReceiptTickHolds
       DEF TrackingNext
<1> QED
  BY <1>1, TrackingInitHolds, PTL DEF TrackingSpec

\* Every event of a delivery that was answered and has committed is stored, and these
\* answers count each stored event once; one whose transaction broke after its answer
\* misses at most what it counted: whatever is redelivered, overlaps, breaks off or is
\* ended as a deadlock's victim.
THEOREM AnsweredIsStoredHolds == TrackingSpec => []AnsweredIsStored
<1>1. TrackingInv => AnsweredIsStored
  BY DEF TrackingInv
<1> QED
  BY <1>1, TrackingSafe, PTL
-----------------------------------------------------------------------------
(* The current status *)

\* A finite set of numbers has a greatest: the one with the fewest from it on.
LEMMA HasGreatest ==
    ASSUME NEW S \in SUBSET Int, IsFiniteSet(S), S # {}
    PROVE  Max(S) \in S /\ \A x \in S : Max(S) >= x
<1> DEFINE From(x) == {y \in S : y >= x}
           T == {From(x) : x \in S}
<1>1. IsWellFoundedOn(StrictSubsetOrdering(S), SUBSET S)
  BY FS_StrictSubsetOrderingWellFounded, FS_FiniteSubsetsOfFinite
<1>2. T \subseteq SUBSET S /\ T # {}
  OBVIOUS
<1>3. \E A \in T : \A B \in T : <<B, A>> \notin StrictSubsetOrdering(S)
  <2> HIDE DEF T
  <2> QED
    BY <1>1, <1>2, WFMin
<1>4. PICK x \in S : \A B \in T : <<B, From(x)>> \notin StrictSubsetOrdering(S)
  BY <1>3
<1>5. ASSUME NEW y \in S, y > x
      PROVE  FALSE
  <2>1. From(y) \subseteq From(x) /\ x \in From(x) /\ x \notin From(y)
    <3>1. \A z \in S : z >= y => z >= x
      BY <1>5
    <3>2. x >= x /\ ~(x >= y)
      BY <1>5
    <3> QED
      BY <3>1, <3>2
  <2>2. <<From(y), From(x)>> \in StrictSubsetOrdering(S)
    BY <2>1 DEF StrictSubsetOrdering
  <2> QED
    BY <1>4, <2>2
<1>6. \A y \in S : x >= y
  BY <1>5
<1> QED
  BY <1>6 DEF Max

\* The latest instant is one that a stored event has.
LEMMA LatestIsAttained ==
    ASSUME TrackingTypeOK, stored # {}
    PROVE  Tied # {}
<1> DEFINE f == [e \in stored |-> Instant(e)]
           I == {Instant(e) : e \in stored}
<1>1. I \in SUBSET Int /\ I # {}
  <2>1. ASSUME NEW e \in Event
        PROVE  Instant(e) \in Int
    <3>1. EventAt[e] \in Nat \union {Unsaid} /\ received[e] \in 0 .. MaxReceived
      BY TrackingAssumption DEF TrackingTypeOK
    <3> QED
      BY <3>1 DEF Instant, Unsaid
  <2> QED
    BY <2>1 DEF TrackingTypeOK
<1>2. f \in Surjection(stored, I)
  BY DEF Surjection
<1>3. IsFiniteSet(I)
  BY <1>2, EventsFinite, FS_Surjection DEF TrackingTypeOK
<1>4. Latest \in I
  BY <1>1, <1>3, HasGreatest DEF Latest
<1> QED
  BY <1>4 DEF Tied

\* Of any statuses, "delivered" is the most advanced exactly when it is among them.
LEMMA DeliveredWins ==
    ASSUME NEW S \in SUBSET DOMAIN Precedence, S # {}
    PROVE  LET top == CHOOSE s \in S : \A t \in S : Precedence[s] >= Precedence[t]
           IN  top = "delivered" <=> "delivered" \in S
<1> DEFINE P == {Precedence[s] : s \in S}
           top == CHOOSE s \in S : \A t \in S : Precedence[s] >= Precedence[t]
<1>1. \A s \in DOMAIN Precedence : /\ Precedence[s] \in 0 .. 5
                                   /\ Precedence[s] >= 5 => s = "delivered"
  BY DEF Precedence
<1>2. "delivered" \in DOMAIN Precedence /\ Precedence["delivered"] = 5
  BY DEF Precedence
<1>3. P \in SUBSET Int /\ P # {} /\ IsFiniteSet(P)
  <2>1. P \in SUBSET (0 .. 5)
    BY <1>1
  <2>2. IsFiniteSet(0 .. 5)
    BY FS_Interval, 0 \in Int, 5 \in Int
  <2> QED
    BY <2>1, <2>2, FS_Subset
<1>4. \E s \in S : \A t \in S : Precedence[s] >= Precedence[t]
  BY <1>3, HasGreatest
<1>5. top \in S /\ \A t \in S : Precedence[top] >= Precedence[t]
  BY <1>4
<1> QED
  BY <1>1, <1>2, <1>5

\* A stored event stays, and keeps its instant.
LEMMA StoredStays ==
    ASSUME TrackingInv, [TrackingNext]_trackingVars
    PROVE  stored \subseteq stored' /\ \A e \in stored : Instant(e)' = Instant(e)
<1> USE DEF TrackingInv
<1>1. ASSUME NEW w \in Webhook, StoreEvent(w)
      PROVE  stored' = stored /\ \A e \in stored : received'[e] = received[e]
  BY <1>1 DEF StoreEvent, Duplicate, TrackingTypeOK
<1>2. ASSUME NEW w \in Webhook, RollBack(w)
      PROVE  stored' = stored /\ \A e \in stored : received'[e] = received[e]
  BY <1>2 DEF RollBack, MineIsMine, TrackingTypeOK
<1>3. stored \subseteq stored' /\ \A e \in stored : received'[e] = received[e]
  BY <1>1, <1>2 DEF TrackingNext, ReceiptTick, Receive, AnswerEvents, CommitEvents,
                    BreakBeforeAnswer, BreakAfterAnswer, EndVictim, trackingVars
<1> QED
  BY <1>3 DEF Instant

\* No late, repeated or simultaneous event hides a delivery.
THEOREM DeliveryNotHiddenHolds == TrackingSpec => DeliveryNotHidden
<1> DEFINE NotHidden == stored # {} /\ CurrentStatus = "delivered" /\ Latest' = Latest
                           => CurrentStatus' = "delivered"
<1>1. ASSUME TrackingInv, TrackingInv', [TrackingNext]_trackingVars
      PROVE  [NotHidden]_trackingVars
  <2> SUFFICES ASSUME stored # {}, CurrentStatus = "delivered", Latest' = Latest
               PROVE  CurrentStatus' = "delivered"
    OBVIOUS
  <2>1. Tied \subseteq Tied'
    BY <1>1, StoredStays DEF Tied
  <2>2. Tied \in SUBSET DOMAIN Precedence /\ Tied' \in SUBSET DOMAIN Precedence
    BY <1>1, TrackingAssumption DEF TrackingInv, TrackingTypeOK, Tied
  <2>3. Tied # {}
    BY <1>1, LatestIsAttained DEF TrackingInv
  <2>4. "delivered" \in Tied
    BY <2>2, <2>3, DeliveredWins DEF CurrentStatus
  <2>5. Tied' # {} /\ "delivered" \in Tied'
    BY <2>1, <2>4
  <2> QED
    BY <2>2, <2>5, DeliveredWins DEF CurrentStatus
<1> QED
  BY <1>1, TrackingSafe, PTL DEF TrackingSpec, DeliveryNotHidden

-----------------------------------------------------------------------------
(* The four components side by side *)

\* Each step of the composition is one component's, and no step of the other three: what
\* is proved of a component alone holds of it here.
THEOREM SideBySide == InboundSpec => RangeSpec /\ TokenSpec /\ StagingSpec /\ TrackingSpec
<1>1. InboundInit => RangeInit /\ TokenInit /\ StagingInit /\ TrackingInit
  BY DEF InboundInit
<1>2. [InboundNext]_inboundVars => /\ [RangeNext]_rangeVars /\ [TokenNext]_tokenVars
                                  /\ [StagingNext]_stagingVars /\ [TrackingNext]_trackingVars
  BY DEF InboundNext, inboundVars
<1>3. QED
  BY <1>1, <1>2, PTL DEF InboundSpec, RangeSpec, TokenSpec, StagingSpec, TrackingSpec

\* The state of every component keeps its type and its counters their bounds.
THEOREM InboundTypeCorrect == InboundSpec => []InboundTypeOK
<1>1. RangeInv => RangeTypeOK
  BY DEF RangeInv
<1>2. TokenInv => TokenTypeOK
  BY DEF TokenInv
<1>3. TrackingInv => TrackingTypeOK
  BY DEF TrackingInv
<1>4. RangeTypeOK /\ TokenTypeOK /\ StagingTypeOK /\ TrackingTypeOK => InboundTypeOK
  BY DEF InboundTypeOK
<1>5. QED
  BY <1>1, <1>2, <1>3, <1>4, SideBySide, RangeSafe, TokenSafe, StagingTypes, TrackingSafe, PTL
=============================================================================
