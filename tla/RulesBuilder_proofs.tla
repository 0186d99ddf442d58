------------------------- MODULE RulesBuilder_proofs -------------------------
(* The selection and the optimism of the checks, for every copy the builder  *)
(* may hold and every order.                                                 *)
EXTENDS RulesBuilder, FiniteSetTheorems, SequenceTheorems, WellFoundedInduction, TLAPS

-----------------------------------------------------------------------------
(* Sums.  What the library's fold adds up is a count of points, which does   *)
(* not depend on how the terms are listed.                                   *)

\* The points under, and those over, a function on a set: what its sum counts.
Above(F, S) == {p \in S \X Int : 1 =< p[2] /\ p[2] =< F[p[1]]}
Below(F, S) == {p \in S \X Int : 1 =< p[2] /\ p[2] =< -F[p[1]]}
Points(F, S) == Cardinality(Above(F, S)) - Cardinality(Below(F, S))

LEMMA Column ==
    ASSUME NEW x, NEW k \in Int
    PROVE  /\ IsFiniteSet({x} \X (1 .. k))
           /\ Cardinality({x} \X (1 .. k)) = IF k > 0 THEN k ELSE 0
<1>1. IsFiniteSet({x}) /\ Cardinality({x}) = 1
  BY FS_Singleton
<1>2. IsFiniteSet(1 .. k) /\ Cardinality(1 .. k) = IF k > 0 THEN k ELSE 0
  BY FS_Interval
<1>3. /\ IsFiniteSet({x} \X (1 .. k))
      /\ Cardinality({x} \X (1 .. k)) = Cardinality({x}) * Cardinality(1 .. k)
  BY <1>1, <1>2, FS_Product
<1> QED
  BY <1>1, <1>2, <1>3

LEMMA Disjoint ==
    ASSUME NEW S, NEW T, IsFiniteSet(S), IsFiniteSet(T), S \intersect T = {}
    PROVE  /\ IsFiniteSet(S \union T)
           /\ Cardinality(S \union T) = Cardinality(S) + Cardinality(T)
<1>1. Cardinality(S) \in Nat /\ Cardinality(T) \in Nat
  BY FS_CardinalityType
<1>2. Cardinality(S \union T) = Cardinality(S) + Cardinality(T) - 0
  BY FS_Union, FS_EmptySet
<1>3. IsFiniteSet(S \union T)
  BY FS_Union
<1> QED
  BY <1>1, <1>2, <1>3

\* Taking an index from the set takes its value from the count.
LEMMA PointsStep ==
    ASSUME NEW F, NEW S, NEW x \in S, F[x] \in Int,
           IsFiniteSet(Above(F, S \ {x})), IsFiniteSet(Below(F, S \ {x}))
    PROVE  /\ IsFiniteSet(Above(F, S)) /\ IsFiniteSet(Below(F, S))
           /\ Points(F, S) = F[x] + Points(F, S \ {x})
<1>1. Above(F, S) = ({x} \X (1 .. F[x])) \union Above(F, S \ {x})
  BY DEF Above
<1>2. Below(F, S) = ({x} \X (1 .. -F[x])) \union Below(F, S \ {x})
  BY DEF Below
<1>3. /\ ({x} \X (1 .. F[x])) \intersect Above(F, S \ {x}) = {}
      /\ ({x} \X (1 .. -F[x])) \intersect Below(F, S \ {x}) = {}
  BY DEF Above, Below
<1>4. -F[x] \in Int
  OBVIOUS
<1>5. /\ IsFiniteSet({x} \X (1 .. F[x])) /\ IsFiniteSet({x} \X (1 .. -F[x]))
      /\ Cardinality({x} \X (1 .. F[x])) = IF F[x] > 0 THEN F[x] ELSE 0
      /\ Cardinality({x} \X (1 .. -F[x])) = IF -F[x] > 0 THEN -F[x] ELSE 0
  BY <1>4, Column
<1>6. /\ IsFiniteSet(Above(F, S))
      /\ Cardinality(Above(F, S)) = Cardinality({x} \X (1 .. F[x])) + Cardinality(Above(F, S \ {x}))
  <2> DEFINE col == {x} \X (1 .. F[x])
             rest == Above(F, S \ {x})
  <2>1. /\ IsFiniteSet(col) /\ IsFiniteSet(rest) /\ col \intersect rest = {}
        /\ Above(F, S) = col \union rest
    BY <1>1, <1>3, <1>5
  <2> HIDE DEF col, rest
  <2>2. /\ IsFiniteSet(col \union rest)
        /\ Cardinality(col \union rest) = Cardinality(col) + Cardinality(rest)
    BY <2>1, Disjoint
  <2> QED
    BY <2>1, <2>2 DEF col, rest
<1>7. /\ IsFiniteSet(Below(F, S))
      /\ Cardinality(Below(F, S)) = Cardinality({x} \X (1 .. -F[x])) + Cardinality(Below(F, S \ {x}))
  <2> DEFINE col == {x} \X (1 .. -F[x])
             rest == Below(F, S \ {x})
  <2>1. /\ IsFiniteSet(col) /\ IsFiniteSet(rest) /\ col \intersect rest = {}
        /\ Below(F, S) = col \union rest
    BY <1>2, <1>3, <1>5
  <2> HIDE DEF col, rest
  <2>2. /\ IsFiniteSet(col \union rest)
        /\ Cardinality(col \union rest) = Cardinality(col) + Cardinality(rest)
    BY <2>1, Disjoint
  <2> QED
    BY <2>1, <2>2 DEF col, rest
<1>8. Cardinality(Above(F, S \ {x})) \in Nat /\ Cardinality(Below(F, S \ {x})) \in Nat
  BY FS_CardinalityType
<1> QED
  BY <1>5, <1>6, <1>7, <1>8 DEF Points

LEMMA PointsEmpty ==
    ASSUME NEW F
    PROVE  IsFiniteSet(Above(F, {})) /\ IsFiniteSet(Below(F, {})) /\ Points(F, {}) = 0
<1>1. Above(F, {}) = {} /\ Below(F, {}) = {}
  BY DEF Above, Below
<1> QED
  BY <1>1, FS_EmptySet DEF Points

\* A finite set has finitely many points.
LEMMA PointsFinite ==
    ASSUME NEW F, NEW S, IsFiniteSet(S), \A i \in S : F[i] \in Int
    PROVE  IsFiniteSet(Above(F, S)) /\ IsFiniteSet(Below(F, S)) /\ Points(F, S) \in Int
<1> DEFINE Fin(s) == IsFiniteSet(Above(F, s)) /\ IsFiniteSet(Below(F, s))
           Bad == {s \in FiniteSubsetsOf(S) : ~Fin(s)}
<1>1. SUFFICES Fin(S)
  BY FS_CardinalityType DEF Points
<1>2. SUFFICES ASSUME Bad # {} PROVE FALSE
  BY FS_Subset DEF FiniteSubsetsOf
<1>3. PICK s \in Bad : \A t \in Bad : <<t, s>> \notin StrictSubsetOrdering(S)
  BY <1>2, FS_StrictSubsetOrderingWellFounded, WFMin
<1>4. s # {}
  BY <1>3, PointsEmpty
<1>5. PICK x \in s : TRUE
  BY <1>4
<1>6. s \ {x} \in FiniteSubsetsOf(S) /\ <<s \ {x}, s>> \in StrictSubsetOrdering(S)
  BY <1>5, FS_Subset DEF FiniteSubsetsOf, StrictSubsetOrdering
<1>7. Fin(s \ {x})
  BY <1>3, <1>6
<1>8. F[x] \in Int
  BY <1>5 DEF FiniteSubsetsOf
<1> QED
  BY <1>3, <1>7, <1>8, PointsStep

\* What the library's fold adds up.
LEMMA SumIsPoints ==
    ASSUME NEW F, NEW S, IsFiniteSet(S), \A i \in S : F[i] \in Int
    PROVE  SumOver(F, S) = Points(F, S)
<1> DEFINE pick(s) == CHOOSE x \in s : TRUE
           step(it) == [s \in SUBSET S |-> IF s = {} THEN 0 ELSE F[pick(s)] + it[s \ {pick(s)}]]
           sum == CHOOSE it : it = step(it)
           points == [s \in SUBSET S |-> Points(F, s)]
<1>1. SumOver(F, S) = sum[S]
  BY DEF SumOver, MapThenSumSet, MapThenFoldSet
<1>2. \A s \in SUBSET S : s # {} =>
          /\ pick(s) \in s /\ s \ {pick(s)} \in SUBSET S
          /\ Points(F, s) = F[pick(s)] + Points(F, s \ {pick(s)})
  <2> SUFFICES ASSUME NEW s \in SUBSET S, s # {}, NEW x \in s
               PROVE  Points(F, s) = F[x] + Points(F, s \ {x})
    OBVIOUS
  <2>1. IsFiniteSet(s \ {x}) /\ \A i \in s : F[i] \in Int
    BY FS_Subset
  <2>2. IsFiniteSet(Above(F, s \ {x})) /\ IsFiniteSet(Below(F, s \ {x}))
    BY <2>1, PointsFinite
  <2> QED
    BY <2>1, <2>2, PointsStep
<1>3. points = step(points)
  BY <1>2, PointsEmpty
<1>4. sum = step(sum)
  BY <1>3
<1> HIDE DEF sum
<1> DEFINE Bad == {s \in FiniteSubsetsOf(S) : sum[s] # Points(F, s)}
<1>5. SUFFICES ASSUME Bad # {} PROVE FALSE
  BY <1>1, FS_Subset DEF FiniteSubsetsOf
<1>6. PICK s \in Bad : \A t \in Bad : <<t, s>> \notin StrictSubsetOrdering(S)
  BY <1>5, FS_StrictSubsetOrderingWellFounded, WFMin
<1>7. s \in SUBSET S /\ sum[s] # Points(F, s)
  BY <1>6 DEF FiniteSubsetsOf
<1>8. s # {}
  BY <1>4, <1>7, PointsEmpty
<1>9. s \ {pick(s)} \in FiniteSubsetsOf(S) /\ <<s \ {pick(s)}, s>> \in StrictSubsetOrdering(S)
  BY <1>2, <1>7, <1>8, FS_Subset DEF FiniteSubsetsOf, StrictSubsetOrdering
<1>10. sum[s \ {pick(s)}] = Points(F, s \ {pick(s)})
  BY <1>6, <1>9
<1>11. sum[s] = F[pick(s)] + sum[s \ {pick(s)}]
  BY <1>4, <1>7, <1>8
<1> QED
  BY <1>2, <1>7, <1>8, <1>10, <1>11

\* One set's elements, moved one to one onto another's with their values.
Moves(to, F, S, G, T) ==
    /\ to \in [S -> T]
    /\ \A i, j \in S : to[i] = to[j] => i = j
    /\ \A j \in T : \E i \in S : to[i] = j
    /\ \A i \in S : G[to[i]] = F[i]

\* A sum does not depend on how what it adds up is listed.
LEMMA SumRelisted ==
    ASSUME NEW F, NEW S, NEW G, NEW T, NEW to, Moves(to, F, S, G, T),
           IsFiniteSet(S), \A i \in S : F[i] \in Int
    PROVE  SumOver(G, T) = SumOver(F, S) /\ SumOver(F, S) \in Int
<1> USE DEF Moves
<1>1. IsFiniteSet(Above(F, S)) /\ IsFiniteSet(Below(F, S)) /\ Points(F, S) \in Int
  BY PointsFinite
<1>2. IsFiniteSet(T) /\ \A j \in T : G[j] \in Int
  <2>1. to \in Surjection(S, T)
    BY DEF Surjection
  <2> QED
    BY <2>1, FS_Surjection
<1>3. Cardinality(Above(G, T)) = Cardinality(Above(F, S))
  <2> DEFINE move == [p \in Above(F, S) |-> <<to[p[1]], p[2]>>]
  <2>1. move \in Bijection(Above(F, S), Above(G, T))
    <3>1. move \in [Above(F, S) -> Above(G, T)]
      BY DEF Above
    <3>2. \A p, q \in Above(F, S) : move[p] = move[q] => p = q
      BY DEF Above
    <3>3. \A q \in Above(G, T) : \E p \in Above(F, S) : move[p] = q
      <4> SUFFICES ASSUME NEW q \in Above(G, T) PROVE \E p \in Above(F, S) : move[p] = q
        OBVIOUS
      <4>1. PICK i \in S : to[i] = q[1]
        BY DEF Above
      <4>2. <<i, q[2]>> \in Above(F, S) /\ q = <<to[i], q[2]>>
        BY <4>1 DEF Above
      <4> QED
        BY <4>2
    <3> HIDE DEF move
    <3> QED
      BY <3>1, <3>2, <3>3 DEF Bijection, Injection, Surjection, IsInjective
  <2> QED
    BY <1>1, <2>1, FS_Bijection DEF ExistsBijection
<1>4. Cardinality(Below(G, T)) = Cardinality(Below(F, S))
  <2> DEFINE move == [p \in Below(F, S) |-> <<to[p[1]], p[2]>>]
  <2>1. move \in Bijection(Below(F, S), Below(G, T))
    <3>1. move \in [Below(F, S) -> Below(G, T)]
      BY DEF Below
    <3>2. \A p, q \in Below(F, S) : move[p] = move[q] => p = q
      BY DEF Below
    <3>3. \A q \in Below(G, T) : \E p \in Below(F, S) : move[p] = q
      <4> SUFFICES ASSUME NEW q \in Below(G, T) PROVE \E p \in Below(F, S) : move[p] = q
        OBVIOUS
      <4>1. PICK i \in S : to[i] = q[1]
        BY DEF Below
      <4>2. <<i, q[2]>> \in Below(F, S) /\ q = <<to[i], q[2]>>
        BY <4>1 DEF Below
      <4> QED
        BY <4>2
    <3> HIDE DEF move
    <3> QED
      BY <3>1, <3>2, <3>3 DEF Bijection, Injection, Surjection, IsInjective
  <2> QED
    BY <1>1, <2>1, FS_Bijection DEF ExistsBijection
<1>5. SumOver(G, T) = Points(G, T) /\ SumOver(F, S) = Points(F, S)
  BY <1>2, SumIsPoints
<1> QED
  BY <1>1, <1>3, <1>4, <1>5 DEF Points

-----------------------------------------------------------------------------
(* Sequences the other way round, and least elements *)

LEMMA ReverseOf ==
    ASSUME NEW T, NEW s \in Seq(T)
    PROVE  /\ Reverse(s) \in Seq(T) /\ Len(s) \in Nat /\ Len(Reverse(s)) = Len(s)
           /\ DOMAIN s = 1 .. Len(s) /\ DOMAIN Reverse(s) = 1 .. Len(s)
           /\ \A i \in 1 .. Len(s) : /\ Len(s) + 1 - i \in 1 .. Len(s)
                                    /\ s[i] \in T
                                    /\ Reverse(s)[i] = s[Len(s) + 1 - i]
                                    /\ Reverse(s)[Len(s) + 1 - i] = s[i]
           /\ ToSet(Reverse(s)) = ToSet(s)
<1>1. Len(s) \in Nat /\ DOMAIN s = 1 .. Len(s) /\ \A i \in 1 .. Len(s) : s[i] \in T
  OBVIOUS
<1>2. /\ DOMAIN Reverse(s) = 1 .. Len(s)
      /\ \A i \in 1 .. Len(s) : Reverse(s)[i] = s[Len(s) - i + 1]
  BY DEF Reverse
<1>3. \A i \in 1 .. Len(s) : /\ Len(s) + 1 - i \in 1 .. Len(s)
                             /\ Len(s) - i + 1 = Len(s) + 1 - i
                             /\ Len(s) - (Len(s) + 1 - i) + 1 = i
  BY <1>1
<1>4. \A i \in 1 .. Len(s) : /\ Reverse(s)[i] = s[Len(s) + 1 - i]
                             /\ Reverse(s)[Len(s) + 1 - i] = s[i]
  BY <1>2, <1>3
<1>5. Reverse(s) \in Seq(T) /\ Len(Reverse(s)) = Len(s)
  <2>1. Reverse(s) \in [1 .. Len(s) -> T]
    BY <1>1, <1>3 DEF Reverse
  <2> QED
    BY <1>1, <1>2, <2>1, SeqDef, LenProperties
<1>6. ToSet(Reverse(s)) = ToSet(s)
  BY <1>1, <1>2, <1>3, <1>4 DEF ToSet
<1> QED
  BY <1>1, <1>2, <1>3, <1>4, <1>5, <1>6

LEMMA IndicesFinite ==
    ASSUME NEW n \in Nat, NEW I \in SUBSET (1 .. n)
    PROVE  IsFiniteSet(I)
<1>1. IsFiniteSet(1 .. n)
  BY FS_Interval, 1 \in Int, n \in Int
<1> QED
  BY <1>1, FS_Subset

LEMMA ImageFinite ==
    ASSUME NEW I, IsFiniteSet(I), NEW g
    PROVE  IsFiniteSet({g[i] : i \in I})
<1> DEFINE h == [i \in I |-> g[i]]
<1>1. h \in Surjection(I, {g[i] : i \in I})
  BY DEF Surjection
<1> QED
  BY <1>1, FS_Surjection

\* A finite set of integers has a least element, and it is Min's.
LEMMA HasLeast ==
    ASSUME NEW S \in SUBSET Int, IsFiniteSet(S), S # {}
    PROVE  Min(S) \in S /\ \A x \in S : Min(S) =< x
<1> DEFINE UpTo(x) == {y \in S : y =< x}
           T == {UpTo(x) : x \in S}
<1>1. IsWellFoundedOn(StrictSubsetOrdering(S), SUBSET S)
  BY FS_StrictSubsetOrderingWellFounded, FS_FiniteSubsetsOfFinite
<1>2. T \subseteq SUBSET S /\ T # {}
  OBVIOUS
<1>3. \E A \in T : \A B \in T : <<B, A>> \notin StrictSubsetOrdering(S)
  <2> HIDE DEF T
  <2> QED
    BY <1>1, <1>2, WFMin
<1>4. PICK x \in S : \A B \in T : <<B, UpTo(x)>> \notin StrictSubsetOrdering(S)
  BY <1>3
<1>5. ASSUME NEW y \in S, y < x
      PROVE  FALSE
  <2>1. UpTo(y) \subseteq UpTo(x) /\ x \in UpTo(x) /\ x \notin UpTo(y)
    <3>1. \A z \in S : z =< y => z =< x
      BY <1>5
    <3>2. x =< x /\ ~(x =< y)
      BY <1>5
    <3> QED
      BY <3>1, <3>2
  <2>2. <<UpTo(y), UpTo(x)>> \in StrictSubsetOrdering(S)
    BY <2>1 DEF StrictSubsetOrdering
  <2> QED
    BY <1>4, <2>2
<1>6. \A y \in S : x =< y
  BY <1>5
<1> QED
  BY <1>6 DEF Min

-----------------------------------------------------------------------------
(* Costs and charges *)

\* A total does not depend on the order its bands are listed in.
LEMMA TotalRelisted ==
    ASSUME NEW bands \in Seq(CostBand),
           NEW counted \in SUBSET DOMAIN bands, NEW listed \in SUBSET DOMAIN Reverse(bands),
           \A i \in DOMAIN bands : i \in counted <=> Len(bands) + 1 - i \in listed
    PROVE  Total(Reverse(bands), listed) = Total(bands, counted) /\ Total(bands, counted) \in Int
<1> DEFINE n == Len(bands)
           F == [i \in counted |-> bands[i].charge]
           G == [j \in listed |-> Reverse(bands)[j].charge]
           to == [i \in counted |-> n + 1 - i]
<1>1. /\ n \in Nat /\ DOMAIN bands = 1 .. n /\ DOMAIN Reverse(bands) = 1 .. n
      /\ \A i \in 1 .. n : /\ n + 1 - i \in 1 .. n /\ bands[i] \in CostBand
                           /\ Reverse(bands)[n + 1 - i] = bands[i]
  BY ReverseOf
<1>2. IsFiniteSet(counted)
  BY <1>1, IndicesFinite
<1>3. \A i \in counted : F[i] \in Int
  BY <1>1 DEF CostBand
<1>4. to \in [counted -> listed] /\ \A i, j \in counted : to[i] = to[j] => i = j
  BY <1>1
<1>5. \A j \in listed : \E i \in counted : to[i] = j
  <2> SUFFICES ASSUME NEW j \in listed PROVE n + 1 - j \in counted /\ n + 1 - (n + 1 - j) = j
    OBVIOUS
  <2> QED
    BY <1>1
<1>6. \A i \in counted : G[to[i]] = F[i]
  BY <1>1, <1>4
<1>7. Moves(to, F, counted, G, listed)
  BY <1>4, <1>5, <1>6 DEF Moves
<1> HIDE DEF F, G, to
<1>8. SumOver(G, listed) = SumOver(F, counted) /\ SumOver(F, counted) \in Int
  BY <1>2, <1>3, <1>7, SumRelisted
<1> QED
  BY <1>8 DEF Total, F, G

\* The bands of a cost, listed the other way round, cost the same.
LEMMA CostRelisted ==
    ASSUME NEW bands \in Seq(CostBand), NEW f
    PROVE  /\ WeightCosts(Reverse(bands), f) = WeightCosts(bands, f)
           /\ ParcelCosts(Reverse(bands), f) = ParcelCosts(bands, f)
           /\ CalculateCost(Reverse(bands), f) = CalculateCost(bands, f)
<1> DEFINE fuel(b) == {i \in DOMAIN b : b[i].kind = "fuel"}
<1>1. /\ WeightCosts(Reverse(bands), f) = WeightCosts(bands, f)
      /\ ParcelCosts(Reverse(bands), f) = ParcelCosts(bands, f)
  BY ReverseOf DEF WeightCosts, ParcelCosts, BandsFor
<1>2. /\ DOMAIN bands = 1 .. Len(bands) /\ DOMAIN Reverse(bands) = 1 .. Len(bands)
      /\ \A i \in 1 .. Len(bands) : /\ Len(bands) + 1 - i \in 1 .. Len(bands)
                                    /\ Reverse(bands)[Len(bands) + 1 - i] = bands[i]
  BY ReverseOf
<1>3. Total(Reverse(bands), fuel(Reverse(bands))) = Total(bands, fuel(bands))
  <2> DEFINE counted == fuel(bands)
             listed == fuel(Reverse(bands))
  <2>1. /\ counted \in SUBSET DOMAIN bands /\ listed \in SUBSET DOMAIN Reverse(bands)
        /\ \A i \in DOMAIN bands : i \in counted <=> Len(bands) + 1 - i \in listed
    BY <1>2
  <2> HIDE DEF counted, listed
  <2>2. Total(Reverse(bands), listed) = Total(bands, counted)
    BY <2>1, TotalRelisted
  <2> QED
    BY <2>2 DEF counted, listed
<1>4. Total(Reverse(bands), OverDimension(Reverse(bands), f)) = Total(bands, OverDimension(bands, f))
  <2>1. \A i \in DOMAIN bands :
           i \in OverDimension(bands, f) <=> Len(bands) + 1 - i \in OverDimension(Reverse(bands), f)
    BY <1>2 DEF OverDimension
  <2>2. /\ OverDimension(bands, f) \in SUBSET DOMAIN bands
        /\ OverDimension(Reverse(bands), f) \in SUBSET DOMAIN Reverse(bands)
    BY DEF OverDimension
  <2> QED
    BY <2>1, <2>2, TotalRelisted
<1> QED
  BY <1>1, <1>3, <1>4 DEF CalculateCost

\* A cost is a number, also where no band matches.
LEMMA CostIsNumber ==
    ASSUME NEW bands \in Seq(CostBand), NEW f, f.weight \in Int, f.parcels \in Int
    PROVE  CalculateCost(bands, f) \in Int
<1>1. /\ Len(bands) \in Nat /\ DOMAIN bands = 1 .. Len(bands)
      /\ \A i \in DOMAIN bands : bands[i] \in CostBand
  BY ReverseOf
<1>2. ASSUME NEW kind, NEW n \in Int
      PROVE  LET prices == {BandCost(b, n) : b \in BandsFor(bands, kind, n)}
             IN  prices \subseteq Int /\ IsFiniteSet(prices)
  <2> DEFINE I == {i \in DOMAIN bands : bands[i].kind = kind /\ bands[i].least =< n
                                                            /\ n =< bands[i].most}
             price == [i \in DOMAIN bands |-> BandCost(bands[i], n)]
  <2>1. {BandCost(b, n) : b \in BandsFor(bands, kind, n)} = {price[i] : i \in I}
    BY DEF BandsFor, ToSet
  <2>2. \A i \in DOMAIN bands : price[i] \in Int
    BY <1>1, <1>2 DEF BandCost, CostBand
  <2>3. IsFiniteSet(I)
    BY <1>1, IndicesFinite
  <2> HIDE DEF price
  <2>4. IsFiniteSet({price[i] : i \in I})
    BY <2>3, ImageFinite
  <2> QED
    BY <2>1, <2>2, <2>4
<1>3. \A S \in SUBSET Int : IsFiniteSet(S) => Cheapest(S) \in Int
  <2> SUFFICES ASSUME NEW S \in SUBSET Int, IsFiniteSet(S) PROVE Cheapest(S) \in Int
    OBVIOUS
  <2>1. CASE S = {}
    BY <2>1 DEF Cheapest
  <2>2. CASE S # {}
    <3>1. Cheapest(S) = Min(S)
      BY <2>2 DEF Cheapest
    <3>2. Min(S) \in S
      BY <2>2, HasLeast
    <3> QED
      BY <3>1, <3>2
  <2> QED
    BY <2>1, <2>2
<1>4. Cheapest(WeightCosts(bands, f)) \in Int
  BY <1>2, <1>3 DEF WeightCosts
<1>5. Cheapest(ParcelCosts(bands, f)) \in Int
  <2>1. CASE f.parcels > 0
    BY <1>2, <1>3, <2>1 DEF ParcelCosts
  <2>2. CASE ~(f.parcels > 0)
    <3>1. ParcelCosts(bands, f) = {}
      BY <2>2 DEF ParcelCosts
    <3> QED
      BY <3>1 DEF Cheapest
  <2> QED
    BY <2>1, <2>2
<1>6. ASSUME NEW counted \in SUBSET DOMAIN bands
      PROVE  Total(bands, counted) \in Int
  <2> DEFINE F == [i \in counted |-> bands[i].charge]
  <2>1. IsFiniteSet(counted)
    BY <1>1, IndicesFinite
  <2>2. \A i \in counted : F[i] \in Int
    BY <1>1 DEF CostBand
  <2> HIDE DEF F
  <2>3. SumOver(F, counted) \in Int
    BY <2>1, <2>2, SumIsPoints, PointsFinite
  <2> QED
    BY <2>3 DEF Total, F
<1>7. Total(bands, {i \in DOMAIN bands : bands[i].kind = "fuel"}) \in Int
  BY <1>6
<1>8. Total(bands, OverDimension(bands, f)) \in Int
  BY <1>6 DEF OverDimension
<1> QED
  BY <1>4, <1>5, <1>7, <1>8 DEF CalculateCost

-----------------------------------------------------------------------------
(* The services listed the other way round *)

\* A service with its bands the other way round.
Turned(s) == [s EXCEPT !.cost_bands = Reverse(@), !.charge_bands = Reverse(@)]

\* Facts that can be compared with a service's weights and costs.
Measured(f) == f.weight \in Int /\ f.parcels \in Int

\* Two services that nothing tells apart.
Alike(s, u, f) ==
    /\ s.code = u.code /\ s.order = u.order
    /\ Passes(s, f) <=> Passes(u, f)
    /\ HasCost(s, f) <=> HasCost(u, f)
    /\ SelectionCost(s, f) = SelectionCost(u, f)
    /\ CalculateCharge(s, f) = CalculateCharge(u, f)

LEMMA TurnedIsAlike ==
    ASSUME NEW s \in ServiceDeclaration, NEW f
    PROVE  Alike(Turned(s), s, f)
<1>1. /\ DOMAIN Turned(s) = DOMAIN s
      /\ \A field \in DOMAIN s \ {"cost_bands", "charge_bands"} : Turned(s)[field] = s[field]
      /\ Turned(s).cost_bands = Reverse(s.cost_bands)
      /\ Turned(s).charge_bands = Reverse(s.charge_bands)
  BY DEF Turned, ServiceDeclaration
<1>2. /\ Turned(s).code = s.code /\ Turned(s).order = s.order
      /\ Turned(s).countries = s.countries
      /\ Turned(s).weight_min = s.weight_min /\ Turned(s).weight_max = s.weight_max
      /\ Turned(s).max_dimension = s.max_dimension /\ Turned(s).max_girth = s.max_girth
      /\ Turned(s).propositions = s.propositions /\ Turned(s).groups = s.groups
      /\ Turned(s).served = s.served /\ Turned(s).blocked = s.blocked
      /\ Turned(s).banded = s.banded /\ Turned(s).cost = s.cost
  BY DEF Turned, ServiceDeclaration
<1>3. s.cost_bands \in Seq(CostBand) /\ s.charge_bands \in Seq(ChargeBand)
  BY DEF ServiceDeclaration
<1>4. Passes(Turned(s), f) <=> Passes(s, f)
  BY <1>2 DEF Passes, CountryAllowed, WeightInBand, DimensionFits, GirthFits, Fulfils,
              InAcceptedGroup, AreaServed, AreaOpen
<1>5. HasCost(Turned(s), f) <=> HasCost(s, f)
  BY <1>1, <1>2, <1>3, CostRelisted DEF HasCost
<1>6. SelectionCost(Turned(s), f) = SelectionCost(s, f)
  BY <1>1, <1>2, <1>3, CostRelisted DEF SelectionCost
<1>7. \A scope, codes : ChargeBands(Turned(s), f, scope, codes) = ChargeBands(s, f, scope, codes)
  BY <1>1, <1>3, ReverseOf DEF ChargeBands
<1>8. CalculateCharge(Turned(s), f) = CalculateCharge(s, f)
  BY <1>7 DEF CalculateCharge
<1> QED
  BY <1>2, <1>4, <1>5, <1>6, <1>8 DEF Alike

\* The codes are distinct, so the result looked up for a service is its own.
LEMMA OwnResult ==
    ASSUME NEW copy \in Seq(ServiceDeclaration), NoClash(copy), NEW f
    PROVE  Costed(copy, f) = {i \in DOMAIN copy : Passes(copy[i], f) /\ HasCost(copy[i], f)}
<1>1. Len(copy) \in Nat /\ DOMAIN copy = 1 .. Len(copy)
  OBVIOUS
<1>2. ASSUME NEW i \in DOMAIN copy
      PROVE  ResultOf(copy, copy[i].code) = copy[i]
  <2> DEFINE same == {j \in DOMAIN copy : copy[j].code = copy[i].code}
  <2>1. same = {i}
    BY <1>2 DEF NoClash
  <2>2. i \in Int
    BY <1>1
  <2>3. Max({i}) = i
    BY <2>2 DEF Max
  <2> QED
    BY <2>1, <2>3 DEF ResultOf
<1> QED
  BY <1>2 DEF Costed, Eligible

\* The winner: no other costed service is cheaper, or as cheap with a lower tie-break.
Wins(copy, f, i) ==
    /\ i \in Costed(copy, f)
    /\ \A j \in Costed(copy, f) \ {i} :
          \/ SelectionCost(copy[i], f) < SelectionCost(copy[j], f)
          \/ SelectionCost(copy[i], f) = SelectionCost(copy[j], f) /\ copy[i].order < copy[j].order

LEMMA CopyTypes ==
    ASSUME NEW copy \in Seq(ServiceDeclaration), NEW f, Measured(f)
    PROVE  /\ Len(copy) \in Nat /\ DOMAIN copy = 1 .. Len(copy)
           /\ \A i \in DOMAIN copy : /\ copy[i] \in ServiceDeclaration
                                     /\ copy[i].order \in Int
                                     /\ SelectionCost(copy[i], f) \in Int
<1>1. Len(copy) \in Nat /\ DOMAIN copy = 1 .. Len(copy)
  OBVIOUS
<1>2. ASSUME NEW i \in DOMAIN copy
      PROVE  /\ copy[i] \in ServiceDeclaration /\ copy[i].order \in Int
             /\ SelectionCost(copy[i], f) \in Int
  <2>1. copy[i] \in ServiceDeclaration
    BY <1>1, <1>2
  <2>2. /\ copy[i].order \in Int /\ copy[i].cost \in Int
        /\ copy[i].cost_bands \in Seq(CostBand)
    BY <2>1 DEF ServiceDeclaration
  <2>3. CalculateCost(copy[i].cost_bands, f) \in Int
    BY <2>2, CostIsNumber DEF Measured
  <2> QED
    BY <2>1, <2>2, <2>3 DEF SelectionCost
<1> QED
  BY <1>1, <1>2

\* There is a winner whenever a service has a cost.
LEMMA SomeoneWins ==
    ASSUME NEW copy \in Seq(ServiceDeclaration), NoClash(copy), NEW f, Measured(f),
           Costed(copy, f) # {}
    PROVE  \E i \in Costed(copy, f) : Wins(copy, f, i)
<1> DEFINE costed == Costed(copy, f)
           cost == [i \in DOMAIN copy |-> SelectionCost(copy[i], f)]
           place == [i \in DOMAIN copy |-> copy[i].order]
<1>1. /\ costed \subseteq DOMAIN copy /\ Len(copy) \in Nat /\ DOMAIN copy = 1 .. Len(copy)
      /\ \A i \in DOMAIN copy : cost[i] \in Int /\ place[i] \in Int
  BY CopyTypes DEF Costed, Eligible
<1>2. IsFiniteSet(costed)
  BY <1>1, IndicesFinite
<1> DEFINE costs == {cost[i] : i \in costed}
           cheapest == {i \in costed : cost[i] = Min(costs)}
           places == {place[i] : i \in cheapest}
<1>3. Min(costs) \in costs /\ \A x \in costs : Min(costs) =< x
  <2>1. costs \in SUBSET Int /\ costs # {}
    BY <1>1
  <2>2. IsFiniteSet(costs)
    <3> HIDE DEF cost, costed
    <3> QED
      BY <1>2, ImageFinite
  <2> HIDE DEF costs
  <2> QED
    BY <2>1, <2>2, HasLeast
<1>4. cheapest # {} /\ cheapest \subseteq costed
  <2> HIDE DEF cost, costed
  <2> QED
    BY <1>3
<1>5. Min(places) \in places /\ \A x \in places : Min(places) =< x
  <2>1. places \in SUBSET Int /\ places # {}
    <3> HIDE DEF place, cheapest, costed
    <3> QED
      BY <1>1, <1>4
  <2>2. IsFiniteSet(cheapest)
    <3> HIDE DEF cheapest, costed
    <3> QED
      BY <1>2, <1>4, FS_Subset
  <2>3. IsFiniteSet(places)
    <3> HIDE DEF place, cheapest
    <3> QED
      BY <2>2, ImageFinite
  <2> HIDE DEF places
  <2> QED
    BY <2>1, <2>3, HasLeast
<1> HIDE DEF cost, place, costed
<1>6. PICK i \in cheapest : place[i] = Min(places)
  BY <1>5
<1>7. i \in costed /\ cost[i] = Min(costs)
  BY <1>6
<1>8. \A j \in costed \ {i} : cost[i] < cost[j] \/ (cost[i] = cost[j] /\ place[i] < place[j])
  <2> SUFFICES ASSUME NEW j \in costed \ {i}
               PROVE  cost[i] < cost[j] \/ (cost[i] = cost[j] /\ place[i] < place[j])
    OBVIOUS
  <2>1. cost[i] =< cost[j] /\ cost[i] \in Int /\ cost[j] \in Int
    BY <1>1, <1>3, <1>7
  <2>2. CASE cost[j] = cost[i]
    <3>1. j \in cheapest /\ place[j] \in places
      BY <1>7, <2>2
    <3>2. place[i] =< place[j] /\ place[i] \in Int /\ place[j] \in Int
      BY <1>1, <1>5, <1>6, <1>7, <3>1
    <3>3. place[i] # place[j]
      BY <1>1, <1>7 DEF NoClash, place
    <3> QED
      BY <2>2, <3>2, <3>3
  <2> QED
    BY <2>1, <2>2
<1> QED
  BY <1>1, <1>7, <1>8 DEF Wins, cost, place, costed

\* The selected service is the winner's, and there is one winner.
LEMMA WinnerSelected ==
    ASSUME NEW copy \in Seq(ServiceDeclaration), NoClash(copy), NEW f, Measured(f),
           NEW i, Wins(copy, f, i)
    PROVE  Selected(copy, f) = copy[i].code
<1> DEFINE costed == Costed(copy, f)
           Best(k) == k \in costed /\ \A j \in costed : Beats(copy, f, k, j)
<1>1. /\ costed \subseteq DOMAIN copy /\ Len(copy) \in Nat /\ DOMAIN copy = 1 .. Len(copy)
      /\ \A k \in DOMAIN copy : copy[k].order \in Int /\ SelectionCost(copy[k], f) \in Int
  BY CopyTypes DEF Costed, Eligible
<1>2. i \in costed
  BY DEF Wins
<1>3. Best(i)
  <2> SUFFICES ASSUME NEW j \in costed PROVE Beats(copy, f, i, j)
    BY <1>2
  <2>1. CASE j = i
    BY <1>1, <1>2, <2>1 DEF Beats
  <2>2. CASE j # i
    BY <1>1, <1>2, <2>2 DEF Beats, Wins
  <2> QED
    BY <2>1, <2>2
<1>4. ASSUME NEW k, Best(k) PROVE k = i
  <2> SUFFICES ASSUME k # i PROVE FALSE
    OBVIOUS
  <2>1. Beats(copy, f, k, i)
    BY <1>2, <1>4
  <2>2. k \in costed \ {i}
    BY <1>4
  <2> QED
    BY <1>1, <1>2, <2>1, <2>2 DEF Beats, Wins
<1>5. (CHOOSE k \in costed : \A j \in costed : Beats(copy, f, k, j)) = i
  BY <1>3, <1>4
<1> QED
  BY <1>2, <1>5 DEF Selected

\* A copy listed the other way round, bands and all.
TurnedCopy(copy) == Reverse([i \in DOMAIN copy |-> Turned(copy[i])])

LEMMA TurnedCopyIs ==
    ASSUME NEW copy \in Seq(ServiceDeclaration)
    PROVE  LET n == Len(copy)
               turned == TurnedCopy(copy)
           IN  /\ n \in Nat /\ DOMAIN copy = 1 .. n /\ DOMAIN turned = 1 .. n
               /\ turned \in Seq(ServiceDeclaration)
               /\ \A i \in 1 .. n : /\ copy[i] \in ServiceDeclaration
                                    /\ n + 1 - i \in 1 .. n /\ n + 1 - (n + 1 - i) = i
                                    /\ turned[n + 1 - i] = Turned(copy[i])
                                    /\ turned[i] = Turned(copy[n + 1 - i])
<1> DEFINE n == Len(copy)
           each == [i \in DOMAIN copy |-> Turned(copy[i])]
<1>1. n \in Nat /\ DOMAIN copy = 1 .. n /\ \A i \in 1 .. n : copy[i] \in ServiceDeclaration
  OBVIOUS
<1>2. \A s \in ServiceDeclaration : Turned(s) \in ServiceDeclaration
  <2> SUFFICES ASSUME NEW s \in ServiceDeclaration PROVE Turned(s) \in ServiceDeclaration
    OBVIOUS
  <2>1. s.cost_bands \in Seq(CostBand) /\ s.charge_bands \in Seq(ChargeBand)
    BY DEF ServiceDeclaration
  <2>2. Reverse(s.cost_bands) \in Seq(CostBand) /\ Reverse(s.charge_bands) \in Seq(ChargeBand)
    BY <2>1, ReverseOf
  <2> QED
    BY <2>2 DEF Turned, ServiceDeclaration
<1>3. each \in [1 .. n -> ServiceDeclaration]
  BY <1>1, <1>2
<1>4. each \in Seq(ServiceDeclaration) /\ Len(each) = n
  BY <1>1, <1>3, SeqDef, LenProperties
<1>5. \A i \in 1 .. n : each[i] = Turned(copy[i])
  BY <1>1
<1> HIDE DEF each
<1>6. /\ Reverse(each) \in Seq(ServiceDeclaration) /\ DOMAIN Reverse(each) = 1 .. n
      /\ \A i \in 1 .. n : /\ n + 1 - i \in 1 .. n
                           /\ Reverse(each)[i] = each[n + 1 - i]
                           /\ Reverse(each)[n + 1 - i] = each[i]
  BY <1>4, ReverseOf
<1>7. Reverse(each) = TurnedCopy(copy)
  BY DEF TurnedCopy, each
<1>8. \A i \in 1 .. n : n + 1 - (n + 1 - i) = i
  BY <1>1
<1> QED
  BY <1>1, <1>5, <1>6, <1>7, <1>8

LEMMA TurnedCopySame ==
    ASSUME NEW copy \in Seq(ServiceDeclaration), NoClash(copy), NEW f, Measured(f)
    PROVE  /\ Selected(TurnedCopy(copy), f) = Selected(copy, f)
           /\ Quote(TurnedCopy(copy), f) = Quote(copy, f)
<1> DEFINE n == Len(copy)
           turned == TurnedCopy(copy)
           at == [i \in 1 .. n |-> n + 1 - i]
<1>1. /\ n \in Nat /\ DOMAIN copy = 1 .. n /\ DOMAIN turned = 1 .. n
      /\ turned \in Seq(ServiceDeclaration)
      /\ \A i \in 1 .. n : /\ copy[i] \in ServiceDeclaration
                           /\ at[i] \in 1 .. n /\ at[at[i]] = i
                           /\ turned[at[i]] = Turned(copy[i])
                           /\ turned[i] = Turned(copy[at[i]])
  BY TurnedCopyIs
<1> HIDE DEF turned, at
<1>2. ASSUME NEW i \in 1 .. n
      PROVE  Alike(turned[at[i]], copy[i], f) /\ Alike(turned[i], copy[at[i]], f)
  <2>1. copy[i] \in ServiceDeclaration /\ copy[at[i]] \in ServiceDeclaration
    BY <1>1
  <2>2. Alike(Turned(copy[i]), copy[i], f) /\ Alike(Turned(copy[at[i]]), copy[at[i]], f)
    BY <2>1, TurnedIsAlike
  <2> QED
    BY <1>1, <2>2
<1>3. NoClash(turned)
  <2> SUFFICES ASSUME NEW i \in 1 .. n, NEW j \in 1 .. n, i # j
               PROVE  turned[i].code # turned[j].code /\ turned[i].order # turned[j].order
    BY <1>1 DEF NoClash
  <2>1. at[i] \in 1 .. n /\ at[j] \in 1 .. n /\ at[i] # at[j]
    BY <1>1
  <2>2. /\ copy[at[i]].code # copy[at[j]].code /\ copy[at[i]].order # copy[at[j]].order
    BY <1>1, <2>1 DEF NoClash
  <2> QED
    BY <1>2, <2>2 DEF Alike
<1>4. /\ Costed(copy, f) = {i \in 1 .. n : Passes(copy[i], f) /\ HasCost(copy[i], f)}
      /\ Costed(turned, f) = {i \in 1 .. n : Passes(turned[i], f) /\ HasCost(turned[i], f)}
  BY <1>1, <1>3, OwnResult
<1>5. \A i \in 1 .. n : i \in Costed(copy, f) <=> at[i] \in Costed(turned, f)
  <2> SUFFICES ASSUME NEW i \in 1 .. n
               PROVE  i \in Costed(copy, f) <=> at[i] \in Costed(turned, f)
    OBVIOUS
  <2>1. at[i] \in 1 .. n /\ Alike(turned[at[i]], copy[i], f)
    BY <1>1, <1>2
  <2> QED
    BY <1>4, <2>1 DEF Alike
<1>6. Selected(turned, f) = Selected(copy, f)
  <2>1. CASE Costed(copy, f) = {}
    <3>1. Costed(turned, f) = {}
      BY <1>1, <1>4, <1>5, <2>1
    <3> QED
      BY <2>1, <3>1 DEF Selected
  <2>2. CASE Costed(copy, f) # {}
    <3>1. PICK i \in Costed(copy, f) : Wins(copy, f, i)
      BY <2>2, SomeoneWins
    <3>2. i \in 1 .. n /\ at[i] \in Costed(turned, f)
      BY <1>4, <1>5
    <3>3. ASSUME NEW j \in Costed(turned, f) \ {at[i]}
          PROVE  \/ SelectionCost(turned[at[i]], f) < SelectionCost(turned[j], f)
                 \/ /\ SelectionCost(turned[at[i]], f) = SelectionCost(turned[j], f)
                    /\ turned[at[i]].order < turned[j].order
      <4>1. j \in 1 .. n /\ at[j] \in 1 .. n /\ at[at[j]] = j
        BY <1>1, <1>4, <3>3
      <4>2. at[j] \in Costed(copy, f) \ {i}
        BY <1>5, <3>3, <4>1
      <4>3. \/ SelectionCost(copy[i], f) < SelectionCost(copy[at[j]], f)
            \/ /\ SelectionCost(copy[i], f) = SelectionCost(copy[at[j]], f)
               /\ copy[i].order < copy[at[j]].order
        BY <3>1, <4>2 DEF Wins
      <4>4. Alike(turned[at[i]], copy[i], f) /\ Alike(turned[j], copy[at[j]], f)
        BY <1>2, <3>2, <4>1
      <4> QED
        BY <4>3, <4>4 DEF Alike
    <3>4. Wins(turned, f, at[i])
      BY <3>2, <3>3 DEF Wins
    <3>5. Selected(turned, f) = turned[at[i]].code /\ Selected(copy, f) = copy[i].code
      BY <1>1, <1>3, <3>1, <3>4, WinnerSelected
    <3>6. Alike(turned[at[i]], copy[i], f)
      BY <1>2, <3>2
    <3> QED
      BY <3>5, <3>6 DEF Alike
  <2> QED
    BY <2>1, <2>2
<1>7. Quote(turned, f) = Quote(copy, f)
  <2>1. \A i \in Costed(copy, f) : i \in 1 .. n /\ at[i] \in Costed(turned, f)
    BY <1>4, <1>5
  <2>2. \A j \in Costed(turned, f) : j \in 1 .. n /\ at[j] \in Costed(copy, f)
    BY <1>1, <1>4, <1>5
  <2>3. \A i \in 1 .. n : /\ turned[at[i]].code = copy[i].code
                         /\ CalculateCharge(turned[at[i]], f) = CalculateCharge(copy[i], f)
                         /\ turned[i].code = copy[at[i]].code
                         /\ CalculateCharge(turned[i], f) = CalculateCharge(copy[at[i]], f)
    BY <1>2 DEF Alike
  <2> QED
    BY <2>1, <2>2, <2>3 DEF Quote
<1> QED
  BY <1>6, <1>7 DEF turned

\* What the rules are asked to decide: an order's weights are numbers.
LEMMA FactsMeasured ==
    ASSUME NEW o, o.weights \in Seq(Int)
    PROVE  Measured(DispatchFacts(o))
<1> DEFINE rounded == [i \in DOMAIN o.weights |-> RoundWeight(o.weights[i])]
<1>1. Len(o.weights) \in Nat /\ DOMAIN o.weights = 1 .. Len(o.weights)
  OBVIOUS
<1>2. IsFiniteSet(DOMAIN rounded)
  BY <1>1, IndicesFinite
<1>3. \A i \in DOMAIN rounded : rounded[i] \in Int
  BY <1>1 DEF RoundWeight
<1> HIDE DEF rounded
<1>4. SumOf(rounded) \in Int
  BY <1>2, <1>3, SumIsPoints, PointsFinite DEF SumOf
<1> QED
  BY <1>1, <1>4 DEF Measured, DispatchFacts, rounded

\* A dry run rebuilds the facts the row was dispatched on.
LEMMA FactsRebuilt ==
    ASSUME NEW copy, NEW o, o.weights \in Seq(Int)
    PROVE  ShipmentFrom(Recorded(copy, o)) = DispatchFacts(o)
<1> DEFINE rounded == [i \in DOMAIN o.weights |-> RoundWeight(o.weights[i])]
<1>1. Len(o.weights) \in Nat /\ DOMAIN o.weights = 1 .. Len(o.weights)
  OBVIOUS
<1>2. \A i \in DOMAIN o.weights : rounded[i] \in Int
  BY <1>1 DEF RoundWeight
<1>3. rounded \in [1 .. Len(o.weights) -> Int]
  BY <1>1, <1>2
<1>4. Len(rounded) = Len(o.weights)
  BY <1>1, <1>3, SeqDef, LenProperties
<1>5. /\ Recorded(copy, o).weights = rounded
      /\ Recorded(copy, o).country = o.country /\ Recorded(copy, o).postcode = o.postcode
      /\ Recorded(copy, o).dimension = o.dimension /\ Recorded(copy, o).girth = o.girth
      /\ Recorded(copy, o).proposition = o.proposition /\ Recorded(copy, o).groups = o.groups
      /\ Recorded(copy, o).warehouse = o.warehouse
  BY DEF Recorded
<1> HIDE DEF rounded
<1> QED
  BY <1>4, <1>5 DEF ShipmentFrom, DispatchFacts, rounded

-----------------------------------------------------------------------------
(* The builder *)

LEMMA RemovedType ==
    ASSUME NEW T, NEW s \in Seq(T), NEW i \in DOMAIN s
    PROVE  RemoveAt(s, i) \in Seq(T)
<1>1. Len(s) \in Nat /\ i \in 1 .. Len(s)
  OBVIOUS
<1>2. SubSeq(s, 1, i - 1) \in Seq(T) /\ SubSeq(s, i + 1, Len(s)) \in Seq(T)
  BY <1>1, SubSeqProperties
<1> QED
  BY <1>2, ConcatProperties DEF RemoveAt

\* Whatever a client hands in and whatever the model asks for, the copy is a list of valid
\* declarations.
THEOREM RulesTypeCorrect == RulesSpec => []RulesTypeOK
<1>1. RulesInit => RulesTypeOK
  BY RulesAssumption DEF RulesInit, RulesTypeOK, Valid
<1>2. RulesTypeOK /\ [RulesNext]_rulesVars => RulesTypeOK'
  <2> SUFFICES ASSUME RulesTypeOK, [RulesNext]_rulesVars PROVE RulesTypeOK'
    OBVIOUS
  <2>1. CASE UNCHANGED rulesVars
    BY <2>1 DEF RulesTypeOK, rulesVars
  <2>2. ASSUME NEW candidate, Keep(candidate) PROVE RulesTypeOK'
    BY <2>2, RulesAssumption DEF RulesTypeOK, Keep, Valid, RuleEdit
  <2>3. ASSUME NEW code, RemoveService(code) PROVE RulesTypeOK'
    <3>1. ruleEdits' \in 0 .. MaxRuleEdits
      BY <2>3, RulesAssumption DEF RulesTypeOK, RemoveService, RuleEdit
    <3>2. PICK i \in DOMAIN services : services' = RemoveAt(services, i)
      BY <2>3 DEF RemoveService
    <3>3. services' \in Seq(ServiceDeclaration)
      BY <3>2, RemovedType DEF RulesTypeOK
    <3> QED
      BY <3>1, <3>3 DEF RulesTypeOK
  <2>4. ASSUME NEW s, AddService(s) PROVE RulesTypeOK'
    BY <2>2, <2>4 DEF AddService
  <2>5. ASSUME NEW code, NEW changes, UpdateService(code, changes) PROVE RulesTypeOK'
    BY <2>2, <2>5 DEF UpdateService
  <2> QED
    BY <2>1, <2>3, <2>4, <2>5 DEF RulesNext
<1> QED
  BY <1>1, <1>2, PTL DEF RulesSpec

LEMMA Repeatable ==
    ASSUME RulesTypeOK
    PROVE  SelectionIsRepeatable
<1> SUFFICES ASSUME IsRulebook(services), NEW o \in Orders
             PROVE  LET f == DispatchFacts(o) IN
                    /\ Selected(Relisted, f) = Selected(services, f)
                    /\ Quote(Relisted, f) = Quote(services, f)
                    /\ o.force = Nothing => DryRun(services, {Recorded(services, o)}) = {}
  BY DEF SelectionIsRepeatable
<1> DEFINE f == DispatchFacts(o)
<1>1. services \in Seq(ServiceDeclaration) /\ NoClash(services)
  BY DEF RulesTypeOK, IsRulebook
<1>2. Measured(f)
  BY FactsMeasured, RulesAssumption
<1>3. Relisted = TurnedCopy(services)
  BY DEF Relisted, TurnedCopy, Turned
<1>4. Selected(Relisted, f) = Selected(services, f) /\ Quote(Relisted, f) = Quote(services, f)
  <2> HIDE DEF f
  <2> QED
    BY <1>1, <1>2, <1>3, TurnedCopySame
<1>5. ASSUME o.force = Nothing PROVE DryRun(services, {Recorded(services, o)}) = {}
  <2> DEFINE row == Recorded(services, o)
  <2>1. row.service = Selected(services, f)
    BY <1>5 DEF Recorded, AllocateRequest
  <2>2. ShipmentFrom(row) = f
    BY FactsRebuilt, RulesAssumption
  <2> HIDE DEF row, f
  <2>3. DryRun(services, {row}) = {}
    BY <2>1, <2>2 DEF DryRun
  <2> QED
    BY <2>3 DEF row
<1> QED
  BY <1>4, <1>5

\* The same order under the same rules gets the same service at the same price, however
\* the services and bands are listed and however often it is replayed.
THEOREM SelectionHolds == RulesSpec => []SelectionIsRepeatable
<1>1. RulesTypeOK => SelectionIsRepeatable
  BY Repeatable
<1> QED
  BY <1>1, RulesTypeCorrect, PTL

-----------------------------------------------------------------------------
(* Checkouts *)

\* A checkout that knows less of an order sees the rest of it as it is.
LEMMA CheckoutFacts ==
    ASSUME NEW f, DOMAIN f = {"country", "weight", "parcels", "dimension", "girth", "proposition",
                              "groups", "warehouse", "areas"},
           NEW known \in SUBSET DOMAIN Hidden
    PROVE  LET g == AtCheckout(f, known)
           IN  /\ g.country = f.country /\ g.weight = f.weight /\ g.parcels = f.parcels
               /\ g.dimension \in {f.dimension, Unknown}
               /\ g.girth \in {f.girth, Unknown}
               /\ g.proposition \in {f.proposition, Unstated}
               /\ g.groups \in {f.groups, {}}
               /\ g.areas \in {f.areas, {}}
BY DEF AtCheckout, Hidden

\* No check turns a missing fact into a refusal (ADR 0007): a service that may take an
\* order is on offer to a checkout that knows any part of its facts.
THEOREM ChecksAreOptimistic ==
    ASSUME NEW o, NEW known \in SUBSET DOMAIN Hidden, NEW s, Passes(s, DispatchFacts(o))
    PROVE  Passes(s, AtCheckout(DispatchFacts(o), known))
<1> DEFINE f == DispatchFacts(o)
           g == AtCheckout(f, known)
<1>1. /\ g.country = f.country /\ g.weight = f.weight
      /\ g.dimension \in {f.dimension, Unknown} /\ g.girth \in {f.girth, Unknown}
      /\ g.proposition \in {f.proposition, Unstated}
      /\ g.groups \in {f.groups, {}} /\ g.areas \in {f.areas, {}}
  BY CheckoutFacts DEF DispatchFacts
<1> HIDE DEF f, g
<1>2. Passes(s, f)
  BY DEF f
<1>3. CountryAllowed(s, g) /\ WeightInBand(s, g)
  BY <1>1, <1>2 DEF Passes, CountryAllowed, WeightInBand
<1>4. DimensionFits(s, g) /\ GirthFits(s, g)
  BY <1>1, <1>2 DEF Passes, DimensionFits, GirthFits
<1>5. Fulfils(s, g) /\ InAcceptedGroup(s, g)
  BY <1>1, <1>2 DEF Passes, Fulfils, InAcceptedGroup
<1>6. AreaServed(s, g) /\ AreaOpen(s, g)
  BY <1>1, <1>2 DEF Passes, AreaServed, AreaOpen
<1>7. Passes(s, g)
  BY <1>3, <1>4, <1>5, <1>6 DEF Passes
<1> QED
  BY <1>7 DEF f, g

\* The service selected at dispatch has a cost and passes for what the checkout knew.
LEMMA Optimistic ==
    ASSUME RulesTypeOK
    PROVE  CheckoutIsOptimistic
<1> SUFFICES ASSUME IsRulebook(services), NEW o \in Orders, NEW known \in SUBSET DOMAIN Hidden,
                    Selected(services, DispatchFacts(o)) # Nothing
             PROVE  Selected(services, DispatchFacts(o)) \in
                      {q.code : q \in Quote(services, AtCheckout(DispatchFacts(o), known))}
  BY DEF CheckoutIsOptimistic
<1> DEFINE f == DispatchFacts(o)
           g == AtCheckout(f, known)
<1>1. services \in Seq(ServiceDeclaration) /\ NoClash(services)
  BY DEF RulesTypeOK, IsRulebook
<1>2. Measured(f)
  BY FactsMeasured, RulesAssumption
<1>3. g.weight = f.weight /\ g.parcels = f.parcels
  BY CheckoutFacts DEF DispatchFacts
<1>4. \A s : Passes(s, f) => Passes(s, g)
  BY ChecksAreOptimistic
<1> HIDE DEF f, g
<1>5. \A s : HasCost(s, f) => HasCost(s, g)
  BY <1>3 DEF HasCost, WeightCosts, ParcelCosts
<1>6. Costed(services, f) # {}
  BY DEF Selected, f
<1>7. PICK i \in Costed(services, f) : Wins(services, f, i)
  BY <1>1, <1>2, <1>6, SomeoneWins
<1>8. Selected(services, f) = services[i].code
  BY <1>1, <1>2, <1>7, WinnerSelected
<1>9. i \in Costed(services, g)
  BY <1>1, <1>4, <1>5, <1>7, OwnResult
<1>10. [code |-> services[i].code, charge |-> CalculateCharge(services[i], g)]
         \in Quote(services, g)
  BY <1>9 DEF Quote
<1>11. services[i].code \in {q.code : q \in Quote(services, g)}
  BY <1>10
<1> QED
  BY <1>8, <1>11 DEF f, g

\* What an order is dispatched with was on offer at its checkout, however little of it the
\* checkout knew.
THEOREM CheckoutHolds == RulesSpec => []CheckoutIsOptimistic
<1>1. RulesTypeOK => CheckoutIsOptimistic
  BY Optimistic
<1> QED
  BY <1>1, RulesTypeCorrect, PTL

=============================================================================
