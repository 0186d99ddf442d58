---------------------------- MODULE Engine_proofs ----------------------------
(* What documents, mappings and requests are made of, for any mapping at any  *)
(* nesting: what a render fails at, and what it reads.                        *)
EXTENDS Engine, SequenceTheorems, FiniteSetTheorems, WellFoundedInduction, TLAPS

-----------------------------------------------------------------------------
(* Counting up *)

\* A set of naturals has a least one.
LEMMA LeastNatural ==
    ASSUME NEW T, T \subseteq Nat, T # {}
    PROVE  \E m \in T : \A k \in T : m =< k
<1>1. PICK m \in T : \A k \in T : <<k, m>> \notin OpToRel(<, Nat)
  BY NatLessThanWellFounded, WFMin
<1>2. \A k \in T : ~(k < m)
  BY <1>1 DEF OpToRel
<1> QED
  BY <1>2

\* What holds of 0, and of every number up to n whose predecessor it holds of.
LEMMA Upwards ==
    ASSUME NEW n \in Nat, NEW Z, 0 \in Z, \A i \in 1 .. n : i - 1 \in Z => i \in Z
    PROVE  \A i \in 0 .. n : i \in Z
<1> DEFINE Bad == {i \in 0 .. n : i \notin Z}
<1> SUFFICES ASSUME Bad # {} PROVE FALSE
  OBVIOUS
<1>1. PICK m \in Bad : \A k \in Bad : m =< k
  <2>1. Bad \subseteq Nat /\ Bad # {}
    OBVIOUS
  <2> HIDE DEF Bad
  <2> QED
    BY <2>1, LeastNatural
<1>2. m \in 1 .. n /\ m - 1 \in 0 .. n /\ ~(m =< m - 1)
  OBVIOUS
<1> QED
  BY <1>1, <1>2

-----------------------------------------------------------------------------
(* Paths and documents *)

LEMMA OneLonger ==
    ASSUME NEW name \in Name, NEW q \in Seq(Name)
    PROVE  /\ <<name>> \o q \in Path
           /\ Head(<<name>> \o q) = name /\ Tail(<<name>> \o q) = q
<1>1. <<name>> \in Seq(Name) /\ Len(<<name>>) = 1 /\ <<name>>[1] = name
  OBVIOUS
<1> DEFINE p == <<name>> \o q
<1>2. /\ p \in Seq(Name) /\ Len(p) = 1 + Len(q) /\ Len(q) \in Nat
      /\ \A i \in 1 .. 1 + Len(q) : p[i] = IF i =< 1 THEN name ELSE q[i - 1]
  BY <1>1, ConcatProperties
<1> HIDE DEF p
<1>3. p # <<>> /\ p[1] = name
  BY <1>2
<1>4. Tail(p) \in Seq(Name) /\ Len(Tail(p)) = Len(q) /\ \A i \in 1 .. Len(q) : Tail(p)[i] = q[i]
  BY <1>2, <1>3, HeadTailProperties
<1>5. Tail(p) = q
  BY <1>4, SeqEqual
<1> QED
  BY <1>2, <1>3, <1>5 DEF p, Path

LEMMA HeadAndTail ==
    ASSUME NEW p \in Path
    PROVE  /\ Head(p) \in Name /\ Tail(p) \in Seq(Name) /\ p = <<Head(p)>> \o Tail(p)
           /\ Head(p) = p[1] /\ Len(p) \in Nat /\ Len(p) >= 1
           /\ Len(p) > 1 => Tail(p) # <<>>
BY DEF Path

LEMMA LongerPath ==
    ASSUME NEW p \in Path, NEW q \in Seq(Name)
    PROVE  p \o q \in Path /\ Head(p \o q) = Head(p) /\ Tail(p \o q) = Tail(p) \o q
BY DEF Path

LEMMA AfterPrefix ==
    ASSUME NEW p \in Seq(Name), NEW q \in Seq(Name)
    PROVE  IsPrefix(p, p \o q) /\ After(p \o q, p) = q
BY DEF IsPrefix, After

LEMMA PrefixSplits ==
    ASSUME NEW p \in Seq(Name), NEW q \in Seq(Name), IsPrefix(p, q)
    PROVE  After(q, p) \in Seq(Name) /\ q = p \o After(q, p)
BY DEF IsPrefix, After

\* A part holds what the document holds below the path.
LEMMA PartPaths ==
    ASSUME NEW doc, IsDocument(doc), NEW path \in Seq(Name)
    PROVE  /\ DOMAIN Part(doc, path) = {q \in Seq(Name) : path \o q \in DOMAIN doc}
           /\ \A q \in DOMAIN Part(doc, path) : Part(doc, path)[q] = doc[path \o q]
           /\ Part(doc, path) = [q \in DOMAIN Part(doc, path) |-> doc[path \o q]]
<1> DEFINE below == {After(p, path) : p \in {p \in DOMAIN doc : IsPrefix(path, p)}}
<1>1. below \subseteq {q \in Seq(Name) : path \o q \in DOMAIN doc}
  BY PrefixSplits DEF IsDocument
<1>2. ASSUME NEW q \in Seq(Name), path \o q \in DOMAIN doc
      PROVE  q \in below
  BY <1>2, AfterPrefix
<1>3. Part(doc, path) = [q \in below |-> doc[path \o q]]
  BY DEF Part
<1> QED
  BY <1>1, <1>2, <1>3

LEMMA PartDocument ==
    ASSUME NEW doc, IsDocument(doc), NEW path \in DOMAIN doc
    PROVE  IsDocument(Part(doc, path)) /\ Kind(Part(doc, path)) = doc[path].kind
<1>1. path \in Seq(Name)
  BY DEF IsDocument
<1>2. path \o <<>> = path /\ <<>> \in Seq(Name)
  BY <1>1
<1> DEFINE part == Part(doc, path)
<1>3. /\ DOMAIN part = {q \in Seq(Name) : path \o q \in DOMAIN doc}
      /\ \A q \in DOMAIN part : part[q] = doc[path \o q]
  BY <1>1, PartPaths
<1> HIDE DEF part
<1>4. <<>> \in DOMAIN part /\ DOMAIN part \subseteq Seq(Name) /\ part[<<>>] = doc[path]
  BY <1>2, <1>3
<1> QED
  BY <1>4 DEF IsDocument, Kind, Root, part

LEMMA LeafDocument ==
    ASSUME NEW node
    PROVE  IsDocument(Leaf(node)) /\ Root(Leaf(node)) = node /\ DOMAIN Leaf(node) = {<<>>}
BY DEF IsDocument, Leaf, Root

\* A tree holds its parts, each below its name.
LEMMA TreePaths ==
    ASSUME NEW kind, NEW parts, \A n \in DOMAIN parts : n \in Name /\ IsDocument(parts[n])
    PROVE  /\ IsDocument(Tree(kind, parts)) /\ Root(Tree(kind, parts)) = [kind |-> kind]
           /\ \A p \in Path : p \in DOMAIN Tree(kind, parts) <=>
                  Head(p) \in DOMAIN parts /\ Tail(p) \in DOMAIN parts[Head(p)]
           /\ \A p \in Path : p \in DOMAIN Tree(kind, parts) =>
                  Tree(kind, parts)[p] = parts[Head(p)][Tail(p)]
<1> DEFINE below == UNION {{<<name>> \o q : q \in DOMAIN parts[name]} : name \in DOMAIN parts}
<1>1. ASSUME NEW p \in below
      PROVE  p \in Path /\ Head(p) \in DOMAIN parts /\ Tail(p) \in DOMAIN parts[Head(p)]
  <2>1. PICK name \in DOMAIN parts : \E q \in DOMAIN parts[name] : p = <<name>> \o q
    OBVIOUS
  <2>2. PICK q \in DOMAIN parts[name] : p = <<name>> \o q
    BY <2>1
  <2>3. name \in Name /\ q \in Seq(Name)
    BY DEF IsDocument
  <2> QED
    BY <2>2, <2>3, OneLonger
<1>2. ASSUME NEW p \in Path, Head(p) \in DOMAIN parts, Tail(p) \in DOMAIN parts[Head(p)]
      PROVE  p \in below
  <2>1. p = <<Head(p)>> \o Tail(p)
    BY HeadAndTail
  <2>2. p \in {<<Head(p)>> \o q : q \in DOMAIN parts[Head(p)]}
    BY <1>2, <2>1
  <2> QED
    BY <1>2, <2>2
<1>3. Tree(kind, parts) = [path \in {<<>>} \union below |->
          IF path = <<>> THEN [kind |-> kind] ELSE parts[Head(path)][Tail(path)]]
  BY DEF Tree
<1>4. /\ \A p \in Path : p # <<>> /\ p \in Seq(Name)
      /\ <<>> \in Seq(Name)
  BY DEF Path
<1> HIDE DEF below
<1>5. DOMAIN Tree(kind, parts) = {<<>>} \union below /\ Root(Tree(kind, parts)) = [kind |-> kind]
  BY <1>3 DEF Root
<1>6. \A p \in Path : p \in DOMAIN Tree(kind, parts) <=> p \in below
  BY <1>4, <1>5
<1>7. \A p \in below : Tree(kind, parts)[p] = parts[Head(p)][Tail(p)]
  BY <1>1, <1>3, <1>4
<1>8. IsDocument(Tree(kind, parts))
  <2>1. DOMAIN Tree(kind, parts) \subseteq Seq(Name)
    BY <1>1, <1>4, <1>5
  <2> QED
    BY <1>5, <2>1 DEF IsDocument
<1> QED
  BY <1>1, <1>2, <1>5, <1>6, <1>7, <1>8

LEMMA TreeNode ==
    ASSUME NEW kind, NEW parts, \A n \in DOMAIN parts : n \in Name /\ IsDocument(parts[n]),
           NEW p \in Path, p \in DOMAIN Tree(kind, parts)
    PROVE  /\ Head(p) \in DOMAIN parts /\ Tail(p) \in DOMAIN parts[Head(p)]
           /\ Tree(kind, parts)[p] = parts[Head(p)][Tail(p)]
BY TreePaths

LEMMA TreePlain ==
    ASSUME NEW parts,
           \A n \in DOMAIN parts : n \in Name /\ IsDocument(parts[n]) /\ IsPlain(parts[n])
    PROVE  IsPlain(Dict(parts)) /\ IsPlain(Tree("list", parts))
<1>1. ASSUME NEW kind, NEW p \in Path, p \in DOMAIN Tree(kind, parts)
      PROVE  Tree(kind, parts)[p].kind \in {"scalar", "null", "list", "dict"}
  <2>1. \A n \in DOMAIN parts : n \in Name /\ IsDocument(parts[n])
    OBVIOUS
  <2>2. /\ Head(p) \in DOMAIN parts /\ Tail(p) \in DOMAIN parts[Head(p)]
        /\ Tree(kind, parts)[p] = parts[Head(p)][Tail(p)]
    BY <1>1, <2>1, TreeNode
  <2> QED
    BY <2>2 DEF IsPlain
<1>2. ASSUME NEW kind
      PROVE  /\ Root(Tree(kind, parts)) = [kind |-> kind]
             /\ \A p \in DOMAIN Tree(kind, parts) : p = <<>> \/ p \in Path
  <2>1. IsDocument(Tree(kind, parts)) /\ Root(Tree(kind, parts)) = [kind |-> kind]
    BY TreePaths
  <2> QED
    BY <2>1 DEF IsDocument, Path
<1>3. ASSUME NEW kind, [kind |-> kind].kind \in {"scalar", "null", "list", "dict"}
      PROVE  IsPlain(Tree(kind, parts))
  BY <1>1, <1>2, <1>3 DEF IsPlain, Root
<1> QED
  BY <1>3 DEF Dict

\* A list holds its items, each below its position.
LEMMA ListDocument ==
    ASSUME NEW items, DOMAIN items \subseteq DOMAIN Digits, \A i \in DOMAIN items : IsDocument(items[i])
    PROVE  /\ IsDocument(ListOf(items)) /\ Kind(ListOf(items)) = "list"
           /\ (\A i \in DOMAIN items : IsPlain(items[i])) => IsPlain(ListOf(items))
<1> DEFINE at(segment) == CHOOSE i \in DOMAIN items : Digits[i] = segment
           parts == [segment \in {Digits[i] : i \in DOMAIN items} |-> items[at(segment)]]
<1>1. ListOf(items) = Tree("list", parts)
  BY DEF ListOf
<1>2. \A i \in DOMAIN items : Digits[i] \in Name
  <2>1. \A i \in DOMAIN Digits : Digits[i] \in Name
    BY NameAssumption DEF ToSet
  <2> QED
    BY <2>1
<1>3. \A segment \in DOMAIN parts : /\ segment \in Name
                                    /\ \E i \in DOMAIN items : parts[segment] = items[i]
  <2> SUFFICES ASSUME NEW segment, NEW i \in DOMAIN items, segment = Digits[i]
               PROVE  segment \in Name /\ at(segment) \in DOMAIN items
    OBVIOUS
  <2> QED
    BY <1>2
<1> HIDE DEF parts
<1>4. \A n \in DOMAIN parts : n \in Name /\ IsDocument(parts[n])
  BY <1>3
<1>5. ASSUME \A i \in DOMAIN items : IsPlain(items[i]) PROVE IsPlain(Tree("list", parts))
  BY <1>3, <1>4, <1>5, TreePlain
<1>6. IsDocument(Tree("list", parts)) /\ Root(Tree("list", parts)) = [kind |-> "list"]
  BY <1>4, TreePaths
<1>7. Kind(ListOf(items)) = "list"
  BY <1>1, <1>6 DEF Kind
<1> QED
  BY <1>1, <1>5, <1>6, <1>7

\* What is not below a name is left as it is by another part of that name.
LEMMA WithPaths ==
    ASSUME NEW doc, IsDocument(doc), NEW name \in Name, NEW part, IsDocument(part)
    PROVE  /\ IsDocument(With(doc, name, part)) /\ Root(With(doc, name, part)) = Root(doc)
           /\ \A p \in Path : Head(p) # name =>
                /\ p \in DOMAIN With(doc, name, part) <=> p \in DOMAIN doc
                /\ p \in DOMAIN doc => With(doc, name, part)[p] = doc[p]
           /\ IsPlain(doc) /\ IsPlain(part) => IsPlain(With(doc, name, part))
<1> DEFINE kept  == {p \in DOMAIN doc : p = <<>> \/ Head(p) # name}
           below == {<<name>> \o q : q \in DOMAIN part}
           new   == With(doc, name, part)
<1>1. new = [path \in kept \union below |->
                 IF path # <<>> /\ Head(path) = name THEN part[Tail(path)] ELSE doc[path]]
  BY DEF With
<1>2. \A p \in below : p \in Path /\ Head(p) = name /\ Tail(p) \in DOMAIN part
  <2> SUFFICES ASSUME NEW q \in DOMAIN part
               PROVE  /\ <<name>> \o q \in Path /\ Head(<<name>> \o q) = name
                      /\ Tail(<<name>> \o q) \in DOMAIN part
    OBVIOUS
  <2> QED
    BY OneLonger DEF IsDocument
<1>3. \A p \in Path : p # <<>> /\ p \in Seq(Name)
  BY DEF Path
<1> HIDE DEF below, new
<1>4. DOMAIN new = kept \union below
  BY <1>1
<1>5. \A p \in below : new[p] = part[Tail(p)]
  BY <1>1, <1>2, <1>3
<1>6. \A p \in kept : new[p] = doc[p]
  BY <1>1
<1>7. <<>> \in kept /\ kept \subseteq DOMAIN doc /\ DOMAIN doc \subseteq Seq(Name)
  BY DEF IsDocument
<1>8. IsDocument(new)
  BY <1>2, <1>3, <1>4, <1>7 DEF IsDocument
<1>9. ASSUME NEW p \in Path, Head(p) # name
      PROVE  (p \in DOMAIN new <=> p \in DOMAIN doc) /\ (p \in DOMAIN doc => new[p] = doc[p])
  BY <1>2, <1>4, <1>6, <1>9
<1>10. ASSUME IsPlain(doc), IsPlain(part) PROVE IsPlain(new)
  BY <1>2, <1>4, <1>5, <1>6, <1>7, <1>10 DEF IsPlain
<1>11. Root(new) = Root(doc)
  BY <1>6, <1>7 DEF Root
<1> QED
  BY <1>8, <1>9, <1>10, <1>11 DEF new

\* The first failure is one of the failures, if there is one.
LEMMA FirstOfThem ==
    ASSUME NEW docs, DOMAIN docs \subseteq Nat
    PROVE  /\ FirstFailure(docs) = Missing <=> \A i \in DOMAIN docs : ~IsFailure(docs[i])
           /\ FirstFailure(docs) # Missing =>
                \E i \in DOMAIN docs : IsFailure(docs[i]) /\ FirstFailure(docs) = docs[i]
<1> DEFINE failed == {i \in DOMAIN docs : IsFailure(docs[i])}
<1>1. ~IsFailure(Missing)
  BY DEF IsFailure, Missing, Leaf, Kind, Root
<1>2. CASE failed = {}
  BY <1>2 DEF FirstFailure
<1>3. CASE failed # {}
  <2>1. \E i \in failed : \A j \in failed : i =< j
    BY <1>3, LeastNatural
  <2>2. \E i \in failed : FirstFailure(docs) = docs[i]
    BY <1>3, <2>1 DEF FirstFailure
  <2> QED
    BY <1>1, <2>2
<1> QED
  BY <1>2, <1>3

-----------------------------------------------------------------------------
(* Targets: what agrees with nothing to put there agrees with any values *)

\* A body after each entry is what that entry makes of the body before it.
LEMMA FillSteps ==
    ASSUME NEW targets, Len(targets) \in Nat, NEW values
    PROVE  \E body : /\ body = [i \in 0 .. Len(targets) |->
                            IF i = 0 THEN Dict(<<>>) ELSE Added(body[i - 1], targets[i], values[i])]
                     /\ Fill(targets, values) = body[Len(targets)]
<1> DEFINE Next1(i, doc) == Added(doc, targets[i], values[i])
           UpTo(body, n) == [i \in 0 .. n |-> IF i = 0 THEN Dict(<<>>) ELSE Next1(i, body[i - 1])]
           Z == {n \in Nat : \E body : body = UpTo(body, n)}
<1> SUFFICES \E body : body = UpTo(body, Len(targets))
  BY DEF Fill
<1> HIDE DEF Next1
<1>1. 0 \in Z
  <2>1. [i \in 0 .. 0 |-> Dict(<<>>)] = UpTo([i \in 0 .. 0 |-> Dict(<<>>)], 0)
    OBVIOUS
  <2> QED
    BY <2>1
<1>2. ASSUME NEW n \in 1 .. Len(targets), n - 1 \in Z
      PROVE  n \in Z
  <2>1. PICK body : body = UpTo(body, n - 1)
    BY <1>2
  <2> DEFINE longer == [i \in 0 .. n |-> IF i = n THEN Next1(n, body[n - 1]) ELSE body[i]]
  <2>2. longer = UpTo(longer, n)
    <3> SUFFICES ASSUME NEW i \in 0 .. n
                 PROVE  longer[i] = IF i = 0 THEN Dict(<<>>) ELSE Next1(i, longer[i - 1])
      OBVIOUS
    <3>1. CASE i = 0
      BY <2>1, <3>1
    <3>2. CASE i = n
      <4>1. longer[n] = Next1(n, body[n - 1]) /\ longer[n - 1] = body[n - 1]
        OBVIOUS
      <4> QED
        BY <3>2, <4>1
    <3>3. CASE i # 0 /\ i # n
      <4>1. i \in 0 .. n - 1 /\ i - 1 \in 0 .. n - 1 /\ i - 1 # n
        BY <3>3
      <4>2. longer[i] = body[i] /\ longer[i - 1] = body[i - 1]
        BY <3>3, <4>1
      <4>3. body[i] = Next1(i, body[i - 1])
        BY <2>1, <3>3, <4>1
      <4> QED
        BY <3>3, <4>2, <4>3
    <3> QED
      BY <3>1, <3>2, <3>3
  <2> HIDE DEF longer
  <2> QED
    BY <2>2
<1> HIDE DEF Z
<1>3. \A i \in 1 .. Len(targets) : i - 1 \in Z => i \in Z
  BY <1>2
<1>4. \A i \in 0 .. Len(targets) : i \in Z
  BY <1>1, <1>3, Upwards
<1> QED
  BY <1>4 DEF Z

\* The way to a target, and the target.
Way(target) == {Upto(target, k) : k \in 1 .. Len(target)}

LEMMA UptoPath ==
    ASSUME NEW target \in Path, NEW k \in 1 .. Len(target)
    PROVE  Upto(target, k) \in Seq(Name) /\ Len(Upto(target, k)) = k - 1
<1>1. target \in Seq(Name) /\ Len(target) \in Nat /\ \A i \in 1 .. k - 1 : target[i] \in Name
  BY DEF Path
<1> QED
  BY <1>1, SubSeqProperties DEF Upto

\* What is on the way to something that is on the way is on the way.
LEMMA UptoUpto ==
    ASSUME NEW target \in Path, NEW k \in 1 .. Len(target), NEW j \in 1 .. k - 1
    PROVE  Upto(Upto(target, k), j) = Upto(target, j)
BY UptoPath DEF Path, Upto

\* The body of nothing but nulls, P, and the real one, R: where there is no null
\* in P they are the same, and what R has more of is below a null of P.
Mirrors(P, R) ==
    /\ IsDocument(P) /\ IsDocument(R) /\ Kind(P) = "dict"
    /\ DOMAIN P \subseteq DOMAIN R
    /\ \A p \in DOMAIN P : /\ P[p].kind \in {"dict", "list", "null"}
                           /\ P[p].kind # "null" => R[p] = P[p]
    /\ \A p \in DOMAIN R \ DOMAIN P :
        \E k \in 1 .. Len(p) : Upto(p, k) \in DOMAIN P /\ P[Upto(p, k)].kind = "null"

\* What a body holds with a value put at a target.
Holds(new, body, target, value) ==
    /\ DOMAIN new = DOMAIN body \union Way(target) \union {target \o q : q \in DOMAIN value}
    /\ IsDocument(new)
    /\ \A p \in DOMAIN body : new[p] = body[p]
    /\ \A k \in 1 .. Len(target) :
        Upto(target, k) \notin DOMAIN body => new[Upto(target, k)] = Opened(body, target, k)
    /\ new[target] = Root(value)

LEMMA PutHolds ==
    ASSUME NEW body, IsDocument(body), NEW target \in Path, NEW value, IsDocument(value),
           target \notin DOMAIN body
    PROVE  Holds(Put(body, target, value), body, target, value)
<1> DEFINE below == {target \o q : q \in DOMAIN value}
           way == Way(target)
           new == Put(body, target, value)
<1>1. new = [path \in DOMAIN body \union way \union below |->
                 IF path \in DOMAIN body THEN body[path]
                 ELSE IF Len(path) < Len(target) THEN Opened(body, target, Len(path) + 1)
                 ELSE value[After(path, target)]]
  BY DEF Put, Way
<1>2. target \in Seq(Name) /\ target # <<>> /\ Len(target) \in Nat /\ Len(target) >= 1
  BY DEF Path
<1>3. below \subseteq Seq(Name) /\ way \subseteq Seq(Name)
  <2>1. \A q \in DOMAIN value : target \o q \in Seq(Name)
    BY <1>2 DEF IsDocument
  <2>2. \A k \in 1 .. Len(target) : Upto(target, k) \in Seq(Name)
    BY UptoPath
  <2> QED
    BY <2>1, <2>2 DEF Way
<1>4. target \in below /\ After(target, target) = <<>>
  <2>1. target \o <<>> = target /\ <<>> \in DOMAIN value /\ <<>> \in Seq(Name)
    BY <1>2 DEF IsDocument
  <2>2. After(target \o <<>>, target) = <<>>
    BY <1>2, <2>1, AfterPrefix
  <2>3. target \o <<>> \in below
    BY <2>1
  <2> QED
    BY <2>1, <2>2, <2>3
<1> HIDE DEF below, new
<1>5. DOMAIN new = DOMAIN body \union way \union below
  BY <1>1
<1>6. IsDocument(new)
  BY <1>3, <1>5 DEF IsDocument
<1>7. \A p \in DOMAIN body : new[p] = body[p]
  BY <1>1
<1>8. ASSUME NEW k \in 1 .. Len(target), Upto(target, k) \notin DOMAIN body
      PROVE  new[Upto(target, k)] = Opened(body, target, k)
  <2>1. Upto(target, k) \in way /\ Len(Upto(target, k)) = k - 1 /\ Len(Upto(target, k)) < Len(target)
    BY <1>2, UptoPath DEF Way
  <2>2. Len(Upto(target, k)) + 1 = k
    BY <1>2, <2>1
  <2> QED
    BY <1>1, <1>8, <2>1, <2>2
<1>9. new[target] = Root(value)
  BY <1>1, <1>2, <1>4 DEF Root
<1> QED
  BY <1>5, <1>6, <1>7, <1>8, <1>9 DEF Holds, below, new

\* A target that goes into P goes into R, and into the same nodes.
LEMMA MirroredTarget ==
    ASSUME NEW P, NEW R, Mirrors(P, R), NEW target \in Path,
           target \notin DOMAIN P, \A k \in 1 .. Len(target) : ~Refused(P, target, k)
    PROVE  /\ target \notin DOMAIN R
           /\ \A k \in 1 .. Len(target) :
                /\ ~Refused(R, target, k) /\ Opened(R, target, k) = Opened(P, target, k)
                /\ Opened(P, target, k).kind \in {"dict", "list"}
                /\ Upto(target, k) \in DOMAIN R => Upto(target, k) \in DOMAIN P
<1>1. ASSUME NEW k \in 1 .. Len(target), Upto(target, k) \in DOMAIN P
      PROVE  P[Upto(target, k)].kind # "null" /\ R[Upto(target, k)] = P[Upto(target, k)]
  <2>1. Opened(P, target, k).kind \in {"dict", "list"}
    BY DEF Refused
  <2>2. Opened(P, target, k) = P[Upto(target, k)]
    BY <1>1 DEF Opened
  <2> QED
    BY <1>1, <2>1, <2>2 DEF Mirrors
<1>2. ASSUME NEW k \in 1 .. Len(target), Upto(target, k) \in DOMAIN R
      PROVE  Upto(target, k) \in DOMAIN P
  <2> SUFFICES ASSUME Upto(target, k) \notin DOMAIN P PROVE FALSE
    OBVIOUS
  <2>1. Len(Upto(target, k)) = k - 1
    BY UptoPath
  <2>2. PICK j \in 1 .. k - 1 : /\ Upto(Upto(target, k), j) \in DOMAIN P
                                /\ P[Upto(Upto(target, k), j)].kind = "null"
    BY <1>2, <2>1 DEF Mirrors
  <2>3. Upto(Upto(target, k), j) = Upto(target, j) /\ j \in 1 .. Len(target)
    BY UptoUpto DEF Path
  <2> QED
    BY <1>1, <2>2, <2>3
<1>3. target \notin DOMAIN R
  <2> SUFFICES ASSUME target \in DOMAIN R PROVE FALSE
    OBVIOUS
  <2>1. PICK k \in 1 .. Len(target) : Upto(target, k) \in DOMAIN P /\ P[Upto(target, k)].kind = "null"
    BY DEF Mirrors
  <2> QED
    BY <1>1, <2>1
<1>4. ASSUME NEW k \in 1 .. Len(target)
      PROVE  ~Refused(R, target, k) /\ Opened(R, target, k) = Opened(P, target, k)
  <2>1. Upto(target, k) \in DOMAIN R <=> Upto(target, k) \in DOMAIN P
    BY <1>2 DEF Mirrors
  <2>2. Opened(R, target, k) = Opened(P, target, k)
    BY <1>1, <2>1 DEF Opened
  <2>3. Skips(R, Upto(target, k), target[k]) => Skips(P, Upto(target, k), target[k])
    BY DEF Skips, Mirrors
  <2> QED
    BY <2>2, <2>3 DEF Refused
<1>5. \A k \in 1 .. Len(target) : Opened(P, target, k).kind \in {"dict", "list"}
  BY DEF Refused
<1> QED
  BY <1>2, <1>3, <1>4, <1>5

LEMMA MirroredPut ==
    ASSUME NEW P, NEW R, Mirrors(P, R), NEW target \in Path,
           target \notin DOMAIN P, \A k \in 1 .. Len(target) : ~Refused(P, target, k),
           NEW value, IsDocument(value)
    PROVE  Mirrors(Put(P, target, Null), Put(R, target, value))
<1> DEFINE P2 == Put(P, target, Null)
           R2 == Put(R, target, value)
<1>1. /\ target \notin DOMAIN R
      /\ \A k \in 1 .. Len(target) : /\ Opened(R, target, k) = Opened(P, target, k)
                                     /\ Opened(P, target, k).kind \in {"dict", "list"}
                                     /\ Upto(target, k) \in DOMAIN R => Upto(target, k) \in DOMAIN P
  BY MirroredTarget
<1>2. /\ IsDocument(P) /\ IsDocument(R) /\ Kind(P) = "dict" /\ DOMAIN P \subseteq DOMAIN R
      /\ <<>> \in DOMAIN P
  BY DEF Mirrors, IsDocument
<1>3. IsDocument(Null) /\ DOMAIN Null = {<<>>} /\ Root(Null).kind = "null"
  BY LeafDocument DEF Null
<1>4. Holds(P2, P, target, Null)
  BY <1>2, <1>3, PutHolds
<1>5. Holds(R2, R, target, value)
  BY <1>1, <1>2, PutHolds
<1> HIDE DEF P2, R2
<1> USE DEF Holds
<1>6. target \in Seq(Name) /\ target \o <<>> = target /\ Len(target) \in Nat
  BY DEF Path
<1>7. DOMAIN P2 = DOMAIN P \union Way(target) \union {target}
  BY <1>3, <1>4, <1>6
<1>8. target \in {target \o q : q \in DOMAIN value}
  BY <1>6 DEF IsDocument
<1>9. DOMAIN P2 \subseteq DOMAIN R2
  BY <1>2, <1>5, <1>7, <1>8
<1>10. Kind(P2) = "dict"
  BY <1>2, <1>4 DEF Kind, Root
<1>11. ASSUME NEW p \in DOMAIN P2
       PROVE  P2[p].kind \in {"dict", "list", "null"} /\ (P2[p].kind # "null" => R2[p] = P2[p])
  <2>1. CASE p \in DOMAIN P
    BY <1>2, <1>4, <1>5, <2>1 DEF Mirrors
  <2>2. CASE p \in Way(target) /\ p \notin DOMAIN P
    <3>1. PICK k \in 1 .. Len(target) : p = Upto(target, k)
      BY <2>2 DEF Way
    <3>2. p \notin DOMAIN R
      BY <1>1, <2>2, <3>1
    <3>3. P2[p] = Opened(P, target, k) /\ R2[p] = Opened(R, target, k)
      BY <1>4, <1>5, <2>2, <3>1, <3>2
    <3> QED
      BY <1>1, <3>3
  <2>3. CASE p = target
    BY <1>3, <1>4, <2>3
  <2> QED
    BY <1>7, <2>1, <2>2, <2>3
<1>12. ASSUME NEW p \in DOMAIN R2 \ DOMAIN P2
       PROVE  \E k \in 1 .. Len(p) : Upto(p, k) \in DOMAIN P2 /\ P2[Upto(p, k)].kind = "null"
  <2>1. CASE p \in DOMAIN R
    <3>1. PICK k \in 1 .. Len(p) : Upto(p, k) \in DOMAIN P /\ P[Upto(p, k)].kind = "null"
      BY <1>7, <1>12, <2>1 DEF Mirrors
    <3> QED
      BY <1>4, <1>7, <3>1
  <2>2. CASE p \notin DOMAIN R
    <3>1. PICK q \in DOMAIN value : p = target \o q
      BY <1>5, <1>7, <1>12, <2>2
    <3>2. q \in Seq(Name) /\ q # <<>>
      BY <1>6, <1>7, <1>12, <3>1 DEF IsDocument
    <3>3. Len(p) = Len(target) + Len(q) /\ Len(q) \in Nat /\ Len(q) > 0
      BY <1>6, <3>1, <3>2
    <3>4. Upto(p, Len(target) + 1) = target
      BY <1>6, <3>1, <3>2 DEF Upto
    <3>5. Len(target) + 1 \in 1 .. Len(p)
      BY <1>6, <3>3
    <3>6. target \in DOMAIN P2 /\ P2[target].kind = "null"
      BY <1>3, <1>4, <1>7
    <3> QED
      BY <3>4, <3>5, <3>6
  <2> QED
    BY <2>1, <2>2
<1> QED
  BY <1>4, <1>5, <1>9, <1>10, <1>11, <1>12 DEF Mirrors, P2, R2

\* The body that is begun with.
LEMMA EmptyDict == IsDocument(Dict(<<>>)) /\ Kind(Dict(<<>>)) = "dict" /\ DOMAIN Dict(<<>>) = {<<>>}
<1>1. IsDocument(Tree("dict", <<>>)) /\ Root(Tree("dict", <<>>)) = [kind |-> "dict"]
  BY TreePaths
<1>2. DOMAIN Tree("dict", <<>>) = {<<>>}
  BY DEF Tree
<1> QED
  BY <1>1, <1>2 DEF Dict, Kind

LEMMA ConflictFails == IsFailure(Conflict) /\ IsDocument(Conflict)
BY LeafDocument DEF Conflict, Failure, IsFailure, Kind

\* The schema judges a mapping's targets by filling a body with nulls, before any
\* value is known (definitions.py, _target_error).  The dry run is sound: where it
\* succeeded, filling the same targets with any values whatever gives a document
\* that is a failure only if one of the values is, and is then that failure.
THEOREM DryRunIsSound ==
    ASSUME NEW targets \in Seq(Path), NEW values, NEW nulls,
           \A i \in 1 .. Len(targets) : IsDocument(values[i]) /\ nulls[i] = Null,
           ~IsFailure(Fill(targets, nulls))
    PROVE  /\ IsDocument(Fill(targets, values))
           /\ IsFailure(Fill(targets, values)) =>
                \E i \in 1 .. Len(targets) : Fill(targets, values) = values[i]
<1> DEFINE n == Len(targets)
<1>1. n \in Nat /\ \A i \in 1 .. n : targets[i] \in Path
  OBVIOUS
<1> HIDE DEF n
<1>2. PICK probe : /\ probe = [i \in 0 .. n |->
                          IF i = 0 THEN Dict(<<>>) ELSE Added(probe[i - 1], targets[i], nulls[i])]
                   /\ Fill(targets, nulls) = probe[n]
  BY <1>1, FillSteps DEF n
<1>3. PICK body : /\ body = [i \in 0 .. n |->
                         IF i = 0 THEN Dict(<<>>) ELSE Added(body[i - 1], targets[i], values[i])]
                  /\ Fill(targets, values) = body[n]
  BY <1>1, FillSteps DEF n
<1> DEFINE Good(i) == /\ IsDocument(body[i])
                      /\ IsFailure(body[i]) => \E j \in 1 .. n : body[i] = values[j]
                      /\ IsFailure(body[i]) \/ Mirrors(probe[i], body[i])
           Z == {i \in 0 .. n : Good(i)}
<1>a. ASSUME NEW i \in 0 .. n
      PROVE  ~IsFailure(probe[i])
  <2> DEFINE Y == {k \in 0 .. n : ~IsFailure(probe[n - k])}
  <2>1. 0 \in Y
    BY <1>1, <1>2
  <2>2. ASSUME NEW k \in 1 .. n, k - 1 \in Y
        PROVE  k \in Y
    <3>1. n - (k - 1) \in 0 .. n /\ n - (k - 1) # 0 /\ n - (k - 1) - 1 = n - k
      BY <1>1
    <3>2. probe[n - (k - 1)] = Added(probe[n - k], targets[n - (k - 1)], nulls[n - (k - 1)])
      BY <1>2, <3>1
    <3>3. ~IsFailure(probe[n - (k - 1)])
      BY <2>2
    <3>4. ~IsFailure(probe[n - k])
      BY <3>2, <3>3 DEF Added
    <3> QED
      BY <1>1, <3>4
  <2> HIDE DEF Y
  <2>3. \A k \in 1 .. n : k - 1 \in Y => k \in Y
    BY <2>2
  <2>4. \A k \in 0 .. n : k \in Y
    BY <1>1, <2>1, <2>3, Upwards
  <2>5. n - i \in Y
    BY <1>1, <2>4
  <2>6. n - (n - i) = i
    BY <1>1
  <2> QED
    BY <2>5, <2>6 DEF Y
<1>4. Good(0)
  <2>1. probe[0] = Dict(<<>>) /\ body[0] = Dict(<<>>)
    BY <1>1, <1>2, <1>3
  <2>2. Mirrors(Dict(<<>>), Dict(<<>>))
    BY EmptyDict DEF Mirrors, Kind, Root
  <2>3. ~IsFailure(Dict(<<>>))
    BY EmptyDict DEF IsFailure
  <2> QED
    BY <2>1, <2>2, <2>3, EmptyDict
<1>5. ASSUME NEW i \in 1 .. n, Good(i - 1)
      PROVE  Good(i)
  <2> DEFINE P == probe[i - 1]
             R == body[i - 1]
             value == values[i]
             target == targets[i]
  <2>1. i \in 0 .. n /\ i # 0 /\ i \in Nat /\ i - 1 \in 0 .. n
    BY <1>1
  <2>2. probe[i] = Added(P, target, Null)
    BY <1>2, <2>1 DEF n
  <2>3. body[i] = Added(R, target, value)
    BY <1>3, <2>1
  <2>4. IsDocument(value) /\ target \in Path
    BY <1>1 DEF n
  <2>5. ~IsFailure(Null)
    BY LeafDocument DEF Null, IsFailure, Kind
  <2>6. Good(i - 1)
    BY <1>5
  <2> HIDE DEF P, R, value, target, Good
  <2>7. /\ IsDocument(R) /\ (IsFailure(R) => \E j \in 1 .. n : R = values[j])
        /\ IsFailure(R) \/ Mirrors(P, R)
    BY <2>6 DEF Good, P, R
  <2>8. CASE IsFailure(R)
    BY <2>3, <2>7, <2>8 DEF Added, Good, R
  <2>9. CASE ~IsFailure(R) /\ IsFailure(value)
    <3>1. body[i] = value
      BY <2>3, <2>9 DEF Added
    <3> QED
      BY <2>4, <2>9, <3>1 DEF Good, value
  <2>10. CASE ~IsFailure(R) /\ ~IsFailure(value)
    <3>1. body[i] = Insert(R, target, value)
      BY <2>3, <2>10 DEF Added
    <3>2. ~IsFailure(P) /\ ~IsFailure(probe[i])
      BY <1>a, <2>1 DEF P
    <3>3. /\ target \notin DOMAIN P /\ \A k \in 1 .. Len(target) : ~Refused(P, target, k)
          /\ probe[i] = Put(P, target, Null)
      BY <2>2, <2>5, <3>2, ConflictFails DEF Added, Insert
    <3>4. Mirrors(P, R)
      BY <2>7, <2>10
    <3>5. /\ target \notin DOMAIN R /\ \A k \in 1 .. Len(target) : ~Refused(R, target, k)
      BY <2>4, <3>3, <3>4, MirroredTarget
    <3>6. body[i] = Put(R, target, value)
      BY <3>1, <3>5 DEF Insert
    <3>7. Mirrors(probe[i], body[i])
      BY <2>4, <3>3, <3>4, <3>6, MirroredPut
    <3>8. IsDocument(body[i])
      BY <3>7 DEF Mirrors
    <3>9. ~IsFailure(body[i])
      <4>1. <<>> \in DOMAIN probe[i] /\ Kind(probe[i]) = "dict"
        BY <3>7 DEF Mirrors, IsDocument
      <4>2. Kind(body[i]) = "dict"
        BY <3>7, <4>1 DEF Mirrors, Kind, Root
      <4> QED
        BY <4>2 DEF IsFailure
    <3> QED
      BY <3>7, <3>8, <3>9 DEF Good
  <2> QED
    BY <2>8, <2>9, <2>10
<1>6. \A i \in 1 .. n : i - 1 \in Z => i \in Z
  BY <1>1, <1>5
<1>7. n \in Z
  <2>1. 0 \in Z
    BY <1>1, <1>4
  <2> HIDE DEF Z
  <2>2. \A i \in 0 .. n : i \in Z
    BY <1>1, <1>6, <2>1, Upwards
  <2> QED
    BY <1>1, <2>2
<1> QED
  BY <1>3, <1>7 DEF n

-----------------------------------------------------------------------------
(* What an entry makes of two orders' facts alike *)

LEMMA FailureFails ==
    ASSUME NEW why
    PROVE  IsFailure(Failure(why)) /\ IsDocument(Failure(why)) /\ Root(Failure(why)).at = why
BY LeafDocument DEF Failure, IsFailure, Kind

\* What resolved to neither a token nor a failure is a part of the facts.
LEMMA ResolvesToPart ==
    ASSUME NEW path, NEW facts, NEW item, NEW live,
           ~IsFailure(Resolve(path, facts, item, live)), Resolve(path, facts, item, live) # Token
    PROVE  /\ Place(path, item) \in DOMAIN facts
           /\ Resolve(path, facts, item, live) = Part(facts, Place(path, item))
BY FailureFails DEF Resolve

\* The places of items right below a place.
ItemsBelow(facts, place) ==
    {it \in DOMAIN facts : \E i \in DOMAIN Digits : it = Append(place, Digits[i])}

LEMMA ItemsAreBelow ==
    ASSUME NEW facts, IsDocument(facts), NEW e, NEW item, Place(e.source, item) \in DOMAIN facts,
           NEW v, v = Part(facts, Place(e.source, item))
    PROVE  /\ DOMAIN ItemPlaces(e, v, item) = Indices(v) /\ Indices(v) \subseteq DOMAIN Digits
           /\ \A i \in Indices(v) :
                ItemPlaces(e, v, item)[i] \in ItemsBelow(facts, Place(e.source, item))
<1> DEFINE place == Place(e.source, item)
<1>1. place \in Seq(Name)
  BY DEF IsDocument
<1>2. \A i \in DOMAIN Digits : Digits[i] \in Name
  BY NameAssumption DEF ToSet
<1>3. ItemPlaces(e, v, item) = [i \in Indices(v) |-> Append(place, Digits[i])]
  BY DEF ItemPlaces
<1>4. ASSUME NEW i \in Indices(v)
      PROVE  i \in DOMAIN Digits /\ Append(place, Digits[i]) \in DOMAIN facts
  <2>1. i \in DOMAIN Digits /\ <<Digits[i]>> \in DOMAIN v
    BY DEF Indices
  <2>2. place \o <<Digits[i]>> \in DOMAIN facts
    <3>1. DOMAIN v = {q \in Seq(Name) : place \o q \in DOMAIN facts}
      BY <1>1, PartPaths
    <3> HIDE DEF place
    <3> QED
      BY <2>1, <3>1
  <2>3. Append(place, Digits[i]) = place \o <<Digits[i]>>
    BY <1>1, <1>2, <2>1, AppendIsConcat
  <2> QED
    BY <2>1, <2>2, <2>3
<1>5. \A i \in Indices(v) : Append(place, Digits[i]) \in ItemsBelow(facts, place)
  BY <1>4 DEF ItemsBelow
<1> QED
  BY <1>3, <1>4, <1>5

\* An entry reads its origin, the items below it by its pluck, and what its each made
\* of them, and makes the same of two facts where these are the same.
SeesTheSame(e, F, G, item, l1, l2, deep, f, g) ==
    /\ "plugin" \in e.origins => Resolve(<<"allocated", e.plugin>>, F, item, l1)
                                     = Resolve(<<"allocated", e.plugin>>, G, item, l2)
    /\ {"const", "plugin"} \cap e.origins = {} =>
        /\ Resolve(e.source, F, item, l1) = Resolve(e.source, G, item, l2)
        /\ \A it \in ItemsBelow(F, Place(e.source, item)) :
            /\ f[<<deep, e, it>>] = g[<<deep, e, it>>]
            /\ e.pluck # <<>> => Resolve(e.pluck, F, it, l1) = Resolve(e.pluck, G, it, l2)

LEMMA SameEntry ==
    ASSUME NEW e, NEW F, IsDocument(F), NEW G, NEW item, NEW l1, NEW l2, NEW deep, NEW f, NEW g,
           SeesTheSame(e, F, G, item, l1, l2, deep, f, g)
    PROVE  RenderEntry(e, F, item, l1, deep, f) = RenderEntry(e, G, item, l2, deep, g)
<1>1. CASE {"const", "plugin"} \cap e.origins # {}
  BY <1>1 DEF RenderEntry, SeesTheSame
<1>2. CASE {"const", "plugin"} \cap e.origins = {}
  <2> DEFINE v == Resolve(e.source, F, item, l1)
             items == ItemPlaces(e, v, item)
  <2>1. v = Resolve(e.source, G, item, l2)
    BY <1>2 DEF SeesTheSame
  <2>2. Shaped(e, v, F, item, l1, deep, f) = Shaped(e, v, G, item, l2, deep, g)
    <3>1. CASE IsFailure(v) \/ v = Token \/ (e.each = <<>> /\ e.pluck = <<>>) \/ Kind(v) # "list"
      BY <3>1 DEF Shaped
    <3>2. CASE ~IsFailure(v) /\ v # Token /\ ~(e.each = <<>> /\ e.pluck = <<>>) /\ Kind(v) = "list"
      <4>1. Place(e.source, item) \in DOMAIN F /\ v = Part(F, Place(e.source, item))
        BY <3>2, ResolvesToPart
      <4>2. \A i \in DOMAIN items : items[i] \in ItemsBelow(F, Place(e.source, item))
        BY <4>1, ItemsAreBelow
      <4> HIDE DEF v, items
      <4>3. \A i \in DOMAIN items : f[<<deep, e, items[i]>>] = g[<<deep, e, items[i]>>]
        BY <1>2, <4>2 DEF SeesTheSame
      <4>4. \A i \in DOMAIN items : e.each = <<>> =>
                Plucked(Resolve(e.pluck, F, items[i], l1)) = Plucked(Resolve(e.pluck, G, items[i], l2))
        BY <1>2, <3>2, <4>2 DEF SeesTheSame
      <4>5. [i \in DOMAIN items |-> IF e.each # <<>> THEN f[<<deep, e, items[i]>>]
                                    ELSE Plucked(Resolve(e.pluck, F, items[i], l1))]
            = [i \in DOMAIN items |-> IF e.each # <<>> THEN g[<<deep, e, items[i]>>]
                                    ELSE Plucked(Resolve(e.pluck, G, items[i], l2))]
        BY <4>3, <4>4
      <4>6. Collected(e, v, F, item, l1, deep, f) = Collected(e, v, G, item, l2, deep, g)
        BY <4>5 DEF Collected, items
      <4> QED
        BY <3>2, <4>6 DEF Shaped
    <3> QED
      BY <3>1, <3>2
  <2> HIDE DEF v
  <2> QED
    BY <1>2, <2>1, <2>2 DEF RenderEntry, v
<1> QED
  BY <1>1, <1>2

-----------------------------------------------------------------------------
(* Entries inside others *)

\* The levels of a mapping, each made of the entries inside those of the one before.
LEMMA LevelSteps ==
    ASSUME NEW entries
    PROVE  Level(entries) = [n \in 0 .. Nesting + 1 |->
               IF n = 0 THEN ToSet(entries) ELSE UNION {ToSet(e.each) : e \in Level(entries)[n - 1]}]
<1> DEFINE Within(level) == UNION {ToSet(e.each) : e \in level}
           UpTo(at, n) == [i \in 0 .. n |-> IF i = 0 THEN ToSet(entries) ELSE Within(at[i - 1])]
           Z == {n \in Nat : \E at : at = UpTo(at, n)}
<1> SUFFICES \E at : at = UpTo(at, Nesting + 1)
  BY DEF Level
<1> HIDE DEF Within
<1>1. 0 \in Z
  <2>1. [i \in 0 .. 0 |-> ToSet(entries)] = UpTo([i \in 0 .. 0 |-> ToSet(entries)], 0)
    OBVIOUS
  <2> QED
    BY <2>1
<1>2. ASSUME NEW n \in 1 .. Nesting + 1, n - 1 \in Z
      PROVE  n \in Z
  <2>1. PICK at : at = UpTo(at, n - 1)
    BY <1>2
  <2> DEFINE longer == [i \in 0 .. n |-> IF i = n THEN Within(at[n - 1]) ELSE at[i]]
  <2>2. n \in Nat /\ n # 0
    BY MappingAssumption
  <2>3. longer = UpTo(longer, n)
    <3> SUFFICES ASSUME NEW i \in 0 .. n
                 PROVE  longer[i] = IF i = 0 THEN ToSet(entries) ELSE Within(longer[i - 1])
      OBVIOUS
    <3>1. CASE i = 0
      BY <2>1, <2>2, <3>1
    <3>2. CASE i = n
      <4>1. longer[n] = Within(at[n - 1]) /\ longer[n - 1] = at[n - 1]
        BY <2>2
      <4> QED
        BY <2>2, <3>2, <4>1
    <3>3. CASE i # 0 /\ i # n
      <4>1. i \in 0 .. n - 1 /\ i - 1 \in 0 .. n - 1 /\ i - 1 # n
        BY <2>2, <3>3
      <4>2. longer[i] = at[i] /\ longer[i - 1] = at[i - 1]
        BY <3>3, <4>1
      <4>3. at[i] = Within(at[i - 1])
        BY <2>1, <3>3, <4>1
      <4> QED
        BY <3>3, <4>2, <4>3
    <3> QED
      BY <3>1, <3>2, <3>3
  <2> HIDE DEF longer
  <2> QED
    BY <2>2, <2>3
<1> HIDE DEF Z
<1>3. \A i \in 1 .. Nesting + 1 : i - 1 \in Z => i \in Z
  BY <1>2
<1>4. Nesting + 1 \in Nat /\ Nesting + 1 \in 0 .. Nesting + 1
  BY MappingAssumption
<1>5. \A i \in 0 .. Nesting + 1 : i \in Z
  BY <1>1, <1>3, <1>4, Upwards
<1> QED
  BY <1>4, <1>5 DEF Z

\* Where the entries of a level are, and what is inside them.
LEMMA LevelShape ==
    ASSUME NEW entries \in Seq(Entry)
    PROVE  /\ Level(entries)[0] = ToSet(entries)
           /\ \A n \in 0 .. Nesting : /\ Level(entries)[n] \subseteq Everyone(entries)
                                      /\ \A e \in Level(entries)[n] :
                                            ToSet(e.each) \subseteq Level(entries)[n + 1]
           /\ Everyone(entries) \subseteq Entry
<1> DEFINE level == Level(entries)
<1>1. level = [n \in 0 .. Nesting + 1 |->
          IF n = 0 THEN ToSet(entries) ELSE UNION {ToSet(e.each) : e \in level[n - 1]}]
  BY LevelSteps
<1>2. Everyone(entries) = ToSet(entries) \union UNION {level[n] : n \in 1 .. Nesting}
  BY DEF Everyone, Inner
<1> HIDE DEF level
<1>3. Nesting \in Nat
  BY MappingAssumption
<1>4. level[0] = ToSet(entries)
  BY <1>1, <1>3
<1>5. \A n \in 0 .. Nesting : level[n + 1] = UNION {ToSet(e.each) : e \in level[n]}
  <2> SUFFICES ASSUME NEW n \in 0 .. Nesting
               PROVE  level[n + 1] = UNION {ToSet(e.each) : e \in level[n]}
    OBVIOUS
  <2>1. n + 1 \in 0 .. Nesting + 1 /\ n + 1 # 0 /\ (n + 1) - 1 = n
    BY <1>3
  <2> QED
    BY <1>1, <2>1
<1>6. \A n \in 0 .. Nesting : level[n] \subseteq Everyone(entries)
  BY <1>2, <1>3, <1>4
<1>7. \A n \in 0 .. Nesting : \A e \in level[n] : ToSet(e.each) \subseteq level[n + 1]
  BY <1>5
<1>8. ToSet(entries) \subseteq Entry
  BY DEF ToSet
<1>9. \A e \in Entry : ToSet(e.each) \subseteq Entry
  <2> SUFFICES ASSUME NEW e \in Entry PROVE ToSet(e.each) \subseteq Entry
    OBVIOUS
  <2>1. e.each \in Seq(Entry)
    BY MappingAssumption DEF IsEntry
  <2> QED
    BY <2>1 DEF ToSet
<1> DEFINE Z == {n \in 0 .. Nesting : level[n] \subseteq Entry}
<1>10. \A n \in 1 .. Nesting : n - 1 \in Z => n \in Z
  <2> SUFFICES ASSUME NEW n \in 1 .. Nesting, level[n - 1] \subseteq Entry PROVE level[n] \subseteq Entry
    OBVIOUS
  <2>1. n - 1 \in 0 .. Nesting /\ (n - 1) + 1 = n
    BY <1>3
  <2>2. level[n] = UNION {ToSet(e.each) : e \in level[n - 1]}
    BY <1>5, <2>1
  <2> QED
    BY <1>9, <2>2
<1>11. 0 \in Z
  BY <1>3, <1>4, <1>8
<1> HIDE DEF Z
<1>12. \A n \in 0 .. Nesting : n \in Z
  BY <1>3, <1>10, <1>11, Upwards
<1>13. Everyone(entries) \subseteq Entry
  BY <1>2, <1>3, <1>8, <1>12 DEF Z
<1> QED
  BY <1>4, <1>6, <1>7, <1>13 DEF level

\* What the entries inside one make of an item, from what is made a level further in.
InsideStep(call, facts, live, made) ==
    Fill(Targets(call[2].each),
         RenderEntries(call[2].each, facts, call[3], live, call[1] - 1, made))

LEMMA SameInside ==
    ASSUME NEW facts, IsDocument(facts), NEW live, NEW n \in Nat, NEW e \in Entry, NEW it, NEW f, NEW g,
           \A x \in Entry : \A at \in DOMAIN facts : f[<<n - 1, x, at>>] = g[<<n - 1, x, at>>]
    PROVE  InsideStep(<<n, e, it>>, facts, live, f) = InsideStep(<<n, e, it>>, facts, live, g)
<1>1. e.each \in Seq(Entry)
  BY MappingAssumption DEF IsEntry
<1>2. ASSUME NEW i \in DOMAIN e.each
      PROVE  RenderEntry(e.each[i], facts, it, live, n - 1, f)
                 = RenderEntry(e.each[i], facts, it, live, n - 1, g)
  <2> DEFINE x == e.each[i]
             deep == n - 1
  <2>1. x \in Entry
    BY <1>1
  <2>2. \A at \in DOMAIN facts : f[<<deep, x, at>>] = g[<<deep, x, at>>]
    BY <2>1
  <2> HIDE DEF x, deep
  <2>3. \A at \in ItemsBelow(facts, Place(x.source, it)) : f[<<deep, x, at>>] = g[<<deep, x, at>>]
    BY <2>2 DEF ItemsBelow
  <2>4. SeesTheSame(x, facts, facts, it, live, live, deep, f, g)
    BY <2>3 DEF SeesTheSame
  <2>5. RenderEntry(x, facts, it, live, deep, f) = RenderEntry(x, facts, it, live, deep, g)
    BY IsDocument(facts), <2>4, SameEntry
  <2> QED
    BY <2>5 DEF x, deep
<1>3. RenderEntries(e.each, facts, it, live, n - 1, f) = RenderEntries(e.each, facts, it, live, n - 1, g)
  BY <1>2 DEF RenderEntries
<1>4. <<n, e, it>>[1] = n /\ <<n, e, it>>[2] = e /\ <<n, e, it>>[3] = it
  OBVIOUS
<1> QED
  BY <1>3, <1>4 DEF InsideStep

LEMMA InsideSteps ==
    ASSUME NEW facts, IsDocument(facts), NEW live
    PROVE  RenderedInside(facts, live) =
               [call \in (0 .. Nesting) \X Entry \X DOMAIN facts |->
                   IF call[1] = 0 THEN Dict(<<>>)
                   ELSE InsideStep(call, facts, live, RenderedInside(facts, live))]
<1> DEFINE Calls(n) == (0 .. n) \X Entry \X DOMAIN facts
           UpTo(made, n) == [call \in Calls(n) |->
               IF call[1] = 0 THEN Dict(<<>>) ELSE InsideStep(call, facts, live, made)]
           Z == {n \in Nat : \E made : made = UpTo(made, n)}
<1> SUFFICES \E made : made = UpTo(made, Nesting)
  BY DEF RenderedInside, InsideStep
<1>1. 0 \in Z
  <2> DEFINE first == [call \in Calls(0) |-> Dict(<<>>)]
  <2>1. first = UpTo(first, 0)
    OBVIOUS
  <2> QED
    BY <2>1
<1>2. ASSUME NEW n \in 1 .. Nesting, n - 1 \in Z
      PROVE  n \in Z
  <2>1. PICK made : made = UpTo(made, n - 1)
    BY <1>2
  <2> DEFINE longer == [call \in Calls(n) |->
                 IF call[1] = n THEN InsideStep(call, facts, live, made) ELSE made[call]]
  <2>2. n \in Nat /\ n # 0
    BY MappingAssumption
  <2>3. ASSUME NEW m \in 0 .. n - 1, NEW e \in Entry, NEW it \in DOMAIN facts
        PROVE  longer[<<m, e, it>>] = made[<<m, e, it>>]
    <3>1. <<m, e, it>> \in Calls(n) /\ <<m, e, it>>[1] # n
      BY <2>2
    <3> QED
      BY <3>1
  <2>4. ASSUME NEW m \in 1 .. n, NEW e \in Entry, NEW it
        PROVE  InsideStep(<<m, e, it>>, facts, live, made) = InsideStep(<<m, e, it>>, facts, live, longer)
    <3>1. m \in Nat /\ m - 1 \in 0 .. n - 1
      BY <2>2
    <3>2. \A x \in Entry : \A at \in DOMAIN facts : made[<<m - 1, x, at>>] = longer[<<m - 1, x, at>>]
      BY <2>3, <3>1
    <3> HIDE DEF longer
    <3> QED
      BY <3>1, <3>2, SameInside
  <2>5. ASSUME NEW m \in 0 .. n, NEW e \in Entry, NEW it \in DOMAIN facts
        PROVE  longer[<<m, e, it>>] = IF m = 0 THEN Dict(<<>>)
                                      ELSE InsideStep(<<m, e, it>>, facts, live, longer)
    <3>1. CASE m = n
      <4>1. <<m, e, it>> \in Calls(n) /\ <<m, e, it>>[1] = n
        BY <3>1
      <4>2. longer[<<m, e, it>>] = InsideStep(<<m, e, it>>, facts, live, made)
        BY <4>1
      <4> HIDE DEF longer
      <4> QED
        BY <2>2, <2>4, <3>1, <4>2
    <3>2. CASE m # n
      <4>1. m \in 0 .. n - 1
        BY <2>2, <3>2
      <4>2. longer[<<m, e, it>>] = made[<<m, e, it>>]
        BY <2>3, <4>1
      <4>3. <<m, e, it>> \in Calls(n - 1) /\ <<m, e, it>>[1] = m
        BY <4>1
      <4>4. made[<<m, e, it>>] = IF m = 0 THEN Dict(<<>>) ELSE InsideStep(<<m, e, it>>, facts, live, made)
        BY <2>1, <4>3
      <4> HIDE DEF longer
      <4> QED
        BY <2>4, <4>2, <4>4
    <3> QED
      BY <3>1, <3>2
  <2>6. DOMAIN longer = Calls(n) /\ longer = [call \in Calls(n) |-> longer[call]]
    OBVIOUS
  <2> HIDE DEF longer
  <2>7. \A call \in Calls(n) : longer[call] =
            IF call[1] = 0 THEN Dict(<<>>) ELSE InsideStep(call, facts, live, longer)
    <3> SUFFICES ASSUME NEW m \in 0 .. n, NEW e \in Entry, NEW it \in DOMAIN facts
                 PROVE  longer[<<m, e, it>>] =
                            IF <<m, e, it>>[1] = 0 THEN Dict(<<>>)
                            ELSE InsideStep(<<m, e, it>>, facts, live, longer)
      OBVIOUS
    <3> QED
      BY <2>5
  <2>8. longer = UpTo(longer, n)
    BY <2>6, <2>7
  <2> QED
    BY <2>2, <2>8
<1>3. \A i \in 1 .. Nesting : i - 1 \in Z => i \in Z
  BY <1>2
<1> HIDE DEF Z
<1>4. \A i \in 0 .. Nesting : i \in Z
  BY <1>1, <1>3, MappingAssumption, Upwards
<1>5. Nesting \in Z
  BY <1>4, MappingAssumption
<1> QED
  BY <1>5 DEF Z

-----------------------------------------------------------------------------
(* The two renders of the engine: offline, and live with the steps' outputs *)

\* Two documents that are the same but for the outputs of the steps.
AlikeFacts(F, G) ==
    /\ IsDocument(F) /\ IsDocument(G)
    /\ \A p \in Path : Head(p) # "steps" =>
        (p \in DOMAIN F <=> p \in DOMAIN G) /\ (p \in DOMAIN F => G[p] = F[p])

ReadsNoSteps(p) == p \in Path /\ Head(p) # "steps"

LEMMA AlikeParts ==
    ASSUME NEW F, NEW G, AlikeFacts(F, G), NEW p, ReadsNoSteps(p)
    PROVE  /\ p \in DOMAIN F <=> p \in DOMAIN G
           /\ Part(F, p) = Part(G, p)
<1>1. p \in Seq(Name) /\ IsDocument(F) /\ IsDocument(G)
  BY DEF ReadsNoSteps, Path, AlikeFacts
<1>2. ASSUME NEW q \in Seq(Name)
      PROVE  /\ p \o q \in DOMAIN F <=> p \o q \in DOMAIN G
             /\ p \o q \in DOMAIN F => F[p \o q] = G[p \o q]
  <2>1. p \o q \in Path /\ Head(p \o q) # "steps"
    BY LongerPath DEF ReadsNoSteps
  <2> QED
    BY <2>1 DEF AlikeFacts
<1>3. /\ DOMAIN Part(F, p) = {q \in Seq(Name) : p \o q \in DOMAIN F}
      /\ Part(F, p) = [q \in DOMAIN Part(F, p) |-> F[p \o q]]
  BY <1>1, PartPaths
<1>4. /\ DOMAIN Part(G, p) = {q \in Seq(Name) : p \o q \in DOMAIN G}
      /\ Part(G, p) = [q \in DOMAIN Part(G, p) |-> G[p \o q]]
  BY <1>1, PartPaths
<1>5. DOMAIN Part(F, p) = DOMAIN Part(G, p)
  BY <1>2, <1>3, <1>4
<1>6. \A q \in DOMAIN Part(F, p) : F[p \o q] = G[p \o q]
  BY <1>2, <1>3
<1>7. Part(F, p) = Part(G, p)
  BY <1>3, <1>4, <1>5, <1>6
<1> QED
  BY <1>7 DEF ReadsNoSteps, AlikeFacts

LEMMA PlaceReadsNoSteps ==
    ASSUME NEW p, ReadsNoSteps(p), NEW item, ReadsNoSteps(item)
    PROVE  ReadsNoSteps(Place(p, item))
<1>1. CASE Head(p) = "item"
  <2>1. Place(p, item) = item \o Tail(p) /\ Tail(p) \in Seq(Name)
    BY <1>1, HeadAndTail DEF Place, ReadsNoSteps
  <2> QED
    BY <2>1, LongerPath DEF ReadsNoSteps
<1>2. CASE Head(p) # "item"
  BY <1>2 DEF Place
<1> QED
  BY <1>1, <1>2

LEMMA AlikeResolve ==
    ASSUME NEW F, NEW G, AlikeFacts(F, G), NEW p, ReadsNoSteps(p), NEW item, ReadsNoSteps(item), NEW l1, NEW l2
    PROVE  Resolve(p, F, item, l1) = Resolve(p, G, item, l2)
<1>1. /\ Place(p, item) \in DOMAIN F <=> Place(p, item) \in DOMAIN G
      /\ Part(F, Place(p, item)) = Part(G, Place(p, item))
  BY PlaceReadsNoSteps, AlikeParts
<1> QED
  BY <1>1 DEF Resolve, ReadsNoSteps

\* An entry that reads no step's output, nor does its pluck.
KeepsOff(e) ==
    /\ e \in Entry
    /\ {"const", "plugin"} \cap e.origins = {} => ReadsNoSteps(e.source)
    /\ e.pluck # <<>> => ReadsNoSteps(e.pluck)

LEMMA AlikeEntry ==
    ASSUME NEW F, NEW G, AlikeFacts(F, G), NEW e, KeepsOff(e), NEW item, ReadsNoSteps(item),
           NEW l1, NEW l2, NEW deep, NEW f, NEW g,
           \A it \in DOMAIN F : ReadsNoSteps(it) => f[<<deep, e, it>>] = g[<<deep, e, it>>]
    PROVE  RenderEntry(e, F, item, l1, deep, f) = RenderEntry(e, G, item, l2, deep, g)
<1>1. IsDocument(F)
  BY DEF AlikeFacts
<1>2. ReadsNoSteps(<<"allocated", e.plugin>>)
  <2>1. e.plugin \in Name /\ "allocated" \in Name
    BY MappingAssumption DEF KeepsOff, IsEntry
  <2> QED
    BY <2>1 DEF ReadsNoSteps, Path
<1>3. CASE {"const", "plugin"} \cap e.origins # {}
  <2>1. Resolve(<<"allocated", e.plugin>>, F, item, l1) = Resolve(<<"allocated", e.plugin>>, G, item, l2)
    BY <1>2, AlikeResolve
  <2> QED
    BY <1>3, <2>1 DEF RenderEntry
<1>4. CASE {"const", "plugin"} \cap e.origins = {}
  <2>1. Resolve(e.source, F, item, l1) = Resolve(e.source, G, item, l2)
    BY <1>4, AlikeResolve DEF KeepsOff
  <2>2. \A it \in ItemsBelow(F, Place(e.source, item)) : it \in DOMAIN F /\ ReadsNoSteps(it)
    <3> SUFFICES ASSUME NEW i \in DOMAIN Digits PROVE ReadsNoSteps(Append(Place(e.source, item), Digits[i]))
      BY DEF ItemsBelow
    <3>1. ReadsNoSteps(Place(e.source, item)) /\ Digits[i] \in Name
      BY <1>4, PlaceReadsNoSteps, NameAssumption DEF KeepsOff, ToSet
    <3> QED
      BY <3>1, HeadTailAppend, AppendProperties DEF ReadsNoSteps, Path
  <2>3. e.pluck # <<>> => \A it \in ItemsBelow(F, Place(e.source, item)) :
            Resolve(e.pluck, F, it, l1) = Resolve(e.pluck, G, it, l2)
    BY <2>2, AlikeResolve DEF KeepsOff
  <2>4. SeesTheSame(e, F, G, item, l1, l2, deep, f, g)
    BY <1>4, <2>1, <2>2, <2>3 DEF SeesTheSame
  <2> QED
    BY <1>1, <2>4, SameEntry
<1> QED
  BY <1>3, <1>4

\* What is made of an item inside an entry is the same, so many levels in.
LEMMA AlikeInside ==
    ASSUME NEW F, NEW G, AlikeFacts(F, G), NEW l1, NEW l2, NEW entries \in Seq(Entry),
           \A e \in Everyone(entries) : KeepsOff(e)
    PROVE  \A n \in 0 .. Nesting : \A e \in Level(entries)[Nesting - n] : \A it \in DOMAIN F :
               ReadsNoSteps(it) =>
                   RenderedInside(F, l1)[<<n, e, it>>] = RenderedInside(G, l2)[<<n, e, it>>]
<1> DEFINE level == Level(entries)
           f == RenderedInside(F, l1)
           g == RenderedInside(G, l2)
           Alike(n) == \A e \in level[Nesting - n] : \A it \in DOMAIN F :
                           ReadsNoSteps(it) => f[<<n, e, it>>] = g[<<n, e, it>>]
           Z == {n \in 0 .. Nesting : Alike(n)}
<1>1. Nesting \in Nat /\ IsDocument(F) /\ IsDocument(G)
  BY MappingAssumption DEF AlikeFacts
<1>2. /\ \A n \in 0 .. Nesting : level[n] \subseteq Everyone(entries)
      /\ \A n \in 0 .. Nesting : \A e \in level[n] : ToSet(e.each) \subseteq level[n + 1]
      /\ Everyone(entries) \subseteq Entry
  BY LevelShape
<1>3. ASSUME NEW n \in 0 .. Nesting, NEW e \in Entry, NEW it \in DOMAIN F, ReadsNoSteps(it)
      PROVE  /\ f[<<n, e, it>>] = IF n = 0 THEN Dict(<<>>) ELSE InsideStep(<<n, e, it>>, F, l1, f)
             /\ g[<<n, e, it>>] = IF n = 0 THEN Dict(<<>>) ELSE InsideStep(<<n, e, it>>, G, l2, g)
  <2>1. it \in DOMAIN G
    BY <1>3 DEF ReadsNoSteps, AlikeFacts
  <2>2. f = [call \in (0 .. Nesting) \X Entry \X DOMAIN F |->
             IF call[1] = 0 THEN Dict(<<>>) ELSE InsideStep(call, F, l1, f)]
    BY <1>1, InsideSteps
  <2>3. g = [call \in (0 .. Nesting) \X Entry \X DOMAIN G |->
             IF call[1] = 0 THEN Dict(<<>>) ELSE InsideStep(call, G, l2, g)]
    BY <1>1, InsideSteps
  <2> HIDE DEF f, g
  <2>4. <<n, e, it>>[1] = n
    OBVIOUS
  <2> QED
    BY <2>1, <2>2, <2>3, <2>4
<1> HIDE DEF f, g, level
<1>4. Alike(0)
  <2> SUFFICES ASSUME NEW e \in level[Nesting - 0], NEW it \in DOMAIN F, ReadsNoSteps(it)
               PROVE  f[<<0, e, it>>] = g[<<0, e, it>>]
    OBVIOUS
  <2>1. 0 \in 0 .. Nesting /\ Nesting - 0 \in 0 .. Nesting /\ e \in Entry
    BY <1>1, <1>2
  <2> QED
    BY <1>3, <2>1
<1>5. ASSUME NEW n \in 1 .. Nesting, Alike(n - 1)
      PROVE  Alike(n)
  <2> SUFFICES ASSUME NEW e \in level[Nesting - n], NEW it \in DOMAIN F, ReadsNoSteps(it)
               PROVE  f[<<n, e, it>>] = g[<<n, e, it>>]
    OBVIOUS
  <2>1. /\ n \in 0 .. Nesting /\ Nesting - n \in 0 .. Nesting /\ (Nesting - n) + 1 = Nesting - (n - 1)
        /\ Nesting - (n - 1) \in 0 .. Nesting /\ n # 0
    BY <1>1
  <2>2. e \in Entry /\ ToSet(e.each) \subseteq level[Nesting - (n - 1)]
    BY <1>2, <2>1
  <2>3. ASSUME NEW i \in DOMAIN e.each
        PROVE  RenderEntry(e.each[i], F, it, l1, n - 1, f) = RenderEntry(e.each[i], G, it, l2, n - 1, g)
    <3> DEFINE x == e.each[i]
               deep == n - 1
    <3>1. x \in level[Nesting - deep]
      BY <2>2 DEF ToSet
    <3>2. \A at \in DOMAIN F : ReadsNoSteps(at) => f[<<deep, x, at>>] = g[<<deep, x, at>>]
      BY <1>5, <3>1
    <3>3. KeepsOff(x)
      BY <1>2, <2>1, <3>1
    <3> HIDE DEF x, deep
    <3>4. RenderEntry(x, F, it, l1, deep, f) = RenderEntry(x, G, it, l2, deep, g)
      BY AlikeFacts(F, G), ReadsNoSteps(it), <3>2, <3>3, AlikeEntry
    <3> QED
      BY <3>4 DEF x, deep
  <2>4. RenderEntries(e.each, F, it, l1, n - 1, f) = RenderEntries(e.each, G, it, l2, n - 1, g)
    BY <2>3 DEF RenderEntries
  <2>5. InsideStep(<<n, e, it>>, F, l1, f) = InsideStep(<<n, e, it>>, G, l2, g)
    <3>1. <<n, e, it>>[1] = n /\ <<n, e, it>>[2] = e /\ <<n, e, it>>[3] = it
      OBVIOUS
    <3> QED
      BY <2>4, <3>1 DEF InsideStep
  <2> QED
    BY <1>3, <2>1, <2>2, <2>5
<1>6. 0 \in Z /\ \A n \in 1 .. Nesting : n - 1 \in Z => n \in Z
  BY <1>1, <1>4, <1>5
<1> HIDE DEF Alike, Z
<1>7. \A n \in 0 .. Nesting : n \in Z
  BY <1>1, <1>6, Upwards
<1> QED
  BY <1>7 DEF Z, Alike, f, g, level

LEMMA AlikeTop ==
    ASSUME NEW F, NEW G, AlikeFacts(F, G), NEW l1, NEW l2, NEW entries \in Seq(Entry),
           \A e \in Everyone(entries) : KeepsOff(e)
    PROVE  RenderTop(entries, F, l1) = RenderTop(entries, G, l2)
<1> DEFINE f == RenderedInside(F, l1)
           g == RenderedInside(G, l2)
<1>1. \A e \in ToSet(entries) : \A it \in DOMAIN F :
          ReadsNoSteps(it) => f[<<Nesting, e, it>>] = g[<<Nesting, e, it>>]
  <2>1. Nesting \in 0 .. Nesting /\ Nesting - Nesting = 0
    BY MappingAssumption
  <2>2. Level(entries)[0] = ToSet(entries)
    BY LevelShape
  <2>3. \A n \in 0 .. Nesting : \A e \in Level(entries)[Nesting - n] : \A it \in DOMAIN F :
            ReadsNoSteps(it) => f[<<n, e, it>>] = g[<<n, e, it>>]
    BY AlikeInside
  <2> HIDE DEF f, g
  <2> QED
    BY <2>1, <2>2, <2>3
<1>2. ReadsNoSteps(NoItem)
  BY MappingAssumption DEF NoItem, ReadsNoSteps, Path
<1> HIDE DEF f, g
<1>3. ASSUME NEW i \in DOMAIN entries
      PROVE  RenderEntry(entries[i], F, NoItem, l1, Nesting, f)
                 = RenderEntry(entries[i], G, NoItem, l2, Nesting, g)
  <2> DEFINE x == entries[i]
  <2>1. x \in ToSet(entries)
    BY DEF ToSet
  <2>2. KeepsOff(x)
    BY <2>1 DEF Everyone
  <2> HIDE DEF x
  <2>3. \A it \in DOMAIN F : ReadsNoSteps(it) => f[<<Nesting, x, it>>] = g[<<Nesting, x, it>>]
    BY <1>1, <2>1
  <2>4. RenderEntry(x, F, NoItem, l1, Nesting, f) = RenderEntry(x, G, NoItem, l2, Nesting, g)
    BY AlikeFacts(F, G), <1>2, <2>2, <2>3, AlikeEntry
  <2> QED
    BY <2>4 DEF x
<1> QED
  BY <1>3 DEF RenderTop, RenderEntries, f, g

LEMMA AlikeBody ==
    ASSUME NEW F, NEW G, AlikeFacts(F, G), NEW l1, NEW l2, NEW r, r.mapping \in Seq(Entry),
           \A e \in Everyone(r.mapping) : KeepsOff(e)
    PROVE  RenderedBody(r, F, l1) = RenderedBody(r, G, l2)
<1>1. RenderTop(r.mapping, F, l1) = RenderTop(r.mapping, G, l2)
  BY AlikeTop
<1> QED
  BY <1>1 DEF RenderedBody, RenderXml, RenderCsv, RenderMapping

\* A step none of whose paths reads another's output.
StepKeepsOff(d, s) ==
    /\ ReadsNoSteps(s.request.url) /\ s.request.mapping \in Seq(Entry)
    /\ d.auth.scheme \in {"query_key", "header_key"} => ReadsNoSteps(d.auth.secret)
    /\ \A i \in DOMAIN s.request.filename : ReadsNoSteps(s.request.filename[i])
    /\ \A e \in Everyone(s.request.mapping) : KeepsOff(e)

\* The gate and the golden replay render a step once, offline, from the facts
\* alone; the executor renders it again, live, after other steps have answered
\* (render.py, render_step with for_execution).  A step that reads no step's output
\* comes out the same both times: of the facts, whatever "steps" holds, and in
\* whichever mode.
THEOREM SameOfflineAndLive ==
    ASSUME NEW F, NEW G, AlikeFacts(F, G), NEW l1, NEW l2, NEW d, NEW s, StepKeepsOff(d, s)
    PROVE  RenderStep(d, s, F, l1) = RenderStep(d, s, G, l2)
<1>1. ReadsNoSteps(NoItem)
  BY MappingAssumption DEF NoItem, ReadsNoSteps, Path
<1>2. \A p : ReadsNoSteps(p) => Resolve(p, F, NoItem, l1) = Resolve(p, G, NoItem, l2)
  BY <1>1, AlikeResolve
<1>3. Resolve(s.request.url, F, NoItem, l1) = Resolve(s.request.url, G, NoItem, l2)
  BY <1>2 DEF StepKeepsOff
<1>4. RenderedSecret(d, s, F, l1) = RenderedSecret(d, s, G, l2)
  BY <1>2 DEF StepKeepsOff, RenderedSecret
<1>5. RenderedName(s, F, l1) = RenderedName(s, G, l2)
  BY <1>2 DEF StepKeepsOff, RenderedName
<1>6. RenderedBody(s.request, F, l1) = RenderedBody(s.request, G, l2)
  BY AlikeBody DEF StepKeepsOff
<1> QED
  BY <1>3, <1>4, <1>5, <1>6 DEF RenderStep

-----------------------------------------------------------------------------
(* What a render fails at, when every path it reads is provided *)

\* The roots that hold what an order may lack.
OrderRoots == {"warehouse", "shipment", "manifest", "item", "steps", "allocated"}

\* Neither a config key nor a target, and no path from another root.
FairWhy(why) ==
    /\ why # <<>> => Head(why) \notin {"config", "target"}
    /\ Len(why) > 1 => Head(why) \in OrderRoots
FairDoc(doc) == IsDocument(doc) /\ (IsFailure(doc) => FairWhy(Root(doc).at))

LEMMA FairPath ==
    ASSUME NEW p \in Path, Head(p) \in OrderRoots
    PROVE  FairWhy(p)
BY DEF FairWhy, OrderRoots

LEMMA FairWord ==
    ASSUME NEW word, word # "config", word # "target"
    PROVE  FairDoc(Failure(<<word>>)) /\ FairWhy(<<word>>)
<1>1. <<word>> # <<>> /\ Head(<<word>>) = word /\ Len(<<word>>) = 1
  OBVIOUS
<1>2. FairWhy(<<word>>)
  BY <1>1 DEF FairWhy
<1> QED
  BY <1>2, FailureFails DEF FairDoc

LEMMA FairLeaf ==
    ASSUME NEW node, node.kind # "error"
    PROVE  FairDoc(Leaf(node)) /\ ~IsFailure(Leaf(node))
BY LeafDocument DEF FairDoc, IsFailure, Kind

LEMMA FairWords ==
    /\ \A words : FairDoc(Text(words)) /\ ~IsFailure(Text(words))
    /\ FairDoc(Token) /\ FairDoc(Missing) /\ FairDoc(Null)
BY FairLeaf DEF Text, Token, Missing, Null

\* A path that leads to a part of an order, or to a config key that is there.
Provided(p, facts) ==
    p \in Path /\ (Head(p) \in OrderRoots \/ (Head(p) = "config" /\ p \in DOMAIN facts))

LEMMA FairResolve ==
    ASSUME NEW facts, IsDocument(facts), IsPlain(facts), NEW p, Provided(p, facts), NEW item, NEW live
    PROVE  FairDoc(Resolve(p, facts, item, live))
<1>1. CASE Place(p, item) \in DOMAIN facts
  <2> DEFINE part == Part(facts, Place(p, item))
  <2>1. IsDocument(part) /\ Kind(part) = facts[Place(p, item)].kind
    BY <1>1, PartDocument
  <2> HIDE DEF part
  <2>2. ~IsFailure(part)
    BY <1>1, <2>1 DEF IsPlain, IsFailure
  <2>3. Resolve(p, facts, item, live) = part
    BY <1>1 DEF Resolve, part
  <2> QED
    BY <2>1, <2>2, <2>3 DEF FairDoc
<1>2. CASE Place(p, item) \notin DOMAIN facts
  <2>1. Head(p) \in OrderRoots /\ p \in Path
    BY <1>2 DEF Provided, Place, OrderRoots
  <2>2. FairDoc(Failure(p))
    BY <2>1, FairPath, FailureFails DEF FairDoc
  <2> QED
    BY <1>2, <2>2, FairWords DEF Resolve
<1> QED
  BY <1>1, <1>2

LEMMA FairTransformed ==
    ASSUME NEW name, NEW v, FairDoc(v)
    PROVE  FairDoc(Transformed(name, v))
<1>1. FairDoc(ListOf(<<Text("part")>>))
  <2> DEFINE items == <<Text("part")>>
  <2>1. DOMAIN items = {1} /\ items[1] = Text("part") /\ DOMAIN items \subseteq DOMAIN Digits
    BY DEF Digits
  <2>2. \A i \in DOMAIN items : IsDocument(items[i])
    BY <2>1, FairWords DEF FairDoc
  <2> HIDE DEF items
  <2>3. IsDocument(ListOf(items)) /\ Kind(ListOf(items)) = "list"
    BY <2>1, <2>2, ListDocument
  <2> QED
    BY <2>3 DEF FairDoc, IsFailure, items
<1>2. FairDoc(Failure(<<"join">>)) /\ FairDoc(Failure(<<"lookup">>))
  BY FairWord
<1> QED
  BY <1>1, <1>2, FairWords DEF Transformed

LEMMA FairListed ==
    ASSUME NEW made, DOMAIN made \subseteq DOMAIN Digits, \A i \in DOMAIN made : FairDoc(made[i])
    PROVE  FairDoc(Listed(made))
<1>1. DOMAIN made \subseteq Nat
  BY DEF Digits
<1>2. CASE FirstFailure(made) # Missing
  <2>1. \E i \in DOMAIN made : FirstFailure(made) = made[i]
    BY <1>1, <1>2, FirstOfThem
  <2> QED
    BY <1>2, <2>1 DEF Listed
<1>3. CASE FirstFailure(made) = Missing
  <2>1. IsDocument(ListOf(made)) /\ Kind(ListOf(made)) = "list"
    BY ListDocument DEF FairDoc
  <2> QED
    BY <1>3, <2>1 DEF Listed, FairDoc, IsFailure
<1> QED
  BY <1>2, <1>3

\* An entry whose paths are provided and that the schema takes.
FairEntry(e, facts) ==
    /\ e \in Entry
    /\ {"const", "plugin"} \cap e.origins = {} => Provided(e.source, facts)
    /\ e.pluck # <<>> => Provided(e.pluck, facts)
    /\ TargetsAgree(e.each)

LEMMA FairRender ==
    ASSUME NEW e, NEW facts, IsDocument(facts), IsPlain(facts), FairEntry(e, facts),
           NEW item, NEW live, NEW deep, NEW inside,
           \A it \in DOMAIN facts : FairDoc(inside[<<deep, e, it>>])
    PROVE  FairDoc(RenderEntry(e, facts, item, live, deep, inside))
<1>1. CASE {"const", "plugin"} \cap e.origins # {}
  <2>1. Provided(<<"allocated", e.plugin>>, facts)
    <3>1. e.plugin \in Name /\ "allocated" \in Name
      BY MappingAssumption DEF FairEntry, IsEntry
    <3> QED
      BY <3>1 DEF Provided, Path, OrderRoots
  <2>2. FairDoc(Resolve(<<"allocated", e.plugin>>, facts, item, live))
    BY <2>1, FairResolve
  <2> QED
    BY <1>1, <2>2, FairWords DEF RenderEntry
<1>2. CASE {"const", "plugin"} \cap e.origins = {}
  <2> DEFINE v == Resolve(e.source, facts, item, live)
             items == ItemPlaces(e, v, item)
             made == [i \in DOMAIN items |-> IF e.each # <<>> THEN inside[<<deep, e, items[i]>>]
                                             ELSE Plucked(Resolve(e.pluck, facts, items[i], live))]
  <2>1. FairDoc(v)
    BY <1>2, FairResolve DEF FairEntry
  <2>2. CASE IsFailure(v) \/ v = Token \/ (e.each = <<>> /\ e.pluck = <<>>) \/ Kind(v) # "list"
    <3>1. FairDoc(Transformed(e.transform, v)) /\ FairDoc(Failure(<<"collection">>))
      BY <2>1, FairTransformed, FairWord
    <3> HIDE DEF v
    <3>2. FairDoc(Shaped(e, v, facts, item, live, deep, inside))
      BY <2>1, <2>2, <3>1, FairWords DEF Shaped
    <3> QED
      BY <1>2, <3>2 DEF RenderEntry, v
  <2>3. CASE ~IsFailure(v) /\ v # Token /\ ~(e.each = <<>> /\ e.pluck = <<>>) /\ Kind(v) = "list"
    <3>1. Place(e.source, item) \in DOMAIN facts /\ v = Part(facts, Place(e.source, item))
      BY <2>3, ResolvesToPart
    <3>2. /\ DOMAIN items \subseteq DOMAIN Digits
          /\ \A i \in DOMAIN items : items[i] \in DOMAIN facts
      <4>1. DOMAIN items \subseteq DOMAIN Digits
        BY <3>1, ItemsAreBelow
      <4>2. \A i \in DOMAIN items : items[i] \in ItemsBelow(facts, Place(e.source, item))
        BY <3>1, ItemsAreBelow
      <4> HIDE DEF v, items
      <4> QED
        BY <4>1, <4>2 DEF ItemsBelow
    <3> HIDE DEF v, items
    <3>3. ASSUME NEW i \in DOMAIN items PROVE FairDoc(made[i])
      <4>1. CASE e.each # <<>>
        BY <3>2, <4>1
      <4>2. CASE e.each = <<>>
        <5>1. FairDoc(Resolve(e.pluck, facts, items[i], live))
          BY <2>3, <4>2, FairResolve DEF FairEntry
        <5>2. FairDoc(Failure(<<"pluck">>))
          BY FairWord
        <5>3. FairDoc(Plucked(Resolve(e.pluck, facts, items[i], live)))
          BY <5>1, <5>2 DEF Plucked
        <5> QED
          BY <4>2, <5>3
      <4> QED
        BY <4>1, <4>2
    <3>4. DOMAIN made = DOMAIN items
      OBVIOUS
    <3> HIDE DEF made
    <3>5. FairDoc(Listed(made))
      BY <3>2, <3>3, <3>4, FairListed
    <3>6. Collected(e, v, facts, item, live, deep, inside) = Listed(made)
      BY DEF Collected, made, items
    <3>7. FairDoc(Shaped(e, v, facts, item, live, deep, inside))
      BY <2>3, <3>5, <3>6 DEF Shaped
    <3> QED
      BY <1>2, <3>7 DEF RenderEntry, v
  <2> QED
    BY <2>2, <2>3
<1> QED
  BY <1>1, <1>2

\* Entries whose targets agree fill a body that fails at one of the values, if at all.
LEMMA FairFill ==
    ASSUME NEW entries \in Seq(Entry), TargetsAgree(entries), NEW values,
           \A i \in 1 .. Len(entries) : FairDoc(values[i])
    PROVE  FairDoc(Fill(Targets(entries), values))
<1> DEFINE targets == Targets(entries)
           nulls == [i \in DOMAIN entries |-> Null]
           body == Fill(targets, values)
<1>1. \A i \in 1 .. Len(entries) : entries[i].target \in Path
  <2> SUFFICES ASSUME NEW i \in 1 .. Len(entries) PROVE entries[i].target \in Path
    OBVIOUS
  <2>1. entries[i] \in Entry
    OBVIOUS
  <2> QED
    BY <2>1, MappingAssumption DEF IsEntry
<1>2. targets \in Seq(Path) /\ Len(targets) = Len(entries)
  <2>1. targets = [i \in 1 .. Len(entries) |-> entries[i].target] /\ Len(entries) \in Nat
    BY DEF Targets
  <2> HIDE DEF targets
  <2>2. targets \in [1 .. Len(entries) -> Path]
    BY <1>1, <2>1
  <2> QED
    BY <2>1, <2>2, SeqDef, LenProperties
<1>3. \A i \in 1 .. Len(targets) : IsDocument(values[i]) /\ nulls[i] = Null
  BY <1>2 DEF FairDoc
<1>4. ~IsFailure(Fill(targets, nulls))
  BY DEF TargetsAgree
<1> HIDE DEF targets, nulls
<1>5. /\ IsDocument(body)
      /\ IsFailure(body) => \E i \in 1 .. Len(targets) : body = values[i]
  BY <1>2, <1>3, <1>4, DryRunIsSound
<1> HIDE DEF body
<1>6. FairDoc(body)
  BY <1>2, <1>5 DEF FairDoc
<1> QED
  BY <1>6 DEF body, targets

LEMMA FairInside ==
    ASSUME NEW facts, IsDocument(facts), IsPlain(facts), NEW live, NEW entries \in Seq(Entry),
           \A e \in Everyone(entries) : FairEntry(e, facts)
    PROVE  \A n \in 0 .. Nesting : \A e \in Level(entries)[Nesting - n] : \A it \in DOMAIN facts :
               FairDoc(RenderedInside(facts, live)[<<n, e, it>>])
<1> DEFINE level == Level(entries)
           f == RenderedInside(facts, live)
           AllFair(n) == \A e \in level[Nesting - n] : \A it \in DOMAIN facts : FairDoc(f[<<n, e, it>>])
           Z == {n \in 0 .. Nesting : AllFair(n)}
<1>1. Nesting \in Nat
  BY MappingAssumption
<1>2. /\ \A n \in 0 .. Nesting : level[n] \subseteq Everyone(entries)
      /\ \A n \in 0 .. Nesting : \A e \in level[n] : ToSet(e.each) \subseteq level[n + 1]
      /\ Everyone(entries) \subseteq Entry
  BY LevelShape
<1>3. ASSUME NEW n \in 0 .. Nesting, NEW e \in Entry, NEW it \in DOMAIN facts
      PROVE  f[<<n, e, it>>] = IF n = 0 THEN Dict(<<>>) ELSE InsideStep(<<n, e, it>>, facts, live, f)
  <2>1. f = [call \in (0 .. Nesting) \X Entry \X DOMAIN facts |->
             IF call[1] = 0 THEN Dict(<<>>) ELSE InsideStep(call, facts, live, f)]
    BY InsideSteps
  <2> HIDE DEF f
  <2>2. <<n, e, it>>[1] = n
    OBVIOUS
  <2> QED
    BY <2>1, <2>2
<1> HIDE DEF f, level
<1>4. AllFair(0)
  <2> SUFFICES ASSUME NEW e \in level[Nesting - 0], NEW it \in DOMAIN facts
               PROVE  FairDoc(f[<<0, e, it>>])
    OBVIOUS
  <2>1. 0 \in 0 .. Nesting /\ Nesting - 0 \in 0 .. Nesting /\ e \in Entry
    BY <1>1, <1>2
  <2>2. f[<<0, e, it>>] = Dict(<<>>)
    BY <1>3, <2>1
  <2> QED
    BY <2>2, EmptyDict DEF FairDoc, IsFailure
<1>5. ASSUME NEW n \in 1 .. Nesting, AllFair(n - 1)
      PROVE  AllFair(n)
  <2> SUFFICES ASSUME NEW e \in level[Nesting - n], NEW it \in DOMAIN facts
               PROVE  FairDoc(f[<<n, e, it>>])
    OBVIOUS
  <2>1. /\ n \in 0 .. Nesting /\ Nesting - n \in 0 .. Nesting /\ (Nesting - n) + 1 = Nesting - (n - 1)
        /\ Nesting - (n - 1) \in 0 .. Nesting /\ n # 0
    BY <1>1
  <2>2. e \in Entry /\ ToSet(e.each) \subseteq level[Nesting - (n - 1)] /\ FairEntry(e, facts)
    BY <1>2, <2>1
  <2> DEFINE made == RenderEntries(e.each, facts, it, live, n - 1, f)
  <2>3. e.each \in Seq(Entry)
    BY <2>2, MappingAssumption DEF IsEntry
  <2>4. ASSUME NEW i \in 1 .. Len(e.each)
        PROVE  FairDoc(made[i])
    <3> DEFINE x == e.each[i]
               deep == n - 1
    <3>1. x \in level[Nesting - deep]
      BY <2>2, <2>3 DEF ToSet
    <3>2. \A at \in DOMAIN facts : FairDoc(f[<<deep, x, at>>])
      BY <1>5, <3>1
    <3>3. FairEntry(x, facts)
      BY <1>2, <2>1, <3>1
    <3>4. made[i] = RenderEntry(x, facts, it, live, deep, f)
      BY <2>3 DEF RenderEntries
    <3> HIDE DEF x, deep, made
    <3>5. FairDoc(RenderEntry(x, facts, it, live, deep, f))
      BY IsDocument(facts), IsPlain(facts), <3>2, <3>3, FairRender
    <3> QED
      BY <3>4, <3>5
  <2>5. FairDoc(Fill(Targets(e.each), made))
    <3> HIDE DEF made
    <3> QED
      BY <2>2, <2>3, <2>4, FairFill DEF FairEntry
  <2>6. InsideStep(<<n, e, it>>, facts, live, f) = Fill(Targets(e.each), made)
    <3>1. <<n, e, it>>[1] = n /\ <<n, e, it>>[2] = e /\ <<n, e, it>>[3] = it
      OBVIOUS
    <3> QED
      BY <3>1 DEF InsideStep
  <2> HIDE DEF made
  <2> QED
    BY <1>3, <2>1, <2>2, <2>5, <2>6
<1>6. 0 \in Z /\ \A n \in 1 .. Nesting : n - 1 \in Z => n \in Z
  BY <1>1, <1>4, <1>5
<1> HIDE DEF AllFair, Z
<1>7. \A n \in 0 .. Nesting : n \in Z
  BY <1>1, <1>6, Upwards
<1> QED
  BY <1>7 DEF Z, AllFair, f, level

LEMMA FairTop ==
    ASSUME NEW facts, IsDocument(facts), IsPlain(facts), NEW live, NEW entries \in Seq(Entry),
           \A e \in Everyone(entries) : FairEntry(e, facts)
    PROVE  /\ DOMAIN RenderTop(entries, facts, live) = 1 .. Len(entries) /\ Len(entries) \in Nat
           /\ \A i \in 1 .. Len(entries) : FairDoc(RenderTop(entries, facts, live)[i])
<1> DEFINE f == RenderedInside(facts, live)
<1>1. \A e \in ToSet(entries) : \A it \in DOMAIN facts : FairDoc(f[<<Nesting, e, it>>])
  <2>1. Nesting \in 0 .. Nesting /\ Nesting - Nesting = 0
    BY MappingAssumption
  <2>2. Level(entries)[0] = ToSet(entries)
    BY LevelShape
  <2>3. \A n \in 0 .. Nesting : \A e \in Level(entries)[Nesting - n] : \A it \in DOMAIN facts :
            FairDoc(f[<<n, e, it>>])
    BY FairInside
  <2> HIDE DEF f
  <2> QED
    BY <2>1, <2>2, <2>3
<1>2. RenderTop(entries, facts, live) =
          [i \in 1 .. Len(entries) |-> RenderEntry(entries[i], facts, NoItem, live, Nesting, f)]
  BY DEF RenderTop, RenderEntries
<1> HIDE DEF f
<1>3. ASSUME NEW i \in 1 .. Len(entries)
      PROVE  FairDoc(RenderEntry(entries[i], facts, NoItem, live, Nesting, f))
  <2> DEFINE x == entries[i]
  <2>1. x \in ToSet(entries)
    BY DEF ToSet
  <2>2. FairEntry(x, facts)
    BY <2>1 DEF Everyone
  <2> HIDE DEF x
  <2>3. FairDoc(RenderEntry(x, facts, NoItem, live, Nesting, f))
    BY IsDocument(facts), IsPlain(facts), <1>1, <2>1, <2>2, FairRender
  <2> QED
    BY <2>3 DEF x
<1> QED
  BY <1>2, <1>3

LEMMA FairBody ==
    ASSUME NEW facts, IsDocument(facts), IsPlain(facts), NEW live, NEW r, r.mapping \in Seq(Entry),
           TargetsAgree(r.mapping), \A e \in Everyone(r.mapping) : FairEntry(e, facts)
    PROVE  FairDoc(RenderedBody(r, facts, live))
<1> DEFINE made == RenderTop(r.mapping, facts, live)
           n == Len(r.mapping)
<1>1. DOMAIN made = 1 .. n /\ n \in Nat /\ \A i \in 1 .. n : FairDoc(made[i])
  BY FairTop
<1>2. FairDoc(RenderMapping(r.mapping, facts, live))
  <2> HIDE DEF made
  <2>1. FairDoc(Fill(Targets(r.mapping), made))
    BY <1>1, FairFill
  <2> QED
    BY <2>1 DEF RenderMapping, made
<1>3. FairDoc(RenderXml(r.mapping, facts, live))
  <2>1. FairDoc(Failure(<<"attribute">>))
    BY FairWord
  <2> QED
    BY <1>2, <2>1 DEF RenderXml
<1>4. FairDoc(RenderCsv(r.mapping, facts, live))
  <2> DEFINE cells == [i \in DOMAIN made |-> Column(made[i])]
  <2>1. FairDoc(Failure(<<"column">>))
    BY FairWord
  <2>2. RenderCsv(r.mapping, facts, live) = CsvRow(cells)
    BY DEF RenderCsv
  <2> HIDE DEF made, n
  <2>3. DOMAIN cells = 1 .. n /\ \A i \in DOMAIN cells : FairDoc(cells[i])
    BY <1>1, <2>1 DEF Column
  <2> HIDE DEF cells
  <2>4. DOMAIN cells \subseteq Nat
    BY <1>1, <2>3
  <2>5. CASE FirstFailure(cells) # Missing
    <3>1. \E i \in DOMAIN cells : FirstFailure(cells) = cells[i]
      BY <2>4, <2>5, FirstOfThem
    <3> QED
      BY <2>2, <2>3, <2>5, <3>1 DEF CsvRow
  <2>6. CASE FirstFailure(cells) = Missing
    <3>1. FairDoc(Leaf([kind |-> "row", cells |-> cells]))
      BY FairLeaf
    <3> QED
      BY <2>2, <2>6, <3>1 DEF CsvRow
  <2> QED
    BY <2>5, <2>6
<1> QED
  BY <1>2, <1>3, <1>4 DEF RenderedBody

\* A step all of whose paths are provided, and whose mapping the schema takes.
FairStep(d, s, facts) ==
    /\ Provided(s.request.url, facts)
    /\ d.auth.scheme \in {"query_key", "header_key"} => Provided(d.auth.secret, facts)
    /\ s.request.filename \in Seq(Path)
    /\ \A i \in DOMAIN s.request.filename : Provided(s.request.filename[i], facts)
    /\ s.request.mapping \in Seq(Entry) /\ TargetsAgree(s.request.mapping)
    /\ \A e \in Everyone(s.request.mapping) : FairEntry(e, facts)

LEMMA FairRequest ==
    ASSUME NEW facts, IsDocument(facts), IsPlain(facts), NEW live, NEW d, NEW s, FairStep(d, s, facts)
    PROVE  FairDoc(RenderStep(d, s, facts, live))
<1> DEFINE url == <<Resolve(s.request.url, facts, NoItem, live)>>
           secret == RenderedSecret(d, s, facts, live)
           names == RenderedName(s, facts, live)
           body == <<RenderedBody(s.request, facts, live)>>
           D == ToSet(url) \union ToSet(secret) \union ToSet(names) \union ToSet(body)
           parts == (url \o secret) \o body \o names
<1>1. \A p : Provided(p, facts) => FairDoc(Resolve(p, facts, NoItem, live))
  BY FairResolve
<1>2. url \in Seq(ToSet(url)) /\ \A x \in ToSet(url) : FairDoc(x)
  BY <1>1 DEF ToSet, FairStep
<1>3. secret \in Seq(ToSet(secret)) /\ \A x \in ToSet(secret) : FairDoc(x)
  <2> DEFINE key == Resolve(d.auth.secret, facts, NoItem, live)
  <2>1. CASE s.transport = "http" /\ d.auth.scheme \in {"query_key", "header_key"}
    <3>1. FairDoc(key)
      BY <1>1, <2>1 DEF FairStep
    <3>2. secret = <<key>>
      BY <2>1 DEF RenderedSecret
    <3> HIDE DEF key, secret
    <3> QED
      BY <3>1, <3>2 DEF ToSet
  <2>2. CASE ~(s.transport = "http" /\ d.auth.scheme \in {"query_key", "header_key"})
    <3>1. secret = <<>>
      BY <2>2 DEF RenderedSecret
    <3> HIDE DEF secret
    <3> QED
      BY <3>1 DEF ToSet
  <2> QED
    BY <2>1, <2>2
<1>4. names \in Seq(ToSet(names)) /\ \A x \in ToSet(names) : FairDoc(x)
  <2>1. /\ names = [i \in 1 .. Len(s.request.filename) |->
                        Resolve(s.request.filename[i], facts, NoItem, live)]
        /\ Len(s.request.filename) \in Nat
    BY DEF RenderedName, FairStep
  <2>2. \A i \in 1 .. Len(s.request.filename) : FairDoc(names[i])
    BY <1>1, <2>1 DEF FairStep
  <2> HIDE DEF names
  <2> DEFINE n == Len(s.request.filename)
             S == ToSet(names)
  <2>3. names \in [1 .. n -> S]
    BY <2>1 DEF ToSet
  <2>4. names \in Seq(S)
    <3>1. n \in Nat
      BY <2>1
    <3> HIDE DEF n, S
    <3> QED
      BY <2>3, <3>1
  <2> QED
    BY <2>1, <2>2, <2>4 DEF ToSet
<1>5. body \in Seq(ToSet(body)) /\ \A x \in ToSet(body) : FairDoc(x)
  <2>1. FairDoc(RenderedBody(s.request, facts, live))
    BY FairBody DEF FairStep
  <2> QED
    BY <2>1 DEF ToSet
<1> DEFINE content == RenderedBody(s.request, facts, live)
<1>6. /\ RenderStep(d, s, facts, live) = Rendered(s, url \o secret, content, names)
      /\ parts = (url \o secret) \o <<content>> \o names
  BY DEF RenderStep
<1> HIDE DEF content
<1> HIDE DEF url, secret, names, body
<1>7. url \in Seq(D) /\ secret \in Seq(D) /\ names \in Seq(D) /\ body \in Seq(D)
  BY <1>2, <1>3, <1>4, <1>5, SeqMonotonic
<1>8. \A x \in D : FairDoc(x)
  BY <1>2, <1>3, <1>4, <1>5
<1> HIDE DEF D
<1>9. parts \in Seq(D)
  BY <1>7, ConcatProperties
<1> HIDE DEF parts
<1>10. DOMAIN parts \subseteq Nat /\ \A i \in DOMAIN parts : FairDoc(parts[i])
  BY <1>8, <1>9
<1>11. CASE FirstFailure(parts) # Missing
  <2>1. \E i \in DOMAIN parts : FirstFailure(parts) = parts[i]
    BY <1>10, <1>11, FirstOfThem
  <2> QED
    BY <1>6, <1>10, <1>11, <2>1 DEF Rendered
<1>12. CASE FirstFailure(parts) = Missing
  <2>1. \A node : node.kind # "error" => FairDoc(Leaf(node))
    BY FairLeaf
  <2> QED
    BY <1>6, <1>12, <2>1 DEF Rendered
<1> QED
  BY <1>11, <1>12
=============================================================================
