------------------------------ MODULE Documents ------------------------------
(***************************************************************************)
(* Documents: what an order's facts, a carrier's config and answers and a  *)
(* request body are.  A document is a function from the paths in it to the *)
(* node at each: an object, a list, a scalar (with what it says) or a      *)
(* null; the empty path leads to the document itself.  What does not       *)
(* resolve is a document, too, of one node: an error (with the path), or a *)
(* token for what the carrier has not answered yet.                        *)
(*                                                                         *)
(* A dotted path is the sequence of its segments.  Names are legal and     *)
(* unequal where they matter; what an element is called is left out.       *)
(***************************************************************************)
EXTENDS Integers, Sequences, FiniteSets, TLC, SequencesExt

CONSTANT Name  \* what a part of a document may be called

\* The segments that are positions in a list, in order (bound on a list's length).
Digits == <<"0", "1", "2">>
IsPosition(segment) == segment \in ToSet(Digits)

Path == Seq(Name) \ {<<>>}

ASSUME NameAssumption == ToSet(Digits) \subseteq Name

Leaf(node)   == [path \in {<<>>} |-> node]
Text(words)  == Leaf([kind |-> "scalar", says |-> words])
Null         == Leaf([kind |-> "null"])
Token        == Leaf([kind |-> "token"])
Missing      == Leaf([kind |-> "missing"])
Failure(why) == Leaf([kind |-> "error", at |-> why])

\* A node over its parts.
Tree(kind, parts) ==
    [path \in {<<>>} \union UNION {{<<name>> \o q : q \in DOMAIN parts[name]} : name \in DOMAIN parts} |->
        IF path = <<>> THEN [kind |-> kind] ELSE parts[Head(path)][Tail(path)]]
Dict(fields)  == Tree("dict", fields)
ListOf(items) == Tree("list", [segment \in {Digits[i] : i \in DOMAIN items} |->
                                  items[CHOOSE i \in DOMAIN items : Digits[i] = segment]])

Root(doc)       == doc[<<>>]
Kind(doc)       == Root(doc).kind
IsFailure(doc)  == Kind(doc) = "error"
IsCompound(doc) == Kind(doc) \in {"list", "dict"}

IsDocument(doc) == <<>> \in DOMAIN doc /\ DOMAIN doc \subseteq Seq(Name)
IsPlain(doc)    == \A path \in DOMAIN doc : doc[path].kind \in {"scalar", "null", "list", "dict"}

\* What a path leads to, with all that is below it.
After(path, prefix) == SubSeq(path, Len(prefix) + 1, Len(path))
Part(doc, path) ==
    [q \in {After(p, path) : p \in {p \in DOMAIN doc : IsPrefix(path, p)}} |-> doc[path \o q]]

\* An object with one more part, or another one of that name.
With(doc, name, part) ==
    [path \in {p \in DOMAIN doc : p = <<>> \/ Head(p) # name} \union {<<name>> \o q : q \in DOMAIN part} |->
        IF path # <<>> /\ Head(path) = name THEN part[Tail(path)] ELSE doc[path]]

\* The positions of a list that are taken.
Indices(doc) == {i \in DOMAIN Digits : <<Digits[i]>> \in DOMAIN doc}

\* The first of some documents that failed.
FirstFailure(docs) ==
    LET failed == {i \in DOMAIN docs : IsFailure(docs[i])} IN
    IF failed = {} THEN Missing ELSE docs[CHOOSE i \in failed : \A j \in failed : i =< j]

-----------------------------------------------------------------------------
\* Targets: dots nest objects, a list fills densely and in order, and nothing
\* is put through or over another target's value.
Conflict == Failure(<<"target">>)

\* The node that the k-th segment of a target goes into, opened if need be.
Upto(target, k) == SubSeq(target, 1, k - 1)
Opened(body, target, k) ==
    IF Upto(target, k) \in DOMAIN body THEN body[Upto(target, k)]
    ELSE [kind |-> IF IsPosition(target[k]) THEN "list" ELSE "dict"]
Skips(body, list, segment) ==
    \E i, j \in DOMAIN Digits : i < j /\ Digits[j] = segment /\ Append(list, Digits[i]) \notin DOMAIN body
Refused(body, target, k) ==
    LET kind == Opened(body, target, k).kind IN
    \/ kind \notin {"list", "dict"}
    \/ (kind = "list") # IsPosition(target[k])
    \/ kind = "list" /\ Skips(body, Upto(target, k), target[k])

Put(body, target, value) ==
    [path \in DOMAIN body \union {Upto(target, k) : k \in 1 .. Len(target)}
              \union {target \o q : q \in DOMAIN value} |->
        IF path \in DOMAIN body THEN body[path]
        ELSE IF Len(path) < Len(target) THEN Opened(body, target, Len(path) + 1)
        ELSE value[After(path, target)]]
Insert(body, target, value) ==
    IF target \in DOMAIN body \/ \E k \in 1 .. Len(target) : Refused(body, target, k)
    THEN Conflict ELSE Put(body, target, value)

\* One more value in a body, unless the body or the value has failed.
Added(body, target, value) ==
    IF IsFailure(body) THEN body ELSE IF IsFailure(value) THEN value ELSE Insert(body, target, value)

\* A body filled entry by entry, up to the first that fails.
Fill(targets, values) ==
    LET body[i \in 0 .. Len(targets)] ==
            IF i = 0 THEN Dict(<<>>) ELSE Added(body[i - 1], targets[i], values[i])
    IN  body[Len(targets)]
=============================================================================
