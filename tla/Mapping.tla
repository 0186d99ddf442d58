------------------------------- MODULE Mapping -------------------------------
(***************************************************************************)
(* The mapping of a request body: entries that each put a value at a       *)
(* target, some of them a list of what further entries make of a           *)
(* collection's items, to any depth.  What the schema asks of a mapping,   *)
(* what it reads, which config keys it needs, and what it renders to,      *)
(* offline (where a step's unanswered output is a token) or live.          *)
(*                                                                         *)
(* The tables of lookups are taken to cover the orders they meet.          *)
(***************************************************************************)
EXTENDS Documents

CONSTANTS
    Entry,          \* the mapping entries there are, those inside others too
    Nesting,        \* bound on the depth of entries inside others
    FieldPlugins    \* the computed-field plugins the engine has registered

\* Entries by how deep they are inside others.
Level(entries) ==
    LET at[n \in 0 .. Nesting + 1] == IF n = 0 THEN ToSet(entries) ELSE UNION {ToSet(e.each) : e \in at[n - 1]}
    IN  at
Inner(entries)    == UNION {Level(entries)[n] : n \in 1 .. Nesting}
Everyone(entries) == ToSet(entries) \union Inner(entries)

IsEntry(e) ==
    /\ e.origins \subseteq {"source", "const", "plugin"}
    /\ e.target \in Path /\ e.each \in Seq(Entry)
    /\ e.pluck \in Seq(Name) /\ e.plugin \in Name
    /\ "source" \in e.origins => e.source \in Path

ASSUME MappingAssumption ==
    /\ {"item", "allocated"} \subseteq Name
    /\ Nesting \in Nat
    /\ \A e \in Entry : IsEntry(e) /\ Level(<<e>>)[Nesting + 1] = {}

-----------------------------------------------------------------------------
\* The schema dry-runs the targets with nothing to put there.
Targets(entries) == [i \in DOMAIN entries |-> entries[i].target]
TargetsAgree(entries) == ~IsFailure(Fill(Targets(entries), [i \in DOMAIN entries |-> Null]))

\* Exactly one origin, and at most one way to shape it.
EntryOK(e) ==
    /\ Cardinality(e.origins) = 1
    /\ e.origins # {"source"} => e.transform = "none" /\ e.each = <<>> /\ e.pluck = <<>>
    /\ "plugin" \in e.origins => e.plugin \in FieldPlugins
    /\ e.transform # "none" => e.each = <<>>
    /\ e.pluck # <<>> => e.each = <<>> /\ e.transform = "none"

\* An @attribute ends its target and is never repeated; a pluck has no xml shape.
Attribute == {"@ref"}
XmlTargetOK(e) ==
    /\ e.pluck = <<>>
    /\ ToSet(Front(e.target)) \cap Attribute = {}
    /\ Last(e.target) \in Attribute => e.each = <<>>

MappingOK(r) ==
    /\ TargetsAgree(r.mapping)
    /\ \A e \in Everyone(r.mapping) :
        EntryOK(e) /\ TargetsAgree(e.each) /\ (r.content_type = "xml" => XmlTargetOK(e))

-----------------------------------------------------------------------------
\* What may be read: a fact root, the item inside an each, or what an earlier
\* step of that name extracts.
ValidSource(path, earlier, inEach, roots) ==
    /\ "" \notin ToSet(path)
    /\ \/ Head(path) \in roots
       \/ inEach /\ Head(path) = "item"
       \/ /\ Head(path) = "steps" /\ Len(path) > 2
          /\ path[2] \in DOMAIN earlier /\ path[3] \in earlier[path[2]]

\* Inside an each, or by a pluck, the item may be read, too.
EntryResolves(e, earlier, inEach, roots) ==
    /\ "source" \in e.origins => ValidSource(e.source, earlier, inEach, roots)
    /\ e.pluck # <<>> => ValidSource(e.pluck, earlier, TRUE, roots)
MappingResolves(r, earlier, roots) ==
    /\ \A e \in ToSet(r.mapping) : EntryResolves(e, earlier, FALSE, roots)
    /\ \A e \in Inner(r.mapping) : EntryResolves(e, earlier, TRUE, roots)

\* The config keys an entry needs, each as a path below config.
ConfigKey(path) == IF Head(path) = "config" /\ Len(path) > 1 THEN {Tail(path)} ELSE {}
EntryKeys(e) ==
    (IF "source" \in e.origins THEN ConfigKey(e.source) ELSE {})
    \union (IF e.pluck = <<>> THEN {} ELSE ConfigKey(e.pluck))
MappingKeys_variant(r) == UNION {EntryKeys(e) : e \in ToSet(r.mapping)}
MappingKeys(r) == UNION {EntryKeys(e) : e \in Everyone(r.mapping)}

-----------------------------------------------------------------------------
\* The item of an each or a pluck is a place in the facts; outside of them
\* there is none, and a path that reads it leads nowhere.
NoItem == <<"item">>
Place(path, item) == IF Head(path) = "item" THEN item \o Tail(path) ELSE path

Resolve(path, facts, item, live) ==
    IF Place(path, item) \in DOMAIN facts THEN Part(facts, Place(path, item))
    ELSE IF Head(path) = "steps" /\ Len(path) > 1 /\ ~live THEN Token
    ELSE Failure(path)

\* What each transform makes of a value; the text ones take any value.
Transformed(name, v) ==
    CASE name = "none"  -> v
      [] name = "join"  -> IF Kind(v) = "list" THEN Text("joined") ELSE Failure(<<"join">>)
      [] name = "split" -> ListOf(<<Text("part")>>)
      [] name = "lookup" /\ IsCompound(v) -> Failure(<<"lookup">>)
      [] OTHER -> Text(name)

\* A list of what was rendered, unless one of it failed.
Listed(made) == IF FirstFailure(made) # Missing THEN FirstFailure(made) ELSE ListOf(made)
Plucked(v) == IF IsCompound(v) THEN Failure(<<"pluck">>) ELSE v

\* The places of a collection's items.
ItemPlaces(e, v, item) == [i \in Indices(v) |-> Append(Place(e.source, item), Digits[i])]

\* What an entry makes of the value v its source resolved to; `inside` holds
\* what its each makes of an item.
Collected(e, v, facts, item, live, deep, inside) ==
    LET items == ItemPlaces(e, v, item) IN
    Listed([i \in DOMAIN items |-> IF e.each # <<>> THEN inside[<<deep, e, items[i]>>]
                                   ELSE Plucked(Resolve(e.pluck, facts, items[i], live))])
Shaped(e, v, facts, item, live, deep, inside) ==
    IF IsFailure(v) THEN v
    ELSE IF v = Token THEN Text("token")
    ELSE IF e.each = <<>> /\ e.pluck = <<>> THEN Transformed(e.transform, v)
    ELSE IF Kind(v) # "list" THEN Failure(<<"collection">>)
    ELSE Collected(e, v, facts, item, live, deep, inside)

\* A computed field reads a number that was allocated before the render.
RenderEntry(e, facts, item, live, deep, inside) ==
    IF "const" \in e.origins THEN Text("const")
    ELSE IF "plugin" \in e.origins THEN Resolve(<<"allocated", e.plugin>>, facts, item, live)
    ELSE Shaped(e, Resolve(e.source, facts, item, live), facts, item, live, deep, inside)
RenderEntries(entries, facts, item, live, deep, inside) ==
    [i \in DOMAIN entries |-> RenderEntry(entries[i], facts, item, live, deep, inside)]

\* What the each of an entry makes of an item, so many levels of them.
RenderedInside(facts, live) ==
    LET made[call \in (0 .. Nesting) \X Entry \X DOMAIN facts] ==
            IF call[1] = 0 THEN Dict(<<>>)
            ELSE Fill(Targets(call[2].each),
                      RenderEntries(call[2].each, facts, call[3], live, call[1] - 1, made))
    IN  made

RenderTop(entries, facts, live) ==
    RenderEntries(entries, facts, NoItem, live, Nesting, RenderedInside(facts, live))
RenderMapping(entries, facts, live) == Fill(Targets(entries), RenderTop(entries, facts, live))

\* One row, a column per entry, in order.
Column(v) == IF IsCompound(v) THEN Failure(<<"column">>) ELSE v
CsvRow(cells) ==
    IF FirstFailure(cells) # Missing THEN FirstFailure(cells) ELSE Leaf([kind |-> "row", cells |-> cells])
RenderCsv(entries, facts, live) ==
    LET made == RenderTop(entries, facts, live) IN CsvRow([i \in DOMAIN made |-> Column(made[i])])

AttributeHoldsMany(body) == \E path \in DOMAIN body :
    path # <<>> /\ Last(path) \in Attribute /\ body[path].kind \in {"list", "dict"}
RenderXml(entries, facts, live) ==
    LET body == RenderMapping(entries, facts, live) IN
    IF ~IsFailure(body) /\ AttributeHoldsMany(body) THEN Failure(<<"attribute">>) ELSE body

RenderedBody(r, facts, live) ==
    CASE r.content_type = "xml" -> RenderXml(r.mapping, facts, live)
      [] r.content_type = "csv" /\ r.named -> RenderCsv(r.mapping, facts, live)
      [] OTHER -> RenderMapping(r.mapping, facts, live)
=============================================================================
