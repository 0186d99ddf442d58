--------------------------- MODULE CarrierBuilder ---------------------------
(***************************************************************************)
(* The carrier builder: a definition assembled by granular edits to a      *)
(* working copy, and what its schema, the publish gate, the golden replay  *)
(* and a booking then make of it.                                          *)
(*                                                                         *)
(* The copy and the board's marks arrive from the client with every turn,  *)
(* so they start as any seed, one saved under older rules included.  A     *)
(* tool that refuses an edit changes nothing: it is a step not taken.      *)
(* Fields the schema does not know are refused like invalid ones.          *)
(***************************************************************************)
EXTENDS Engine

CONSTANTS
    Seeds,          \* what a client may hand in: a copy and its marks
    OfferedOps,     \* the edits the model may ask for: named operations,
    OfferedSteps,   \* steps,
    OfferedEntries, \* mapping entries
    OfferedAuth,    \* and auth blocks
    Configs,        \* the configs the carrier may have stored
    MaxEdits        \* bound on the edits of a conversation

\* What the parts of an order's facts are called.
FactNames == {"shipment", "number", "lines", "parcels", "barcode", "carrier_barcode",
              "manifest", "date", "consignments", "warehouse", "code", "config", "steps"}

\* A copy has the shape of a definition, whether or not it is a valid one.
IsStep(s) ==
    /\ DOMAIN s = {"name", "transport", "answers", "raises", "extract", "request"}
    /\ DOMAIN s.request = {"url", "content_type", "mapping", "named", "root_element", "filename"}
    /\ s.name \in Name /\ DOMAIN s.extract \subseteq Name /\ s.raises \subseteq Lookups
    /\ s.request.url \in Path /\ s.request.filename \in Seq(Path)
    /\ s.request.mapping \in Seq(Entry)
IsOperation(op) ==
    /\ DOMAIN op = {"steps", "label", "from_extract", "fan_out", "allocate"}
    /\ op.steps \in Seq(ToSet(op.steps))
    /\ \A s \in ToSet(op.steps) : IsStep(s)
IsAuth(auth) == auth.scheme \in {"query_key", "header_key"} => auth.secret \in Path
IsCopy(c) ==
    /\ DOMAIN c = {"carrier", "auth", "operations"} /\ IsAuth(c.auth)
    /\ \A name \in DOMAIN c.operations : IsOperation(c.operations[name])

ASSUME BuilderAssumption ==
    /\ FactNames \subseteq Name
    /\ \A seed \in Seeds : IsCopy(seed.copy)
    /\ \A o \in OfferedOps : IsOperation(o.op)
    /\ \A s \in OfferedSteps : IsStep(s)
    /\ OfferedEntries \subseteq Entry
    /\ \A auth \in OfferedAuth : IsAuth(auth)
    /\ \A config \in Configs : IsDocument(config) /\ IsPlain(config)
    /\ MaxEdits \in Nat

VARIABLES
    copy,           \* the working copy: carrier, auth and operations
    notApplicable,  \* capabilities marked as not offered by this carrier
    seededBoth,     \* marked and drafted already in the seed
    edits           \* edits made

builderVars == <<copy, notApplicable, seededBoth, edits>>

Prunable == {"label", "manifest"}

BuilderTypeOK ==
    /\ IsCopy(copy)
    /\ notApplicable \subseteq Prunable /\ seededBoth \subseteq Prunable
    /\ edits \in 0 .. MaxEdits

DraftedIn(c, capability) ==
    IF capability = "label" THEN \E op \in Range(c.operations) : op.label # "none"
                            ELSE capability \in DOMAIN c.operations

\* Marks of a seed count only for what may be pruned, and with a reason.
BuilderInit ==
    /\ \E seed \in Seeds :
        /\ copy = seed.copy
        /\ notApplicable = {c \in Prunable : <<c, "reason">> \in seed.marks}
    /\ seededBoth = {c \in notApplicable : DraftedIn(copy, c)}
    /\ edits = 0

Edit == edits < MaxEdits /\ edits' = edits + 1 /\ UNCHANGED seededBoth
KeepMarks == UNCHANGED notApplicable

SetIdentity(carrier) ==
    /\ Edit /\ KeepMarks
    /\ carrier # "unset"
    /\ copy' = [copy EXCEPT !.carrier = carrier]

SetAuth(auth) ==
    /\ Edit /\ KeepMarks
    /\ PluginRegistered(auth)
    /\ copy' = [copy EXCEPT !.auth = auth]

Stored(name, op) == [copy EXCEPT !.operations =
    [n \in DOMAIN copy.operations \union {name} |-> IF n = name THEN op ELSE copy.operations[n]]]

\* Drafting a capability is evidence that it applies.
ClearsMarks_variant(c) == notApplicable
ClearsMarks(c) == {m \in notApplicable : ~DraftedIn(c, m)}
PutOperation(name, op) ==
    /\ Edit
    /\ OperationOK(op, FALSE)
    /\ copy' = Stored(name, op)
    /\ notApplicable' = ClearsMarks(copy')

RemoveOperation(name) ==
    /\ Edit /\ KeepMarks
    /\ name \in DOMAIN copy.operations
    /\ copy' = [copy EXCEPT !.operations =
                   [n \in DOMAIN copy.operations \ {name} |-> copy.operations[n]]]

MarkNotApplicable(capability) ==
    /\ Edit /\ UNCHANGED copy
    /\ capability \in Prunable /\ ~DraftedIn(copy, capability)
    /\ notApplicable' = notApplicable \union {capability}

MarkApplicable(capability) ==
    /\ Edit /\ UNCHANGED copy
    /\ capability \in notApplicable
    /\ notApplicable' = notApplicable \ {capability}

\* A granular edit starts from an operation that is valid as it stands, edits
\* a copy of it, and stores the result only if that is valid too.
Editable(name) ==
    name \in DOMAIN copy.operations /\ OperationOK(copy.operations[name], FALSE)
Restore(name, op) ==
    /\ Edit /\ KeepMarks
    /\ OperationOK(op, FALSE)
    /\ copy' = Stored(name, op)

\* The places of the items a key addresses; two make the address ambiguous.
Places(items, Matches(_)) == {i \in DOMAIN items : Matches(items[i])}
Placed(items, places, item) ==
    IF places = {} THEN Append(items, item)
    ELSE [items EXCEPT ![CHOOSE i \in places : TRUE] = item]

StepPlaces(op, stepName) == Places(op.steps, LAMBDA s : s.name = stepName)
EntryPlaces(s, target) == Places(s.request.mapping, LAMBDA e : e.target = target)

PutStep(name, s) ==
    /\ Editable(name)
    /\ LET op == copy.operations[name]
           at == StepPlaces(op, s.name)
       IN  /\ Cardinality(at) < 2
           /\ Restore(name, [op EXCEPT !.steps = Placed(op.steps, at, s)])

RemoveStep(name, stepName) ==
    /\ Editable(name)
    /\ LET op == copy.operations[name] IN \E i \in StepPlaces(op, stepName) :
        /\ StepPlaces(op, stepName) = {i}
        /\ Restore(name, [op EXCEPT !.steps = RemoveAt(op.steps, i)])

\* The mapping of the one step of that name, replaced by what New makes of it.
Remap(name, stepName, New(_)) ==
    LET op == copy.operations[name] IN \E i \in StepPlaces(op, stepName) :
        /\ StepPlaces(op, stepName) = {i}
        /\ Restore(name, [op EXCEPT !.steps[i].request.mapping = New(op.steps[i])])

PutMappingEntry(name, stepName, e) ==
    /\ Editable(name)
    /\ \A s \in ToSet(copy.operations[name].steps) :
        s.name = stepName => Cardinality(EntryPlaces(s, e.target)) < 2
    /\ Remap(name, stepName, LAMBDA s : Placed(s.request.mapping, EntryPlaces(s, e.target), e))

RemoveMappingEntry(name, stepName, target) ==
    /\ Editable(name)
    /\ \A s \in ToSet(copy.operations[name].steps) :
        s.name = stepName => Cardinality(EntryPlaces(s, target)) = 1
    /\ Remap(name, stepName, LAMBDA s : RemoveAt(s.request.mapping,
                                        CHOOSE i \in EntryPlaces(s, target) : TRUE))

StepNames == {s.name : s \in OfferedSteps}
BuilderNext ==
    \/ \E carrier \in {"unset", "unsafe", "safe"} : SetIdentity(carrier)
    \/ \E auth \in OfferedAuth : SetAuth(auth)
    \/ \E o \in OfferedOps : PutOperation(o.name, o.op)
    \/ \E name \in DOMAIN copy.operations : RemoveOperation(name)
    \/ \E capability \in Prunable \union {"book"} :
        MarkNotApplicable(capability) \/ MarkApplicable(capability)
    \/ \E name \in DOMAIN copy.operations :
        \/ \E s \in OfferedSteps : PutStep(name, s)
        \/ \E n \in StepNames :
            \/ RemoveStep(name, n)
            \/ \E e \in OfferedEntries : PutMappingEntry(name, n, e)
            \/ \E e \in OfferedEntries : RemoveMappingEntry(name, n, e.target)

BuilderSpec == BuilderInit /\ [][BuilderNext]_builderVars

-----------------------------------------------------------------------------
\* The facts of an order; it may have no depot.
WithDepot(facts, there) ==
    IF there THEN With(facts, "warehouse", Dict([code |-> Text("depot")])) ELSE facts
Parcel == Dict([barcode |-> Text("barcode"), carrier_barcode |-> Null])
ShipmentFacts == Dict([number |-> Text("number"),
                       lines |-> ListOf(<<Text("line"), Text("line")>>),
                       parcels |-> ListOf(<<Parcel, Parcel>>)])
OrderFacts(depot, config) ==
    WithDepot(Dict([shipment |-> ShipmentFacts, config |-> config]), depot)
SentFacts == Dict([number |-> Text("number"), parcels |-> ListOf(<<Parcel, Parcel>>)])
DeclaredFacts == Dict([date |-> Text("date"), consignments |-> ListOf(<<SentFacts>>)])
ManifestFacts(depot, config) ==
    WithDepot(Dict([manifest |-> DeclaredFacts, config |-> config]), depot)
FactsOf(d, name, depot, config) ==
    IF FactRoots(name, d.operations[name]) = Manifest THEN ManifestFacts(depot, config)
                                                      ELSE OrderFacts(depot, config)

\* The publish gate: every operation renders against every recent order of any
\* carrier, a manifest against all of its carrier's own and a depot one of them has.
\* Each set holds, for the orders in it, whether they have a depot.
Renders(d, name, facts) == FirstFailure(RenderOperation(d, name, facts)) = Missing
RenderGate_variant(d, recent, own, config) ==
    "book" \in DOMAIN d.operations =>
        \A depot \in recent : Renders(d, "book", OrderFacts(depot, config))
RenderGate(d, recent, own, config) == \A name \in DOMAIN d.operations :
    IF FactRoots(name, d.operations[name]) = Manifest
    THEN own # {} => Renders(d, name, ManifestFacts(TRUE \in own, config))
    ELSE \A depot \in recent : Renders(d, name, OrderFacts(depot, config))

Publishes(d, recent, own, config) ==
    /\ DefinitionOK(d, FALSE) /\ MissingConfigKeys(d, config) = {}
    /\ RenderGate(d, recent, own, config)

\* A live run of an operation on a stored definition, whatever the carrier says.
Runs(d, name, depot, config) ==
    {ExecuteOperation(d, name, FactsOf(d, name, depot, config), answers) :
        answers \in [DOMAIN d.operations[name].steps -> CarrierAnswer]}

\* The golden replay of the book operation, a draft against the active one.
BookOnly(d) == [d EXCEPT !.operations =
    IF "book" \in DOMAIN d.operations THEN [book |-> d.operations["book"]] ELSE d.operations]
ByStep(rendered) == [n \in {Root(r).step : r \in ToSet(rendered)} |->
    Last(SelectSeq(rendered, LAMBDA r : Root(r).step = n))]
ReplayRefuses(draft, active) ==
    ~DefinitionOK(BookOnly(draft), FALSE) \/ ~DefinitionOK(BookOnly(active), FALSE)
ReplayFacts(config) == OrderFacts(FALSE, config)
ReplayChanged(draft, active, config) ==
    LET new == RenderOperation(draft, "book", ReplayFacts(config))
        old == RenderOperation(active, "book", ReplayFacts(config))
    IN  IF FirstFailure(new \o old) # Missing THEN TRUE ELSE ByStep(new) # ByStep(old)

-----------------------------------------------------------------------------
\* A capability is not both drafted and marked as not offered, unless the
\* client's own copy said so (tools.put_operation, tools.mark_not_applicable).
MarksAreUndrafted == \A c \in notApplicable \ seededBoth : ~DraftedIn(copy, c)

\* Where a live run of a step can raise what the booking path does not handle: at
\* a form body given a collection (execute._encode), at a request its transport cannot
\* put on the wire (execute._run_http, _run_upload), at an answer its parser breaks down
\* on, and at a response path the lookup raises on (execute._parse, _xml_path).
CrashSites(s) == {why \in {<<"form">>, <<"request">>, <<"parse">>, <<"path">>} :
    /\ why = <<"form">>  => s.transport = "http" /\ s.request.content_type = "form"
    /\ why = <<"parse">> => s.answers
    /\ why = <<"path">>  => s.answers /\ s.raises # {}}

\* A booking of a definition that loads, one saved under older rules too, ends with an
\* answer the booking path handles or at a crash site one of its steps has: never
\* because the operation, its auth plugin or what it renders is not there.
CrashesAreLocated ==
    DefinitionOK(copy, TRUE) => \A name \in DOMAIN copy.operations, depot \in BOOLEAN :
        \A config \in Configs : \A run \in Runs(copy, name, depot, config) :
            run.ended = "crashed" =>
                \E s \in ToSet(copy.operations[name].steps) : run.why \in CrashSites(s)

\* What execute.run_step says: whatever cannot be rendered at a booking, a scalar rule a
\* stored definition breaks included, is a booking failure and not an uncaught error.
RenderFailuresAreHandled ==
    DefinitionOK(copy, TRUE) => \A name \in DOMAIN copy.operations, depot \in BOOLEAN :
        \A config \in Configs : \A run \in Runs(copy, name, depot, config) :
            run.ended = "crashed" => run.why # <<"form">>

\* What authoring accepts, and a complete config completes, does not fail a
\* booking at a config key, at a target or at an unknown root: what is left
\* is a fact this order lacks, or one of another shape (missing_config_keys).
RendersWhatItAccepts ==
    DefinitionOK(copy, FALSE) => \A config \in Configs : MissingConfigKeys(copy, config) = {} =>
        \A name \in DOMAIN copy.operations, depot \in BOOLEAN :
            \A run \in Runs(copy, name, depot, config) :
                /\ run.why # <<>> => Head(run.why) \notin {"config", "target"}
                /\ Len(run.why) > 1 => Head(run.why) \in
                    {"warehouse", "shipment", "manifest", "item", "steps", "allocated"}

\* What the gate rendered for an order like this one renders for it live; the
\* only new failure is a step's output that is not what the token stood for.
ReadsSteps(d, name) == \E s \in ToSet(d.operations[name].steps) :
    ~StepResolves(<<s>>, 1, FactRoots(name, d.operations[name]))  \* not on its own
GatedOrdersRender == \A config \in Configs, depot \in BOOLEAN :
    Publishes(copy, {depot}, {depot}, config) => \A name \in DOMAIN copy.operations :
        \A run \in Runs(copy, name, depot, config) :
            run.ended = "failed" => run.why \in {<<"carrier">>, <<"extract">>} \/ ReadsSteps(copy, name)

\* A draft that is the active definition replays without a difference.
ReplayIsQuiet == \A config \in Configs, depot \in BOOLEAN :
    Publishes(copy, {depot}, {depot}, config) /\ "book" \in DOMAIN copy.operations
        => ~ReplayChanged(copy, copy, config)
=============================================================================
