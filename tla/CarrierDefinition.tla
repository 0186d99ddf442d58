------------------------- MODULE CarrierDefinition -------------------------
(***************************************************************************)
(* What makes a carrier definition valid: the rules of the schema, as      *)
(* operators on definitions.  Authoring checks them all; loading a stored  *)
(* definition for a booking is lenient and skips the ones marked so.       *)
(***************************************************************************)
EXTENDS Mapping

CONSTANT AuthKeys  \* of each registered auth plugin, the config keys it reads

Shipment == {"shipment", "warehouse", "config"}
Manifest == {"manifest", "warehouse", "config"}
Uploads  == {"ftp_upload", "sftp_upload"}

FactRoots(name, op) == IF name = "manifest" /\ ~op.fan_out THEN Manifest ELSE Shipment

-----------------------------------------------------------------------------
\* Only an xml body has a root element.
XmlShape(r) == r.root_element <=> r.content_type = "xml"
\* Authoring only: a csv column holds a scalar.
CsvShape(r) == r.content_type = "csv" => \A e \in ToSet(r.mapping) :
    e.each = <<>> /\ e.pluck = <<>> /\ e.transform # "split"

TransportShape(s, lenient) ==
    IF s.transport \in Uploads
    THEN /\ s.request.named /\ s.request.content_type \in {"csv", "xml"} /\ ~s.answers
         /\ Head(s.request.url) = "config" /\ Len(s.request.url) > 1
    ELSE /\ ~s.request.named /\ s.request.content_type # "xml"
         /\ ~lenient => s.transport = "http" /\ s.request.content_type \in {"json", "form"}

StepOK(s, lenient) ==
    /\ XmlShape(s.request) /\ (lenient \/ CsvShape(s.request))
    /\ TransportShape(s, lenient) /\ MappingOK(s.request)

\* The label of a base64 pdf names an extraction of one of the steps.
LabelResolves(op) == op.label = "base64_pdf" =>
    op.from_extract \in UNION {DOMAIN s.extract : s \in ToSet(op.steps)}

\* An SSCC names a live unit, so its range may never wrap.
NeverWraps(spec) == spec.policy = "halt"

OperationOK(op, lenient) ==
    /\ op.steps # <<>> \/ op.label = "local_render"
    /\ \A s \in ToSet(op.steps) : StepOK(s, lenient)
    /\ LabelResolves(op)
    /\ \A spec \in ToSet(op.allocate) : NeverWraps(spec)

-----------------------------------------------------------------------------
\* Fan-out is for a manifest of uploads, which may be sent twice.
FanOutShape(ops) == \A n \in DOMAIN ops : ops[n].fan_out =>
    n = "manifest" /\ \A s \in ToSet(ops[n].steps) : s.transport \in Uploads
AllocateShape(ops) == \A n \in DOMAIN ops : ops[n].allocate # <<>> =>
    /\ n = "book" /\ Len(ops[n].allocate) = 1
    /\ Head(ops[n].allocate[1].prefix) = "config" /\ Len(ops[n].allocate[1].prefix) > 1

\* The steps before the i-th and what the last of each name extracts.
Earlier(steps, i) ==
    [n \in {steps[j].name : j \in 1 .. i - 1} |->
        DOMAIN steps[CHOOSE j \in 1 .. i - 1 : steps[j].name = n /\
                       \A k \in j + 1 .. i - 1 : steps[k].name # n].extract]

\* The roots every operation has: the one auth block serves them all.
Common(ops) == {root \in Shipment \union Manifest :
    \A n \in DOMAIN ops : root \in FactRoots(n, ops[n])}
SecretResolves(d) ==
    d.auth.scheme \in {"query_key", "header_key"} =>
        ValidSource(d.auth.secret, <<>>, FALSE,
                    IF DOMAIN d.operations = {} THEN Shipment ELSE Common(d.operations))

StepResolves(steps, i, roots) ==
    LET r == steps[i].request
        before == Earlier(steps, i)
    IN  /\ ValidSource(r.url, before, FALSE, roots)
        /\ \A p \in ToSet(r.filename) : ValidSource(p, before, FALSE, roots)
        /\ MappingResolves(r, before, roots)

SourcesResolve(d) ==
    /\ SecretResolves(d)
    /\ \A n \in DOMAIN d.operations : \A i \in DOMAIN d.operations[n].steps :
        StepResolves(d.operations[n].steps, i, FactRoots(n, d.operations[n]))

PluginRegistered_variant(auth) == TRUE
PluginRegistered(auth) == auth.scheme = "plugin" => auth.plugin \in DOMAIN AuthKeys

\* The whole definition; a lenient load skips the rules of authoring alone.
\* A carrier's code is "unset", "unsafe" (it needs quoting in a URL) or "safe".
DefinitionOK(d, lenient) ==
    /\ d.carrier # "unset" /\ d.auth.scheme # "unset"
    /\ lenient \/ d.carrier = "safe"
    /\ PluginRegistered(d.auth)
    /\ \A n \in DOMAIN d.operations : OperationOK(d.operations[n], lenient)
    /\ FanOutShape(d.operations) /\ AllocateShape(d.operations)
    /\ lenient \/ SourcesResolve(d)

-----------------------------------------------------------------------------
\* The config keys a definition needs.
StepKeys(s) ==
    ConfigKey(s.request.url)
    \union (UNION {ConfigKey(p) : p \in ToSet(s.request.filename)})
    \union MappingKeys(s.request)

ReferencedConfigKeys(d) ==
    (IF d.auth.scheme \in {"query_key", "header_key"} THEN ConfigKey(d.auth.secret)
     ELSE IF d.auth.scheme = "plugin" THEN AuthKeys[d.auth.plugin] ELSE {})
    \union UNION {(UNION {StepKeys(s) : s \in ToSet(op.steps)})
                  \union (UNION {ConfigKey(spec.prefix) : spec \in ToSet(op.allocate)}) :
                      op \in Range(d.operations)}

\* A null is there, but it provides nothing.
MissingConfigKeys(d, config) ==
    {key \in ReferencedConfigKeys(d) : key \notin DOMAIN config \/ config[key].kind = "null"}
=============================================================================
