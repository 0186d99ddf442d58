------------------------ MODULE CarrierBuilder_proofs ------------------------
(* The builder's marks, and how a live run of what it builds can end, for any *)
(* seeds, edits, configs and answers of the carrier, mappings at any nesting.  *)
EXTENDS CarrierBuilder, Engine_proofs

-----------------------------------------------------------------------------
(* Sequences of steps *)

\* A function on 1 .. n is a sequence of what it holds.
LEMMA OwnSequence ==
    ASSUME NEW n \in Nat, NEW s, s = [i \in 1 .. n |-> s[i]]
    PROVE  s \in Seq(ToSet(s)) /\ Len(s) = n
<1>1. s \in [1 .. n -> ToSet(s)]
  BY DEF ToSet
<1> QED
  BY <1>1, SeqDef, LenProperties

LEMMA SequenceShape ==
    ASSUME NEW s, s \in Seq(ToSet(s))
    PROVE  Len(s) \in Nat /\ DOMAIN s = 1 .. Len(s) /\ s = [i \in 1 .. Len(s) |-> s[i]]
OBVIOUS

\* Sequences of what T holds.
LEMMA OwnElements ==
    ASSUME NEW T, NEW s \in Seq(T)
    PROVE  s \in Seq(ToSet(s)) /\ ToSet(s) \subseteq T
<1>1. Len(s) \in Nat /\ s = [i \in 1 .. Len(s) |-> s[i]]
  OBVIOUS
<1> QED
  BY <1>1, OwnSequence DEF ToSet

LEMMA PlacedElements ==
    ASSUME NEW T, NEW s \in Seq(T), NEW x \in T, NEW at
    PROVE  Placed(s, at, x) \in Seq(T)
<1>1. ASSUME NEW i PROVE [s EXCEPT ![i] = x] \in Seq(T)
  <2>1. CASE i \in 1 .. Len(s)
    BY <2>1, ExceptSeq
  <2>2. CASE i \notin 1 .. Len(s)
    <3>1. [s EXCEPT ![i] = x] = s
      BY <2>2
    <3> QED
      BY <3>1
  <2> QED
    BY <2>1, <2>2
<1>2. Append(s, x) \in Seq(T)
  OBVIOUS
<1> QED
  BY <1>1, <1>2 DEF Placed

LEMMA RemovedElements ==
    ASSUME NEW T, NEW s \in Seq(T), NEW i \in DOMAIN s
    PROVE  RemoveAt(s, i) \in Seq(T)
<1>1. Len(s) \in Nat /\ i \in 1 .. Len(s)
  OBVIOUS
<1>2. \A m, n \in Int : m >= 1 /\ n =< Len(s) => SubSeq(s, m, n) \in Seq(T)
  BY SubSeqProperties
<1>3. SubSeq(s, 1, i - 1) \in Seq(T) /\ SubSeq(s, i + 1, Len(s)) \in Seq(T)
  BY <1>1, <1>2
<1> QED
  BY <1>3 DEF RemoveAt

-----------------------------------------------------------------------------
(* Copies keep their shape, and an edit of the steps keeps the label *)

Alike(op, old) == IsOperation(op) /\ op.label = old.label

LEMMA SameSteps ==
    ASSUME NEW op, IsOperation(op), NEW T, \A s \in T : IsStep(s), NEW steps \in Seq(T)
    PROVE  Alike([op EXCEPT !.steps = steps], op)
<1>1. steps \in Seq(ToSet(steps)) /\ \A s \in ToSet(steps) : IsStep(s)
  BY OwnElements
<1> QED
  BY <1>1 DEF Alike, IsOperation

LEMMA SameMapping ==
    ASSUME NEW op, IsOperation(op), NEW i \in DOMAIN op.steps, NEW entries \in Seq(Entry)
    PROVE  Alike([op EXCEPT !.steps[i].request.mapping = entries], op)
<1> DEFINE step == [op.steps[i] EXCEPT !.request.mapping = entries]
           T == ToSet(op.steps) \union {step}
           steps == [op.steps EXCEPT ![i] = step]
<1>1. IsStep(step)
  <2>1. IsStep(op.steps[i])
    BY DEF IsOperation, ToSet
  <2> QED
    BY <2>1 DEF IsStep
<1>2. op.steps \in Seq(T) /\ step \in T
  BY SeqMonotonic DEF IsOperation
<1>3. [op EXCEPT !.steps[i].request.mapping = entries] = [op EXCEPT !.steps = steps]
  OBVIOUS
<1>4. \A s \in T : IsStep(s)
  BY <1>1 DEF IsOperation
<1> HIDE DEF step, T
<1>5. steps \in Seq(T)
  BY <1>2, ExceptSeq
<1> HIDE DEF steps
<1> QED
  BY <1>3, <1>4, <1>5, SameSteps

\* What storing an operation does to the copy.
LEMMA StoredShape ==
    ASSUME IsCopy(copy), NEW name, NEW op, IsOperation(op)
    PROVE  /\ IsCopy(Stored(name, op))
           /\ DOMAIN Stored(name, op).operations = DOMAIN copy.operations \union {name}
           /\ \A n \in DOMAIN copy.operations \union {name} :
                  Stored(name, op).operations[n] = IF n = name THEN op ELSE copy.operations[n]
BY DEF IsCopy, Stored

\* An edit of an operation that is there changes nothing about what is drafted.
LEMMA RestoredDrafts ==
    ASSUME IsCopy(copy), NEW name \in DOMAIN copy.operations, NEW op,
           Alike(op, copy.operations[name]), NEW c, DraftedIn(Stored(name, op), c)
    PROVE  DraftedIn(copy, c)
<1> DEFINE old == copy.operations
           new == Stored(name, op).operations
<1>1. /\ DOMAIN new = DOMAIN old \union {name}
      /\ \A n \in DOMAIN old \union {name} : new[n] = IF n = name THEN op ELSE old[n]
  BY StoredShape DEF Alike
<1>2. DOMAIN new = DOMAIN old /\ op.label = old[name].label /\ name \in DOMAIN old
  BY <1>1 DEF Alike
<1>3. DraftedIn(copy, c) <=> IF c = "label" THEN \E n \in DOMAIN old : old[n].label # "none"
                                            ELSE c \in DOMAIN old
  BY DEF DraftedIn, Range
<1>4. IF c = "label" THEN \E n \in DOMAIN new : new[n].label # "none" ELSE c \in DOMAIN new
  BY DEF DraftedIn, Range
<1> HIDE DEF old, new
<1>5. \A n \in DOMAIN old : new[n].label = old[n].label
  BY <1>1, <1>2
<1> QED
  BY <1>2, <1>3, <1>4, <1>5

-----------------------------------------------------------------------------
(* The builder's invariant *)

BuilderInv == BuilderTypeOK /\ MarksAreUndrafted

LEMMA BuilderInitHolds == BuilderInit => BuilderInv
BY BuilderAssumption DEF BuilderInit, BuilderInv, BuilderTypeOK, MarksAreUndrafted, Prunable

LEMMA BuilderStutters ==
    ASSUME BuilderInv, UNCHANGED builderVars
    PROVE  BuilderInv'
BY DEF builderVars, BuilderInv, BuilderTypeOK, MarksAreUndrafted, IsCopy, IsOperation, DraftedIn

LEMMA SetIdentityHolds ==
    ASSUME BuilderInv, NEW carrier, SetIdentity(carrier)
    PROVE  BuilderInv'
<1> USE DEF BuilderInv, SetIdentity, Edit, KeepMarks
<1>1. copy'.operations = copy.operations /\ DOMAIN copy' = DOMAIN copy
  BY DEF BuilderTypeOK, IsCopy
<1>2. BuilderTypeOK'
  BY <1>1, BuilderAssumption DEF BuilderTypeOK, IsCopy
<1>3. MarksAreUndrafted'
  BY <1>1 DEF MarksAreUndrafted, DraftedIn
<1> QED
  BY <1>2, <1>3

LEMMA SetAuthHolds ==
    ASSUME BuilderInv, NEW auth \in OfferedAuth, SetAuth(auth)
    PROVE  BuilderInv'
<1> USE DEF BuilderInv, SetAuth, Edit, KeepMarks
<1>1. copy'.operations = copy.operations /\ DOMAIN copy' = DOMAIN copy
  BY DEF BuilderTypeOK, IsCopy
<1>2. BuilderTypeOK'
  BY <1>1, BuilderAssumption DEF BuilderTypeOK, IsCopy
<1>3. MarksAreUndrafted'
  BY <1>1 DEF MarksAreUndrafted, DraftedIn
<1> QED
  BY <1>2, <1>3

LEMMA PutOperationHolds ==
    ASSUME BuilderInv, NEW o \in OfferedOps, PutOperation(o.name, o.op)
    PROVE  BuilderInv'
<1> USE DEF BuilderInv, PutOperation, Edit
<1>1. IsCopy(copy')
  BY StoredShape, BuilderAssumption DEF BuilderTypeOK
<1>2. BuilderTypeOK'
  BY <1>1, BuilderAssumption DEF BuilderTypeOK, ClearsMarks
<1>3. MarksAreUndrafted'
  BY DEF MarksAreUndrafted, ClearsMarks
<1> QED
  BY <1>2, <1>3

LEMMA RemoveOperationHolds ==
    ASSUME BuilderInv, NEW name, RemoveOperation(name)
    PROVE  BuilderInv'
<1> USE DEF BuilderInv, RemoveOperation, Edit, KeepMarks
<1>1. /\ DOMAIN copy' = DOMAIN copy
      /\ DOMAIN copy'.operations = DOMAIN copy.operations \ {name}
      /\ \A n \in DOMAIN copy'.operations : copy'.operations[n] = copy.operations[n]
  BY DEF BuilderTypeOK, IsCopy
<1>2. BuilderTypeOK'
  BY <1>1, BuilderAssumption DEF BuilderTypeOK, IsCopy
<1>3. \A c : DraftedIn(copy', c) => DraftedIn(copy, c)
  <2> SUFFICES ASSUME NEW c, DraftedIn(copy', c) PROVE DraftedIn(copy, c)
    OBVIOUS
  <2>1. CASE c = "label"
    <3>1. PICK n \in DOMAIN copy'.operations : copy'.operations[n].label # "none"
      BY <2>1 DEF DraftedIn, Range
    <3>2. n \in DOMAIN copy.operations /\ copy.operations[n].label # "none"
      BY <1>1, <3>1
    <3> QED
      BY <2>1, <3>2 DEF DraftedIn, Range
  <2>2. CASE c # "label"
    BY <1>1, <2>2 DEF DraftedIn
  <2> QED
    BY <2>1, <2>2
<1>4. MarksAreUndrafted'
  BY <1>3 DEF MarksAreUndrafted
<1> QED
  BY <1>2, <1>4

LEMMA MarkHolds ==
    ASSUME BuilderInv, NEW c, MarkNotApplicable(c) \/ MarkApplicable(c)
    PROVE  BuilderInv'
BY BuilderAssumption DEF BuilderInv, BuilderTypeOK, MarksAreUndrafted, MarkNotApplicable,
                         MarkApplicable, Edit, IsCopy, IsOperation, DraftedIn

\* Every granular edit ends in a Restore of an operation with the old one's label.
LEMMA RestoreHolds ==
    ASSUME BuilderInv, NEW name \in DOMAIN copy.operations, NEW op,
           Alike(op, copy.operations[name]), Restore(name, op)
    PROVE  BuilderInv'
<1> USE DEF BuilderInv, Restore, Edit, KeepMarks
<1>1. IsCopy(copy')
  BY StoredShape DEF BuilderTypeOK, Alike
<1>2. BuilderTypeOK'
  BY <1>1, BuilderAssumption DEF BuilderTypeOK
<1>3. MarksAreUndrafted'
  <2>1. \A c : DraftedIn(copy', c) => DraftedIn(copy, c)
    BY RestoredDrafts DEF BuilderTypeOK
  <2> QED
    BY <2>1 DEF MarksAreUndrafted
<1> QED
  BY <1>2, <1>3

LEMMA PutStepHolds ==
    ASSUME BuilderInv, NEW name, NEW s \in OfferedSteps, PutStep(name, s)
    PROVE  BuilderInv'
<1> DEFINE op == copy.operations[name]
           T == ToSet(op.steps) \union {s}
           steps == Placed(op.steps, StepPlaces(op, s.name), s)
<1>1. name \in DOMAIN copy.operations /\ IsOperation(op)
  BY DEF BuilderInv, BuilderTypeOK, IsCopy, PutStep, Editable
<1>2. Restore(name, [op EXCEPT !.steps = steps])
  BY DEF PutStep
<1>3. op.steps \in Seq(T) /\ s \in T /\ \A x \in T : IsStep(x)
  BY <1>1, SeqMonotonic, BuilderAssumption DEF IsOperation
<1> HIDE DEF op, T
<1>4. steps \in Seq(T)
  BY <1>3, PlacedElements
<1>5. Alike([op EXCEPT !.steps = steps], op)
  BY <1>1, <1>3, <1>4, SameSteps
<1> QED
  BY <1>1, <1>2, <1>5, RestoreHolds DEF op

LEMMA RemoveStepHolds ==
    ASSUME BuilderInv, NEW name, NEW stepName, RemoveStep(name, stepName)
    PROVE  BuilderInv'
<1> DEFINE op == copy.operations[name]
<1>1. name \in DOMAIN copy.operations /\ IsOperation(op)
  BY DEF BuilderInv, BuilderTypeOK, IsCopy, RemoveStep, Editable
<1>2. PICK i \in DOMAIN op.steps : Restore(name, [op EXCEPT !.steps = RemoveAt(op.steps, i)])
  BY DEF RemoveStep, StepPlaces, Places
<1>3. RemoveAt(op.steps, i) \in Seq(ToSet(op.steps)) /\ \A x \in ToSet(op.steps) : IsStep(x)
  BY <1>1, RemovedElements DEF IsOperation
<1>4. Alike([op EXCEPT !.steps = RemoveAt(op.steps, i)], op)
  BY <1>1, <1>3, SameSteps
<1> QED
  BY <1>1, <1>2, <1>4, RestoreHolds

LEMMA PutEntryHolds ==
    ASSUME BuilderInv, NEW name, NEW stepName, NEW e \in OfferedEntries,
           PutMappingEntry(name, stepName, e)
    PROVE  BuilderInv'
<1> DEFINE op == copy.operations[name]
           New(i) == Placed(op.steps[i].request.mapping, EntryPlaces(op.steps[i], e.target), e)
<1>1. name \in DOMAIN copy.operations /\ IsOperation(op)
  BY DEF BuilderInv, BuilderTypeOK, IsCopy, PutMappingEntry, Editable
<1>2. PICK i \in DOMAIN op.steps : Restore(name, [op EXCEPT !.steps[i].request.mapping = New(i)])
  BY DEF PutMappingEntry, Remap, StepPlaces, Places
<1>3. New(i) \in Seq(Entry)
  <2>1. op.steps[i].request.mapping \in Seq(Entry)
    BY <1>1 DEF IsOperation, IsStep, ToSet
  <2> QED
    BY <2>1, PlacedElements, BuilderAssumption
<1>4. Alike([op EXCEPT !.steps[i].request.mapping = New(i)], op)
  BY <1>1, <1>3, SameMapping
<1> QED
  BY <1>1, <1>2, <1>4, RestoreHolds

LEMMA RemoveEntryHolds ==
    ASSUME BuilderInv, NEW name, NEW stepName, NEW target,
           RemoveMappingEntry(name, stepName, target)
    PROVE  BuilderInv'
<1> DEFINE op == copy.operations[name]
           At(i) == EntryPlaces(op.steps[i], target)
           New(i) == RemoveAt(op.steps[i].request.mapping, CHOOSE j \in At(i) : TRUE)
<1>1. name \in DOMAIN copy.operations /\ IsOperation(op)
  BY DEF BuilderInv, BuilderTypeOK, IsCopy, RemoveMappingEntry, Editable
<1>2. PICK i \in DOMAIN op.steps :
        /\ op.steps[i].name = stepName
        /\ Restore(name, [op EXCEPT !.steps[i].request.mapping = New(i)])
  BY DEF RemoveMappingEntry, Remap, StepPlaces, Places
<1>3. New(i) \in Seq(Entry)
  <2>1. op.steps[i].request.mapping \in Seq(Entry)
    BY <1>1 DEF IsOperation, IsStep, ToSet
  <2>2. Cardinality(At(i)) = 1
    BY <1>2 DEF RemoveMappingEntry, ToSet
  <2>3. At(i) # {}
    BY <2>2, FS_EmptySet
  <2>4. At(i) \subseteq DOMAIN op.steps[i].request.mapping
    BY DEF EntryPlaces, Places
  <2> QED
    BY <2>1, <2>3, <2>4, RemovedElements
<1>4. Alike([op EXCEPT !.steps[i].request.mapping = New(i)], op)
  BY <1>1, <1>3, SameMapping
<1> QED
  BY <1>1, <1>2, <1>4, RestoreHolds

LEMMA BuilderStep == BuilderInv /\ [BuilderNext]_builderVars => BuilderInv'
<1> SUFFICES ASSUME BuilderInv, [BuilderNext]_builderVars PROVE BuilderInv'
  OBVIOUS
<1> QED
  BY BuilderStutters, SetIdentityHolds, SetAuthHolds, PutOperationHolds, RemoveOperationHolds,
     MarkHolds, PutStepHolds, RemoveStepHolds, PutEntryHolds, RemoveEntryHolds DEF BuilderNext

-----------------------------------------------------------------------------
(* A live run, step by step *)

\* What is rendered without a failure has the content type of its step.
LEMMA RenderedKeeps ==
    ASSUME NEW d, NEW s, IsStep(s), NEW facts, NEW live, ~IsFailure(RenderStep(d, s, facts, live))
    PROVE  Root(RenderStep(d, s, facts, live)).content_type = s.request.content_type
<1> DEFINE url == <<Resolve(s.request.url, facts, NoItem, live)>>
           secret == RenderedSecret(d, s, facts, live)
           names == RenderedName(s, facts, live)
           content == RenderedBody(s.request, facts, live)
           body == <<content>>
           D == ToSet(url) \union ToSet(secret) \union ToSet(names) \union ToSet(body)
           parts == (url \o secret) \o body \o names
<1>1. url \in Seq(ToSet(url)) /\ body \in Seq(ToSet(body))
  BY DEF ToSet
<1>2. secret \in Seq(ToSet(secret))
  <2> DEFINE key == Resolve(d.auth.secret, facts, NoItem, live)
  <2>1. secret = <<key>> \/ secret = <<>>
    BY DEF RenderedSecret
  <2> HIDE DEF key, secret
  <2>2. CASE secret = <<key>>
    BY <2>2 DEF ToSet
  <2>3. CASE secret = <<>>
    BY <2>3 DEF ToSet
  <2> QED
    BY <2>1, <2>2, <2>3
<1>3. names \in Seq(ToSet(names))
  <2> DEFINE n == Len(s.request.filename)
  <2>1. /\ names = [i \in 1 .. n |-> Resolve(s.request.filename[i], facts, NoItem, live)]
        /\ n \in Nat
    BY DEF RenderedName, IsStep
  <2> HIDE DEF names, n
  <2> QED
    BY <2>1, OwnSequence
<1>4. RenderStep(d, s, facts, live) = Rendered(s, url \o secret, content, names)
  BY DEF RenderStep
<1> HIDE DEF url, secret, names, content
<1>5. parts \in Seq(D)
  <2>1. url \in Seq(D) /\ secret \in Seq(D) /\ names \in Seq(D) /\ body \in Seq(D)
    BY <1>1, <1>2, <1>3, SeqMonotonic
  <2> HIDE DEF D, body
  <2> QED
    BY <2>1, ConcatProperties
<1>6. DOMAIN parts \subseteq Nat
  <2> HIDE DEF D, parts
  <2> QED
    BY <1>5
<1>7. FirstFailure(parts) = Missing
  <2>1. FirstFailure(parts) # Missing => IsFailure(FirstFailure(parts))
    <3> HIDE DEF parts
    <3> QED
      BY <1>6, FirstOfThem
  <2> QED
    BY <1>4, <2>1 DEF Rendered
<1>8. \A node : Root(Leaf(node)) = node
  BY DEF Root, Leaf
<1> QED
  BY <1>4, <1>7, <1>8 DEF Rendered

\* A run that has crashed did so at a crash site of one of the steps.
Located(S, run) ==
    /\ DOMAIN run = {"ended", "why", "outputs"}
    /\ run.ended = "crashed" => \E t \in S : run.why \in CrashSites(t)

LEMMA EndedLocated ==
    ASSUME NEW S, NEW run, Located(S, run), NEW how, NEW why,
           how = "crashed" => \E t \in S : why \in CrashSites(t)
    PROVE  Located(S, Ended(run, how, why))
BY DEF Located, Ended

\* How the ends of a step of S locate.
LEMMA StepSites ==
    ASSUME NEW S, NEW s \in S, NEW run, Located(S, run)
    PROVE  /\ Located(S, Ended(run, "failed", <<"carrier">>))
           /\ Located(S, Ended(run, "failed", <<"extract">>))
           /\ Located(S, Ended(run, "unsupported", <<"encoding">>))
           /\ Located(S, Ended(run, "unsupported", <<"transport">>))
           /\ Located(S, Ended(run, "crashed", <<"request">>))
           /\ s.transport = "http" /\ s.request.content_type = "form" =>
                Located(S, Ended(run, "crashed", <<"form">>))
           /\ s.answers => Located(S, Ended(run, "crashed", <<"parse">>))
           /\ s.answers /\ s.raises # {} => Located(S, Ended(run, "crashed", <<"path">>))
<1>1. /\ <<"request">> \in CrashSites(s)
      /\ s.transport = "http" /\ s.request.content_type = "form" => <<"form">> \in CrashSites(s)
      /\ s.answers => <<"parse">> \in CrashSites(s)
      /\ s.answers /\ s.raises # {} => <<"path">> \in CrashSites(s)
  BY DEF CrashSites
<1> QED
  BY <1>1, EndedLocated

LEMMA AuthLocated ==
    ASSUME NEW d, PluginRegistered(d.auth), NEW S, NEW s \in S, NEW run, Located(S, run), NEW answer
    PROVE  Located(S, AppliesAuth(d, s, run, answer))
BY StepSites DEF AppliesAuth, PluginRegistered

LEMMA HeardLocated ==
    ASSUME NEW S, NEW s \in S, NEW run, Located(S, run), NEW answer
    PROVE  Located(S, Heard(s, run, answer))
<1>1. Located(S, Parsed(s, run, answer))
  <2>1. CASE ~s.answers
    BY <2>1 DEF Parsed
  <2>2. CASE s.answers /\ answer = "unreadable"
    BY <2>2, StepSites DEF Parsed
  <2>3. CASE s.answers /\ answer # "unreadable" /\ LookedUp(answer) \intersect s.raises # {}
    BY <2>3, StepSites DEF Parsed
  <2>4. CASE s.answers /\ answer # "unreadable" /\ LookedUp(answer) \intersect s.raises = {}
    BY <2>4 DEF Parsed
  <2> QED
    BY <2>1, <2>2, <2>3, <2>4
<1>2. ASSUME NEW outputs PROVE Located(S, [run EXCEPT !.outputs = outputs])
  BY DEF Located
<1> QED
  BY <1>1, <1>2, StepSites DEF Heard

LEMMA ExchangeLocated ==
    ASSUME NEW S, NEW s \in S, s.transport = "http", NEW rendered,
           Root(rendered).content_type = s.request.content_type,
           NEW run, Located(S, run), NEW answer
    PROVE  Located(S, Exchange(s, rendered, run, answer))
<1> DEFINE encoded == IF run.ended # "no" THEN run ELSE Encoded(Root(rendered), run)
           sent == IF encoded.ended # "no" THEN encoded ELSE Transmitted(encoded, answer)
<1>1. Located(S, encoded)
  <2>1. CASE s.request.content_type = "form"
    BY <2>1, StepSites DEF Encoded
  <2>2. CASE s.request.content_type # "form"
    BY <2>2, StepSites DEF Encoded
  <2> QED
    BY <2>1, <2>2
<1> HIDE DEF encoded
<1>2. Located(S, sent)
  BY <1>1, StepSites DEF Transmitted
<1> HIDE DEF sent
<1>3. Located(S, Heard(s, sent, answer))
  BY <1>2, HeardLocated
<1>4. Exchange(s, rendered, run, answer) = IF sent.ended # "no" THEN sent ELSE Heard(s, sent, answer)
  BY DEF Exchange, sent, encoded
<1> QED
  BY <1>2, <1>3, <1>4

LEMMA StepLocated ==
    ASSUME NEW d, PluginRegistered(d.auth), NEW S, NEW s \in S, IsStep(s), NEW facts,
           NEW run, Located(S, run), NEW answer
    PROVE  Located(S, RunStep(d, s, facts, run, answer))
<1>1. PICK live : live = TRUE
  OBVIOUS
<1> DEFINE rendered == RenderStep(d, s, WithOutputs(facts, run), live)
<1>2. CASE IsFailure(rendered)
  <2>1. Located(S, Ended(run, "failed", Root(rendered).at))
    BY EndedLocated
  <2> QED
    BY <1>1, <1>2, <2>1 DEF RunStep, SendStep
<1>3. CASE ~IsFailure(rendered)
  <2>1. Root(rendered).content_type = s.request.content_type
    BY <1>3, RenderedKeeps
  <2>2. RunStep(d, s, facts, run, answer) =
            IF run.ended # "no" THEN run ELSE SendStep(d, s, rendered, run, answer)
    BY <1>1 DEF RunStep
  <2> HIDE DEF rendered
  <2>3. Located(S, Transmitted(run, answer))
    BY StepSites DEF Transmitted
  <2>4. Located(S, RunHttp(d, s, rendered, run, answer))
    <3>1. CASE s.transport # "http"
      BY <3>1, StepSites DEF RunHttp
    <3>2. CASE s.transport = "http"
      <4>1. Located(S, AppliesAuth(d, s, run, answer))
        BY AuthLocated
      <4> QED
        BY <2>1, <3>2, <4>1, ExchangeLocated DEF RunHttp
    <3> QED
      BY <3>1, <3>2
  <2> QED
    BY <1>3, <2>2, <2>3, <2>4 DEF SendStep
<1> QED
  BY <1>2, <1>3

\* The run after each step is what that step makes of the run before it.
LEMMA ProgressSteps ==
    ASSUME NEW d, NEW steps, Len(steps) \in Nat, NEW facts, NEW answers
    PROVE  Progress(d, steps, facts, answers) =
               [i \in 0 .. Len(steps) |->
                   IF i = 0 THEN Fresh
                   ELSE RunStep(d, steps[i], facts, Progress(d, steps, facts, answers)[i - 1],
                                answers[i])]
<1> DEFINE Ran(i, run) == RunStep(d, steps[i], facts, run, answers[i])
           UpTo(runs, n) == [i \in 0 .. n |-> IF i = 0 THEN Fresh ELSE Ran(i, runs[i - 1])]
           Bad == {n \in Nat : ~\E runs : runs = UpTo(runs, n)}
<1> SUFFICES \E runs : runs = UpTo(runs, Len(steps))
  BY DEF Progress
<1> HIDE DEF Ran
<1> SUFFICES ASSUME Bad # {} PROVE FALSE
  OBVIOUS
<1>1. PICK n \in Bad : \A m \in Bad : <<m, n>> \notin OpToRel(<, Nat)
  BY NatLessThanWellFounded, WFMin
<1>2. n # 0
  <2>1. [i \in 0 .. 0 |-> Fresh] = UpTo([i \in 0 .. 0 |-> Fresh], 0)
    OBVIOUS
  <2> QED
    BY <1>1, <2>1
<1>3. n \in Nat /\ n - 1 \in Nat /\ n # 0
  BY <1>2
<1>4. PICK runs : runs = UpTo(runs, n - 1)
  <2>1. <<n - 1, n>> \in OpToRel(<, Nat)
    BY <1>3 DEF OpToRel
  <2> QED
    BY <1>1, <1>3, <2>1
<1> DEFINE longer == [i \in 0 .. n |-> IF i = n THEN Ran(n, runs[n - 1]) ELSE runs[i]]
<1>5. longer = UpTo(longer, n)
  <2> SUFFICES ASSUME NEW i \in 0 .. n
               PROVE  longer[i] = IF i = 0 THEN Fresh ELSE Ran(i, longer[i - 1])
    OBVIOUS
  <2>1. CASE i = 0
    <3>1. longer[0] = runs[0] /\ runs[0] = Fresh
      BY <1>2, <1>3, <1>4
    <3> QED
      BY <2>1, <3>1
  <2>2. CASE i = n
    <3>1. n - 1 \in 0 .. n /\ n - 1 # n /\ n \in 0 .. n
      BY <1>3
    <3>2. longer[n] = Ran(n, runs[n - 1]) /\ longer[n - 1] = runs[n - 1]
      BY <3>1
    <3> QED
      BY <1>2, <2>2, <3>2
  <2>3. CASE i # 0 /\ i # n
    <3>1. i \in 0 .. n - 1 /\ i - 1 \in 0 .. n - 1 /\ i - 1 # n
      BY <1>3, <2>3
    <3>2. longer[i] = runs[i] /\ longer[i - 1] = runs[i - 1]
      BY <2>3, <3>1
    <3>3. runs[i] = Ran(i, runs[i - 1])
      BY <1>4, <2>3, <3>1
    <3> QED
      BY <2>3, <3>2, <3>3
  <2> QED
    BY <2>1, <2>2, <2>3
<1> QED
  BY <1>1, <1>5

LEMMA ProgressLocated ==
    ASSUME NEW d, PluginRegistered(d.auth), NEW steps, Len(steps) \in Nat, NEW facts, NEW answers,
           NEW S, \A i \in 1 .. Len(steps) : steps[i] \in S /\ IsStep(steps[i])
    PROVE  Located(S, Progress(d, steps, facts, answers)[Len(steps)])
<1> DEFINE runs == Progress(d, steps, facts, answers)
           n == Len(steps)
           Z == {i \in 0 .. n : Located(S, runs[i])}
<1>1. runs = [i \in 0 .. n |->
                 IF i = 0 THEN Fresh ELSE RunStep(d, steps[i], facts, runs[i - 1], answers[i])]
  BY ProgressSteps
<1> HIDE DEF runs
<1>2. n \in Nat
  OBVIOUS
<1>3. 0 \in Z
  <2>1. Located(S, Fresh)
    BY DEF Located, Fresh
  <2> QED
    BY <1>1, <1>2, <2>1
<1>4. \A i \in 1 .. n : i - 1 \in Z => i \in Z
  <2> SUFFICES ASSUME NEW i \in 1 .. n, i - 1 \in Z PROVE Located(S, runs[i])
    BY <1>2
  <2>1. runs[i] = RunStep(d, steps[i], facts, runs[i - 1], answers[i])
    BY <1>1, <1>2
  <2> QED
    BY <2>1, StepLocated
<1> HIDE DEF Z, n
<1>5. \A i \in 0 .. n : i \in Z
  BY <1>2, <1>3, <1>4, Upwards
<1> QED
  BY <1>2, <1>5 DEF Z, runs, n

LEMMA BookingsLocated ==
    ASSUME IsCopy(copy)
    PROVE  CrashesAreLocated
<1> SUFFICES ASSUME DefinitionOK(copy, TRUE), NEW name \in DOMAIN copy.operations,
                    NEW facts, NEW answers
             PROVE  Located(ToSet(copy.operations[name].steps),
                            ExecuteOperation(copy, name, facts, answers))
  BY DEF CrashesAreLocated, Runs, Located
<1> DEFINE steps == copy.operations[name].steps
<1>1. PluginRegistered(copy.auth)
  BY DEF DefinitionOK
<1>2. Len(steps) \in Nat /\ DOMAIN steps = 1 .. Len(steps)
  BY SequenceShape DEF IsCopy, IsOperation
<1>3. \A i \in DOMAIN steps : steps[i] \in ToSet(steps) /\ IsStep(steps[i])
  BY DEF IsCopy, IsOperation, ToSet
<1>4. ExecuteOperation(copy, name, facts, answers) = Progress(copy, steps, facts, answers)[Len(steps)]
  BY DEF ExecuteOperation
<1> HIDE DEF steps
<1>5. Located(ToSet(steps), Progress(copy, steps, facts, answers)[Len(steps)])
  BY <1>1, <1>2, <1>3, ProgressLocated
<1> QED
  BY <1>4, <1>5 DEF steps

-----------------------------------------------------------------------------
(* The facts of an order *)

\* A document of an order or of a carrier's own: no failure and no token in it.
Whole(doc) == IsDocument(doc) /\ IsPlain(doc)

LEMMA WholeLeaf == Whole(Null) /\ \A words : Whole(Text(words))
<1>1. \A node : IsDocument(Leaf(node)) /\ Leaf(node)[<<>>] = node /\ DOMAIN Leaf(node) = {<<>>}
  BY LeafDocument DEF Root
<1> QED
  BY <1>1 DEF Whole, IsPlain, Null, Text

LEMMA WholeDict ==
    ASSUME NEW parts, \A n \in DOMAIN parts : n \in Name /\ Whole(parts[n])
    PROVE  Whole(Dict(parts))
<1>1. IsDocument(Dict(parts))
  BY TreePaths DEF Whole, Dict
<1>2. IsPlain(Dict(parts))
  BY TreePlain DEF Whole
<1> QED
  BY <1>1, <1>2 DEF Whole

LEMMA WholePair ==
    ASSUME NEW x, NEW y, Whole(x), Whole(y)
    PROVE  Whole(ListOf(<<x, y>>)) /\ Whole(ListOf(<<x>>))
<1>1. DOMAIN <<x, y>> \subseteq DOMAIN Digits /\ DOMAIN <<x>> \subseteq DOMAIN Digits
  BY DEF Digits
<1>2. \A i \in DOMAIN <<x, y>> : Whole(<<x, y>>[i])
  OBVIOUS
<1>3. \A i \in DOMAIN <<x>> : Whole(<<x>>[i])
  OBVIOUS
<1> DEFINE two == <<x, y>>
           one == <<x>>
<1> HIDE DEF two, one
<1>4. Whole(ListOf(two))
  BY <1>1, <1>2, ListDocument DEF Whole, two
<1>5. Whole(ListOf(one))
  BY <1>1, <1>3, ListDocument DEF Whole, one
<1> QED
  BY <1>4, <1>5 DEF two, one

LEMMA WholeShipment == Whole(ShipmentFacts) /\ Whole(DeclaredFacts)
<1>1. Whole(Parcel)
  <2> DEFINE parts == [barcode |-> Text("barcode"), carrier_barcode |-> Null]
  <2>1. \A n \in DOMAIN parts : n \in Name /\ Whole(parts[n])
    BY WholeLeaf, BuilderAssumption DEF FactNames
  <2> HIDE DEF parts
  <2>2. Whole(Dict(parts))
    BY <2>1, WholeDict
  <2> QED
    BY <2>2 DEF Parcel, parts
<1>2. Whole(ShipmentFacts)
  <2> DEFINE parts == [number |-> Text("number"), lines |-> ListOf(<<Text("line"), Text("line")>>),
                       parcels |-> ListOf(<<Parcel, Parcel>>)]
  <2>1. Whole(Text("number")) /\ Whole(ListOf(<<Text("line"), Text("line")>>))
        /\ Whole(ListOf(<<Parcel, Parcel>>))
    BY <1>1, WholeLeaf, WholePair
  <2>2. \A n \in DOMAIN parts : n \in Name /\ Whole(parts[n])
    BY <2>1, BuilderAssumption DEF FactNames
  <2> HIDE DEF parts
  <2>3. Whole(Dict(parts))
    BY <2>2, WholeDict
  <2> QED
    BY <2>3 DEF ShipmentFacts, parts
<1>3. Whole(SentFacts)
  <2> DEFINE parts == [number |-> Text("number"), parcels |-> ListOf(<<Parcel, Parcel>>)]
  <2>1. Whole(Text("number")) /\ Whole(ListOf(<<Parcel, Parcel>>))
    BY <1>1, WholeLeaf, WholePair
  <2>2. \A n \in DOMAIN parts : n \in Name /\ Whole(parts[n])
    BY <2>1, BuilderAssumption DEF FactNames
  <2> HIDE DEF parts
  <2>3. Whole(Dict(parts))
    BY <2>2, WholeDict
  <2> QED
    BY <2>3 DEF SentFacts, parts
<1>4. Whole(DeclaredFacts)
  <2> DEFINE parts == [date |-> Text("date"), consignments |-> ListOf(<<SentFacts>>)]
  <2>1. Whole(Text("date")) /\ Whole(ListOf(<<SentFacts>>))
    BY <1>3, WholeLeaf, WholePair
  <2>2. \A n \in DOMAIN parts : n \in Name /\ Whole(parts[n])
    BY <2>1, BuilderAssumption DEF FactNames
  <2> HIDE DEF parts
  <2>3. Whole(Dict(parts))
    BY <2>2, WholeDict
  <2> QED
    BY <2>3 DEF DeclaredFacts, parts
<1> QED
  BY <1>2, <1>4

\* What the config holds is among the facts, under its root.
HoldsConfig(facts, config) == \A p \in DOMAIN config : <<"config">> \o p \in DOMAIN facts

LEMMA ConfigHeld ==
    ASSUME NEW config, Whole(config), NEW parts, \A n \in DOMAIN parts : n \in Name /\ Whole(parts[n]),
           "config" \in DOMAIN parts, parts["config"] = config
    PROVE  Whole(Dict(parts)) /\ HoldsConfig(Dict(parts), config)
<1>1. Whole(Dict(parts))
  BY WholeDict
<1>2. \A p \in Path : p \in DOMAIN Dict(parts) <=>
                          Head(p) \in DOMAIN parts /\ Tail(p) \in DOMAIN parts[Head(p)]
  BY TreePaths DEF Whole, Dict
<1>3. ASSUME NEW p \in DOMAIN config PROVE <<"config">> \o p \in DOMAIN Dict(parts)
  <2>1. p \in Seq(Name) /\ "config" \in Name
    BY DEF Whole, IsDocument
  <2>2. /\ <<"config">> \o p \in Path
        /\ Head(<<"config">> \o p) = "config" /\ Tail(<<"config">> \o p) = p
    BY <2>1, OneLonger
  <2> QED
    BY <1>2, <2>2
<1> QED
  BY <1>1, <1>3 DEF HoldsConfig

LEMMA DepotAdded ==
    ASSUME NEW facts, Whole(facts), NEW config, Whole(config), HoldsConfig(facts, config), NEW there
    PROVE  Whole(WithDepot(facts, there)) /\ HoldsConfig(WithDepot(facts, there), config)
<1> DEFINE parts == [code |-> Text("depot")]
           more == With(facts, "warehouse", Dict(parts))
<1>1. \A n \in DOMAIN parts : n \in Name /\ Whole(parts[n])
  BY WholeLeaf, BuilderAssumption DEF FactNames
<1>2. WithDepot(facts, there) = IF there THEN more ELSE facts
  BY DEF WithDepot
<1> HIDE DEF parts
<1>3. Whole(Dict(parts)) /\ "warehouse" \in Name /\ "config" \in Name
  BY <1>1, WholeDict, BuilderAssumption DEF FactNames
<1>4. /\ Whole(more)
      /\ \A p \in Path : Head(p) # "warehouse" => (p \in DOMAIN more <=> p \in DOMAIN facts)
  BY <1>3, WithPaths DEF Whole
<1> HIDE DEF more
<1>5. ASSUME NEW p \in DOMAIN config PROVE <<"config">> \o p \in DOMAIN more
  <2>1. <<"config">> \o p \in Path /\ Head(<<"config">> \o p) = "config"
    BY <1>3, OneLonger DEF Whole, IsDocument
  <2> QED
    BY <1>4, <2>1 DEF HoldsConfig
<1> QED
  BY <1>2, <1>4, <1>5 DEF HoldsConfig

LEMMA WholeFacts ==
    ASSUME NEW d, NEW name, NEW depot, NEW config \in Configs
    PROVE  /\ Whole(FactsOf(d, name, depot, config))
           /\ HoldsConfig(FactsOf(d, name, depot, config), config)
<1>1. Whole(config)
  BY BuilderAssumption DEF Whole
<1>2. Whole(OrderFacts(depot, config)) /\ HoldsConfig(OrderFacts(depot, config), config)
  <2> DEFINE parts == [shipment |-> ShipmentFacts, config |-> config]
  <2>1. /\ \A n \in DOMAIN parts : n \in Name /\ Whole(parts[n])
        /\ "config" \in DOMAIN parts /\ parts["config"] = config
    BY <1>1, WholeShipment, BuilderAssumption DEF FactNames
  <2> HIDE DEF parts
  <2>2. Whole(Dict(parts)) /\ HoldsConfig(Dict(parts), config)
    BY <1>1, <2>1, ConfigHeld
  <2> QED
    BY <1>1, <2>2, DepotAdded DEF OrderFacts, parts
<1>3. Whole(ManifestFacts(depot, config)) /\ HoldsConfig(ManifestFacts(depot, config), config)
  <2> DEFINE parts == [manifest |-> DeclaredFacts, config |-> config]
  <2>1. /\ \A n \in DOMAIN parts : n \in Name /\ Whole(parts[n])
        /\ "config" \in DOMAIN parts /\ parts["config"] = config
    BY <1>1, WholeShipment, BuilderAssumption DEF FactNames
  <2> HIDE DEF parts
  <2>2. Whole(Dict(parts)) /\ HoldsConfig(Dict(parts), config)
    BY <1>1, <2>1, ConfigHeld
  <2> QED
    BY <1>1, <2>2, DepotAdded DEF ManifestFacts, parts
<1> QED
  BY <1>2, <1>3 DEF FactsOf

-----------------------------------------------------------------------------
(* A live run: what a step extracts, and how it ends the run *)

LEMMA WholeTransformed ==
    ASSUME NEW name, NEW words, ~IsFailure(Transformed(name, Text(words)))
    PROVE  Whole(Transformed(name, Text(words)))
<1> DEFINE v == Text(words)
<1>1. Whole(v) /\ Whole(Text("joined")) /\ Whole(Text("part")) /\ Whole(Text(name))
  BY WholeLeaf
<1>2. \A x : Whole(x) => Whole(ListOf(<<x>>))
  BY WholePair
<1>3. Whole(ListOf(<<Text("part")>>))
  BY <1>1, <1>2
<1>4. IsFailure(Failure(<<"join">>)) /\ IsFailure(Failure(<<"lookup">>))
  BY FailureFails
<1> HIDE DEF v
<1> QED
  BY <1>1, <1>3, <1>4 DEF Transformed, v

\* What a run holds of the steps it has been through.
Steady(run) ==
    /\ DOMAIN run = {"ended", "why", "outputs"}
    /\ \A name \in DOMAIN run.outputs : name \in Name /\ Whole(run.outputs[name])

LEMMA SteadyFresh == Steady(Fresh)
BY DEF Steady, Fresh

LEMMA SteadyEnded ==
    ASSUME NEW run, Steady(run), NEW how, NEW why
    PROVE  /\ Steady(Ended(run, how, why))
           /\ Ended(run, how, why).ended = how /\ Ended(run, how, why).why = why
BY DEF Steady, Ended

LEMMA WholeExtracts ==
    ASSUME NEW s, IsStep(s), \A v \in Range(Extracted(s)) : ~IsFailure(v)
    PROVE  Whole(Dict(Extracted(s)))
<1> DEFINE parts == Extracted(s)
<1>1. DOMAIN parts \subseteq Name
  BY DEF Extracted, IsStep
<1>2. ASSUME NEW x \in DOMAIN parts PROVE Whole(parts[x])
  <2>1. parts[x] = Transformed(s.extract[x], Text(x))
    BY DEF Extracted
  <2>2. ~IsFailure(parts[x])
    BY DEF Range
  <2> QED
    BY <2>1, <2>2, WholeTransformed
<1> HIDE DEF parts
<1>3. Whole(Dict(parts))
  BY <1>1, <1>2, WholeDict
<1> QED
  BY <1>3 DEF parts

\* How a step leaves a run: as it was, failed at what did not render, failed at
\* the carrier, or at one of the things the engine cannot send or read.
Failures == {<<"carrier">>, <<"extract">>}
Faults   == {<<"form">>, <<"request">>, <<"parse">>, <<"path">>, <<"plugin">>, <<"transport">>, <<"encoding">>}
LeavesAs(next, run) ==
    /\ Steady(next)
    /\ \/ next.ended = run.ended /\ next.why = run.why
       \/ next.ended = "failed" /\ next.why \in Failures
       \/ next.ended \in {"crashed", "unsupported"} /\ next.why \in Faults

LEMMA LeavesEnded ==
    ASSUME NEW run, Steady(run)
    PROVE  /\ LeavesAs(run, run)
           /\ LeavesAs(Ended(run, "failed", <<"carrier">>), run)
           /\ LeavesAs(Ended(run, "failed", <<"extract">>), run)
           /\ LeavesAs(Ended(run, "crashed", <<"form">>), run)
           /\ LeavesAs(Ended(run, "crashed", <<"request">>), run)
           /\ LeavesAs(Ended(run, "crashed", <<"parse">>), run)
           /\ LeavesAs(Ended(run, "crashed", <<"path">>), run)
           /\ LeavesAs(Ended(run, "crashed", <<"plugin">>), run)
           /\ LeavesAs(Ended(run, "unsupported", <<"transport">>), run)
           /\ LeavesAs(Ended(run, "unsupported", <<"encoding">>), run)
BY SteadyEnded DEF LeavesAs, Failures, Faults

LEMMA HeardLeaves ==
    ASSUME NEW s, IsStep(s), NEW run, Steady(run), NEW answer
    PROVE  LeavesAs(Heard(s, run, answer), run)
<1> DEFINE parsed == Parsed(s, run, answer)
<1>0. LeavesAs(parsed, run)
  BY LeavesEnded DEF Parsed
<1> HIDE DEF parsed
<1>1. CASE parsed.ended # "no" \/ answer = "declined"
  BY <1>0, <1>1, LeavesEnded DEF Heard, parsed
<1>2. CASE /\ ~(parsed.ended # "no" \/ answer = "declined")
           /\ \E v \in Range(Extracted(s)) : IsFailure(v)
  BY <1>2, LeavesEnded DEF Heard, parsed
<1>3. CASE /\ ~(parsed.ended # "no" \/ answer = "declined")
           /\ \A v \in Range(Extracted(s)) : ~IsFailure(v)
  <2> DEFINE part == Dict(Extracted(s))
             outputs == [name \in DOMAIN run.outputs \union {s.name} |->
                            IF name = s.name THEN part ELSE run.outputs[name]]
             next == [run EXCEPT !.outputs = outputs]
  <2>1. Whole(part) /\ s.name \in Name
    BY <1>3, WholeExtracts DEF IsStep
  <2>2. Heard(s, run, answer) = next
    BY <1>3 DEF Heard, parsed
  <2> HIDE DEF part
  <2>3. \A name \in DOMAIN outputs : name \in Name /\ Whole(outputs[name])
    BY <2>1 DEF Steady
  <2> HIDE DEF outputs
  <2>4. /\ DOMAIN next = {"ended", "why", "outputs"} /\ next.outputs = outputs
        /\ next.ended = run.ended /\ next.why = run.why
    BY DEF Steady
  <2> HIDE DEF next
  <2>5. LeavesAs(next, run)
    BY <2>3, <2>4 DEF LeavesAs, Steady
  <2> QED
    BY <2>2, <2>5
<1> QED
  BY <1>1, <1>2, <1>3

LEMMA LeavesTwice ==
    ASSUME NEW a, NEW b, NEW c, LeavesAs(b, a), LeavesAs(c, b)
    PROVE  LeavesAs(c, a)
BY DEF LeavesAs

LEMMA HttpLeaves ==
    ASSUME NEW d, NEW s, IsStep(s), NEW rendered, NEW run, Steady(run), NEW answer
    PROVE  LeavesAs(RunHttp(d, s, rendered, run, answer), run)
<1> DEFINE authed == AppliesAuth(d, s, run, answer)
           encoded == IF authed.ended # "no" THEN authed ELSE Encoded(Root(rendered), authed)
           sent == IF encoded.ended # "no" THEN encoded ELSE Transmitted(encoded, answer)
<1>1. LeavesAs(authed, run)
  BY LeavesEnded DEF AppliesAuth
<1> HIDE DEF authed
<1>2. LeavesAs(encoded, authed)
  BY <1>1, LeavesEnded DEF Encoded, LeavesAs
<1> HIDE DEF encoded
<1>3. LeavesAs(sent, encoded)
  BY <1>2, LeavesEnded DEF Transmitted, LeavesAs
<1> HIDE DEF sent
<1>4. LeavesAs(Heard(s, sent, answer), sent)
  BY <1>3, HeardLeaves DEF LeavesAs
<1>5. LeavesAs(Exchange(s, rendered, authed, answer), run)
  <2>1. Exchange(s, rendered, authed, answer)
            = IF sent.ended # "no" THEN sent ELSE Heard(s, sent, answer)
    BY DEF Exchange, sent, encoded
  <2>2. LeavesAs(sent, run)
    BY <1>1, <1>2, <1>3, LeavesTwice
  <2> QED
    BY <1>4, <2>1, <2>2, LeavesTwice
<1> QED
  BY <1>5, LeavesEnded DEF RunHttp, authed

LEMMA StepLeaves ==
    ASSUME NEW d, NEW s, IsStep(s), NEW facts, NEW run, Steady(run), NEW answer,
           NEW rendered, rendered = RenderStep(d, s, WithOutputs(facts, run), TRUE)
    PROVE  LET next == RunStep(d, s, facts, run, answer) IN
               LeavesAs(next, run) \/ (/\ Steady(next) /\ run.ended = "no" /\ IsFailure(rendered)
                                       /\ next.ended = "failed" /\ next.why = Root(rendered).at)
<1>1. LeavesAs(Transmitted(run, answer), run)
  BY LeavesEnded DEF Transmitted
<1>2. LeavesAs(RunHttp(d, s, rendered, run, answer), run)
  BY HttpLeaves
<1>3. \A why : /\ Steady(Ended(run, "failed", why))
               /\ Ended(run, "failed", why).ended = "failed" /\ Ended(run, "failed", why).why = why
  BY SteadyEnded
<1> QED
  BY <1>1, <1>2, <1>3, LeavesEnded DEF RunStep, SendStep

\* What a step sees is the facts, but for what the steps before it extracted.
LEMMA SeesOutputs ==
    ASSUME NEW facts, Whole(facts), NEW run, Steady(run)
    PROVE  Whole(WithOutputs(facts, run)) /\ AlikeFacts(facts, WithOutputs(facts, run))
<1> DEFINE part == Dict(run.outputs)
           seen == With(facts, "steps", part)
<1>1. Whole(part) /\ "steps" \in Name
  BY WholeDict, BuilderAssumption DEF Steady, FactNames
<1>2. WithOutputs(facts, run) = seen
  BY DEF WithOutputs
<1> HIDE DEF part
<1>3. /\ Whole(seen)
      /\ \A p \in Path : Head(p) # "steps" => /\ p \in DOMAIN seen <=> p \in DOMAIN facts
                                              /\ p \in DOMAIN facts => seen[p] = facts[p]
  BY <1>1, WithPaths DEF Whole
<1> HIDE DEF seen
<1>4. AlikeFacts(facts, seen)
  BY <1>3 DEF AlikeFacts, Whole
<1> QED
  BY <1>2, <1>3, <1>4

-----------------------------------------------------------------------------
(* What the schema accepts reads *)

Roots == Shipment \union Manifest

LEMMA ValidHead ==
    ASSUME NEW p \in Path, NEW earlier, NEW inEach, NEW roots, roots \subseteq Roots,
           ValidSource(p, earlier, inEach, roots)
    PROVE  /\ Head(p) = "config" \/ Head(p) \in OrderRoots
           /\ DOMAIN earlier = {} => ReadsNoSteps(p)
BY DEF ValidSource, Roots, Shipment, Manifest, OrderRoots, ReadsNoSteps

\* A path whose config key the carrier's config holds, read from the facts a step sees.
LEMMA ProvidedPath ==
    ASSUME NEW config, Whole(config), NEW facts, HoldsConfig(facts, config),
           NEW seen, AlikeFacts(facts, seen), NEW p \in Path,
           ConfigKey(p) \subseteq DOMAIN config, Head(p) = "config" \/ Head(p) \in OrderRoots
    PROVE  Provided(p, seen)
<1>1. CASE Head(p) = "config"
  <2>1. Tail(p) \in DOMAIN config
    <3>1. CASE Len(p) > 1
      BY <1>1, <3>1 DEF ConfigKey
    <3>2. CASE ~(Len(p) > 1)
      <4>1. Tail(p) = <<>>
        BY <3>2, HeadAndTail DEF Path
      <4> QED
        BY <4>1 DEF Whole, IsDocument
    <3> QED
      BY <3>1, <3>2
  <2>2. p = <<"config">> \o Tail(p)
    BY <1>1, HeadAndTail
  <2>3. p \in DOMAIN facts
    BY <2>1, <2>2 DEF HoldsConfig
  <2>4. p \in DOMAIN seen
    BY <1>1, <2>3 DEF AlikeFacts
  <2> QED
    BY <1>1, <2>4 DEF Provided
<1>2. CASE Head(p) \in OrderRoots
  BY <1>2 DEF Provided
<1> QED
  BY <1>1, <1>2

LEMMA RootsOfAnOperation ==
    ASSUME NEW name, NEW op
    PROVE  FactRoots(name, op) \subseteq Roots
BY DEF FactRoots, Roots

LEMMA RootsOfTheSecret ==
    ASSUME NEW d, SecretResolves(d), d.auth.scheme \in {"query_key", "header_key"}, IsAuth(d.auth)
    PROVE  /\ d.auth.secret \in Path /\ ReadsNoSteps(d.auth.secret)
           /\ Head(d.auth.secret) = "config" \/ Head(d.auth.secret) \in OrderRoots
<1> DEFINE roots == IF DOMAIN d.operations = {} THEN Shipment ELSE Common(d.operations)
<1>1. d.auth.secret \in Path
  BY DEF IsAuth
<1>2. ValidSource(d.auth.secret, <<>>, FALSE, roots)
  BY DEF SecretResolves
<1>3. roots \subseteq Roots
  BY DEF Common, Roots
<1> HIDE DEF roots
<1>4. \A inEach : ValidSource(d.auth.secret, <<>>, inEach, roots) =>
          /\ Head(d.auth.secret) = "config" \/ Head(d.auth.secret) \in OrderRoots
          /\ DOMAIN <<>> = {} => ReadsNoSteps(d.auth.secret)
  BY <1>1, <1>3, ValidHead
<1>5. PICK off : off = FALSE
  OBVIOUS
<1>6. ValidSource(d.auth.secret, <<>>, off, roots)
  BY <1>2, <1>5
<1>7. DOMAIN <<>> = {}
  OBVIOUS
<1> QED
  BY <1>1, <1>4, <1>6, <1>7

\* The paths an entry reads, when the schema accepts it somewhere in a mapping.
LEMMA EntryReads ==
    ASSUME NEW e \in Entry, EntryOK(e), NEW earlier, NEW inEach, NEW roots, roots \subseteq Roots,
           EntryResolves(e, earlier, inEach, roots)
    PROVE  /\ {"const", "plugin"} \cap e.origins = {} =>
                /\ "source" \in e.origins /\ e.source \in Path
                /\ Head(e.source) = "config" \/ Head(e.source) \in OrderRoots
                /\ DOMAIN earlier = {} => ReadsNoSteps(e.source)
           /\ e.pluck # <<>> =>
                /\ e.pluck \in Path
                /\ Head(e.pluck) = "config" \/ Head(e.pluck) \in OrderRoots
                /\ DOMAIN earlier = {} => ReadsNoSteps(e.pluck)
<1>1. IsEntry(e)
  BY MappingAssumption
<1>2. ASSUME {"const", "plugin"} \cap e.origins = {}
      PROVE  /\ "source" \in e.origins /\ e.source \in Path
             /\ Head(e.source) = "config" \/ Head(e.source) \in OrderRoots
             /\ DOMAIN earlier = {} => ReadsNoSteps(e.source)
  <2>1. Cardinality(e.origins) = 1
    BY DEF EntryOK
  <2>2. e.origins # {}
    BY <2>1, FS_EmptySet
  <2>3. "source" \in e.origins /\ e.source \in Path
    BY <1>1, <1>2, <2>2 DEF IsEntry
  <2>4. ValidSource(e.source, earlier, inEach, roots)
    BY <2>3 DEF EntryResolves
  <2>5. /\ Head(e.source) = "config" \/ Head(e.source) \in OrderRoots
        /\ DOMAIN earlier = {} => ReadsNoSteps(e.source)
    BY <2>3, <2>4, ValidHead
  <2> QED
    BY <2>3, <2>5
<1>3. ASSUME e.pluck # <<>>
      PROVE  /\ e.pluck \in Path
             /\ Head(e.pluck) = "config" \/ Head(e.pluck) \in OrderRoots
             /\ DOMAIN earlier = {} => ReadsNoSteps(e.pluck)
  <2>1. e.pluck \in Path
    BY <1>1, <1>3 DEF IsEntry, Path
  <2>2. PICK on : on = TRUE
    OBVIOUS
  <2>3. ValidSource(e.pluck, earlier, on, roots)
    BY <1>3, <2>2 DEF EntryResolves
  <2>4. /\ Head(e.pluck) = "config" \/ Head(e.pluck) \in OrderRoots
        /\ DOMAIN earlier = {} => ReadsNoSteps(e.pluck)
    BY <2>1, <2>3, ValidHead
  <2> QED
    BY <2>1, <2>4
<1> QED
  BY <1>2, <1>3

\* What a step reads: a fact, a config key, or, unless it stands alone, an earlier step.
ReadsWell(p, alone) ==
    /\ p \in Path /\ (Head(p) = "config" \/ Head(p) \in OrderRoots)
    /\ alone => ReadsNoSteps(p)
EntryReadsWell(e, alone) ==
    /\ e \in Entry
    /\ {"const", "plugin"} \cap e.origins = {} => "source" \in e.origins /\ ReadsWell(e.source, alone)
    /\ e.pluck # <<>> => ReadsWell(e.pluck, alone)
StepReadsWell(s, alone) ==
    /\ ReadsWell(s.request.url, alone)
    /\ \A p \in ToSet(s.request.filename) : ReadsWell(p, alone)
    /\ \A e \in Everyone(s.request.mapping) : EntryReadsWell(e, alone)

LEMMA StepReads ==
    ASSUME NEW steps, NEW i \in DOMAIN steps, IsStep(steps[i]), MappingOK(steps[i].request),
           NEW roots, roots \subseteq Roots, StepResolves(steps, i, roots),
           NEW alone, alone => DOMAIN Earlier(steps, i) = {}
    PROVE  StepReadsWell(steps[i], alone)
<1> DEFINE s == steps[i]
           before == Earlier(steps, i)
<1>1. /\ s.request.url \in Path /\ s.request.filename \in Seq(Path) /\ s.request.mapping \in Seq(Entry)
  BY DEF IsStep
<1>2. /\ ValidSource(s.request.url, before, FALSE, roots)
      /\ \A p \in ToSet(s.request.filename) : ValidSource(p, before, FALSE, roots)
      /\ \A e \in ToSet(s.request.mapping) : EntryResolves(e, before, FALSE, roots)
      /\ \A e \in Inner(s.request.mapping) : EntryResolves(e, before, TRUE, roots)
  BY DEF StepResolves, MappingResolves
<1>3. alone => DOMAIN before = {}
  OBVIOUS
<1>4. \A e \in Everyone(s.request.mapping) : EntryOK(e)
  BY DEF MappingOK
<1> HIDE DEF s, before
<1>5. ASSUME NEW p \in Path, NEW on, ValidSource(p, before, on, roots) PROVE ReadsWell(p, alone)
  BY <1>3, <1>5, ValidHead DEF ReadsWell
<1>6. ReadsWell(s.request.url, alone)
  BY <1>1, <1>2, <1>5
<1>7. \A p \in ToSet(s.request.filename) : ReadsWell(p, alone)
  <2>1. ToSet(s.request.filename) \subseteq Path
    BY <1>1 DEF ToSet
  <2> QED
    BY <1>2, <1>5, <2>1
<1>8. ASSUME NEW e \in Everyone(s.request.mapping) PROVE EntryReadsWell(e, alone)
  <2>1. e \in Entry
    BY <1>1, LevelShape
  <2>2. \E on : EntryResolves(e, before, on, roots)
    BY <1>2 DEF Everyone
  <2>3. PICK on : EntryResolves(e, before, on, roots)
    BY <2>2
  <2> QED
    BY <1>3, <1>4, <2>1, <2>3, EntryReads DEF EntryReadsWell, ReadsWell
<1> QED
  BY <1>6, <1>7, <1>8 DEF StepReadsWell, s

-----------------------------------------------------------------------------
(* What authoring accepts renders *)

\* What the schema asks of each step of a definition.
LEMMA AcceptedStep ==
    ASSUME NEW d, IsCopy(d), DefinitionOK(d, FALSE), NEW name \in DOMAIN d.operations,
           NEW i \in DOMAIN d.operations[name].steps
    PROVE  LET steps == d.operations[name].steps IN
           /\ IsStep(steps[i]) /\ MappingOK(steps[i].request)
           /\ StepResolves(steps, i, FactRoots(name, d.operations[name]))
           /\ SecretResolves(d) /\ IsAuth(d.auth)
<1>1. OperationOK(d.operations[name], FALSE) /\ SourcesResolve(d)
  BY DEF DefinitionOK
<1>2. IsOperation(d.operations[name]) /\ IsAuth(d.auth)
  BY DEF IsCopy
<1>3. StepOK(d.operations[name].steps[i], FALSE)
  BY <1>1 DEF OperationOK, ToSet
<1> QED
  BY <1>1, <1>2, <1>3 DEF IsOperation, StepOK, SourcesResolve, ToSet

\* A complete config has the keys of every path of a step.
LEMMA KeysHeld ==
    ASSUME NEW d, NEW config, MissingConfigKeys(d, config) = {}, NEW name \in DOMAIN d.operations,
           NEW i \in DOMAIN d.operations[name].steps, NEW s, s = d.operations[name].steps[i]
    PROVE  /\ ConfigKey(s.request.url) \subseteq DOMAIN config
           /\ \A p \in ToSet(s.request.filename) : ConfigKey(p) \subseteq DOMAIN config
           /\ \A e \in Everyone(s.request.mapping) : EntryKeys(e) \subseteq DOMAIN config
           /\ d.auth.scheme \in {"query_key", "header_key"} =>
                  ConfigKey(d.auth.secret) \subseteq DOMAIN config
<1>1. \A key \in ReferencedConfigKeys(d) : key \in DOMAIN config
  BY DEF MissingConfigKeys
<1>2. StepKeys(s) \subseteq ReferencedConfigKeys(d)
  <2> DEFINE op == d.operations[name]
  <2>1. op \in Range(d.operations) /\ s \in ToSet(op.steps)
    BY DEF Range, ToSet
  <2> HIDE DEF op
  <2> QED
    BY <2>1 DEF ReferencedConfigKeys
<1>3. StepKeys(s) \subseteq DOMAIN config
  BY <1>1, <1>2
<1>4. \A e \in Everyone(s.request.mapping) : EntryKeys(e) \subseteq StepKeys(s)
  <2>1. \A e \in Everyone(s.request.mapping) : EntryKeys(e) \subseteq MappingKeys(s.request)
    BY DEF MappingKeys
  <2>2. MappingKeys(s.request) \subseteq StepKeys(s)
    BY DEF StepKeys
  <2> QED
    BY <2>1, <2>2
<1>5. /\ ConfigKey(s.request.url) \subseteq StepKeys(s)
      /\ \A p \in ToSet(s.request.filename) : ConfigKey(p) \subseteq StepKeys(s)
  BY DEF StepKeys
<1>6. d.auth.scheme \in {"query_key", "header_key"} =>
          ConfigKey(d.auth.secret) \subseteq ReferencedConfigKeys(d)
  BY DEF ReferencedConfigKeys
<1> QED
  BY <1>1, <1>3, <1>4, <1>5, <1>6

LEMMA AcceptedIsFair ==
    ASSUME NEW d, IsCopy(d), DefinitionOK(d, FALSE), NEW config, Whole(config),
           MissingConfigKeys(d, config) = {}, NEW name \in DOMAIN d.operations,
           NEW i \in DOMAIN d.operations[name].steps,
           NEW facts, HoldsConfig(facts, config), NEW seen, AlikeFacts(facts, seen)
    PROVE  FairStep(d, d.operations[name].steps[i], seen)
<1> DEFINE steps == d.operations[name].steps
           s == steps[i]
           roots == FactRoots(name, d.operations[name])
<1>1. /\ IsStep(s) /\ MappingOK(s.request) /\ StepResolves(steps, i, roots)
      /\ SecretResolves(d) /\ IsAuth(d.auth)
  BY AcceptedStep
<1>2. /\ ConfigKey(s.request.url) \subseteq DOMAIN config
      /\ \A p \in ToSet(s.request.filename) : ConfigKey(p) \subseteq DOMAIN config
      /\ \A e \in Everyone(s.request.mapping) : EntryKeys(e) \subseteq DOMAIN config
      /\ d.auth.scheme \in {"query_key", "header_key"} =>
             ConfigKey(d.auth.secret) \subseteq DOMAIN config
  BY KeysHeld
<1>3. PICK alone : alone = FALSE
  OBVIOUS
<1>4. roots \subseteq Roots
  BY RootsOfAnOperation
<1>5. StepReadsWell(s, alone)
  <2> HIDE DEF roots
  <2> QED
    BY <1>1, <1>3, <1>4, StepReads
<1> HIDE DEF s, steps, roots
<1>6. \A p \in Path : ConfigKey(p) \subseteq DOMAIN config
                      /\ (Head(p) = "config" \/ Head(p) \in OrderRoots) => Provided(p, seen)
  BY ProvidedPath
<1>7. Provided(s.request.url, seen)
  BY <1>2, <1>5, <1>6 DEF StepReadsWell, ReadsWell
<1>8. ASSUME d.auth.scheme \in {"query_key", "header_key"} PROVE Provided(d.auth.secret, seen)
  <2>1. /\ d.auth.secret \in Path
        /\ Head(d.auth.secret) = "config" \/ Head(d.auth.secret) \in OrderRoots
    BY <1>1, <1>8, RootsOfTheSecret
  <2> QED
    BY <1>2, <1>6, <1>8, <2>1
<1>9. \A k \in DOMAIN s.request.filename : Provided(s.request.filename[k], seen)
  <2>1. \A p \in ToSet(s.request.filename) : Provided(p, seen)
    BY <1>2, <1>5, <1>6 DEF StepReadsWell, ReadsWell
  <2> QED
    BY <2>1 DEF ToSet
<1>10. ASSUME NEW e \in Everyone(s.request.mapping) PROVE FairEntry(e, seen)
  <2>1. EntryReadsWell(e, alone) /\ EntryKeys(e) \subseteq DOMAIN config
    BY <1>2, <1>5 DEF StepReadsWell
  <2>2. {"const", "plugin"} \cap e.origins = {} => Provided(e.source, seen)
    BY <1>6, <2>1 DEF EntryReadsWell, ReadsWell, EntryKeys
  <2>3. e.pluck # <<>> => Provided(e.pluck, seen)
    BY <1>6, <2>1 DEF EntryReadsWell, ReadsWell, EntryKeys
  <2>4. TargetsAgree(e.each)
    BY <1>1 DEF MappingOK
  <2> QED
    BY <2>1, <2>2, <2>3, <2>4 DEF FairEntry, EntryReadsWell
<1>11. /\ s.request.filename \in Seq(Path) /\ s.request.mapping \in Seq(Entry)
       /\ TargetsAgree(s.request.mapping)
  BY <1>1 DEF IsStep, MappingOK
<1>12. FairStep(d, s, seen)
  BY <1>7, <1>8, <1>9, <1>10, <1>11 DEF FairStep
<1> QED
  BY <1>12 DEF s, steps

\* How a run of fair steps stands: what it says it failed at is fair.
FairRun(run) == Steady(run) /\ FairWhy(run.why)

LEMMA FairFaults == \A why \in Failures \union Faults : FairWhy(why)
BY FairWord DEF Failures, Faults

LEMMA FairlyRun ==
    ASSUME NEW d, NEW s, IsStep(s), NEW facts, Whole(facts), NEW answer, NEW run, FairRun(run),
           \A seen : AlikeFacts(facts, seen) => FairStep(d, s, seen)
    PROVE  FairRun(RunStep(d, s, facts, run, answer))
<1> DEFINE seen == WithOutputs(facts, run)
<1>1. PICK live : live = TRUE
  OBVIOUS
<1> DEFINE rendered == RenderStep(d, s, seen, live)
           next == RunStep(d, s, facts, run, answer)
<1>2. Whole(seen) /\ AlikeFacts(facts, seen)
  BY SeesOutputs DEF FairRun
<1>3. FairStep(d, s, seen)
  BY <1>2
<1>4. FairDoc(rendered)
  <2> HIDE DEF seen
  <2> QED
    BY <1>2, <1>3, FairRequest DEF Whole
<1>5. rendered = RenderStep(d, s, WithOutputs(facts, run), TRUE)
  BY <1>1
<1> HIDE DEF rendered, seen
<1>6. LeavesAs(next, run) \/ (/\ Steady(next) /\ run.ended = "no" /\ IsFailure(rendered)
                              /\ next.ended = "failed" /\ next.why = Root(rendered).at)
  BY <1>5, StepLeaves DEF FairRun
<1> HIDE DEF next
<1>7. FairRun(next)
  BY <1>4, <1>6, FairFaults DEF FairRun, LeavesAs, FairDoc
<1> QED
  BY <1>7 DEF next

LEMMA FairProgress ==
    ASSUME NEW d, NEW steps, Len(steps) \in Nat, NEW facts, Whole(facts), NEW answers,
           \A i \in 1 .. Len(steps) : IsStep(steps[i]),
           \A i \in 1 .. Len(steps) : \A seen : AlikeFacts(facts, seen) => FairStep(d, steps[i], seen)
    PROVE  FairRun(Progress(d, steps, facts, answers)[Len(steps)])
<1> DEFINE runs == Progress(d, steps, facts, answers)
           n == Len(steps)
           Z == {i \in 0 .. n : FairRun(runs[i])}
<1>1. runs = [i \in 0 .. n |->
                 IF i = 0 THEN Fresh ELSE RunStep(d, steps[i], facts, runs[i - 1], answers[i])]
  BY ProgressSteps
<1> HIDE DEF runs
<1>2. n \in Nat
  OBVIOUS
<1>3. 0 \in Z
  <2>1. Steady(Fresh) /\ FairWhy(Fresh.why)
    BY SteadyFresh DEF Fresh, FairWhy
  <2>2. FairRun(Fresh)
    BY <2>1 DEF FairRun
  <2> QED
    BY <1>1, <1>2, <2>2
<1>4. \A i \in 1 .. n : i - 1 \in Z => i \in Z
  <2> SUFFICES ASSUME NEW i \in 1 .. n, i - 1 \in Z PROVE FairRun(runs[i])
    BY <1>2
  <2>1. runs[i] = RunStep(d, steps[i], facts, runs[i - 1], answers[i])
    BY <1>1, <1>2
  <2> QED
    BY <2>1, FairlyRun
<1> HIDE DEF Z, n
<1>5. \A i \in 0 .. n : i \in Z
  BY <1>2, <1>3, <1>4, Upwards
<1> QED
  BY <1>2, <1>5 DEF Z, runs, n

LEMMA AcceptedRenders ==
    ASSUME IsCopy(copy)
    PROVE  RendersWhatItAccepts
<1> SUFFICES ASSUME DefinitionOK(copy, FALSE), NEW config \in Configs, MissingConfigKeys(copy, config) = {},
                    NEW name \in DOMAIN copy.operations, NEW depot \in BOOLEAN, NEW answers
             PROVE  FairWhy(ExecuteOperation(copy, name, FactsOf(copy, name, depot, config), answers).why)
  BY DEF RendersWhatItAccepts, Runs, FairWhy, OrderRoots
<1> DEFINE facts == FactsOf(copy, name, depot, config)
           steps == copy.operations[name].steps
<1>1. Whole(config) /\ Whole(facts) /\ HoldsConfig(facts, config)
  BY WholeFacts, BuilderAssumption DEF Whole
<1>2. Len(steps) \in Nat /\ DOMAIN steps = 1 .. Len(steps)
  BY SequenceShape DEF IsCopy, IsOperation
<1>3. \A i \in DOMAIN steps : IsStep(steps[i])
  BY AcceptedStep
<1> HIDE DEF facts
<1>4. \A i \in DOMAIN steps : \A seen : AlikeFacts(facts, seen) => FairStep(copy, steps[i], seen)
  BY <1>1, AcceptedIsFair
<1> HIDE DEF steps
<1>5. FairRun(Progress(copy, steps, facts, answers)[Len(steps)])
  BY <1>1, <1>2, <1>3, <1>4, FairProgress
<1> QED
  BY <1>5 DEF ExecuteOperation, FairRun, facts, steps

-----------------------------------------------------------------------------
(* What the gate rendered renders live *)

\* On its own, a step that reads no other resolves: nothing it reads is an output.
LEMMA KeptOff ==
    ASSUME NEW d, IsCopy(d), DefinitionOK(d, FALSE), NEW name \in DOMAIN d.operations,
           ~ReadsSteps(d, name), NEW i \in DOMAIN d.operations[name].steps
    PROVE  StepKeepsOff(d, d.operations[name].steps[i])
<1> DEFINE s == d.operations[name].steps[i]
           roots == FactRoots(name, d.operations[name])
           only == <<s>>
<1>1. IsStep(s) /\ MappingOK(s.request) /\ SecretResolves(d) /\ IsAuth(d.auth)
  BY AcceptedStep
<1>2. StepResolves(only, 1, roots)
  BY DEF ReadsSteps, ToSet
<1>3. 1 \in DOMAIN only /\ only[1] = s
  OBVIOUS
<1>4. DOMAIN Earlier(only, 1) = {}
  BY DEF Earlier
<1>5. roots \subseteq Roots
  BY RootsOfAnOperation
<1>6. PICK alone : alone = TRUE
  OBVIOUS
<1> HIDE DEF s, roots, only
<1>7. StepReadsWell(s, alone)
  BY <1>1, <1>2, <1>3, <1>4, <1>5, StepReads
<1>8. \A e \in Everyone(s.request.mapping) : KeepsOff(e)
  BY <1>6, <1>7 DEF StepReadsWell, EntryReadsWell, ReadsWell, KeepsOff
<1>9. /\ ReadsNoSteps(s.request.url)
      /\ \A k \in DOMAIN s.request.filename : ReadsNoSteps(s.request.filename[k])
  BY <1>6, <1>7 DEF StepReadsWell, ReadsWell, ToSet
<1>10. d.auth.scheme \in {"query_key", "header_key"} => ReadsNoSteps(d.auth.secret)
  BY <1>1, RootsOfTheSecret
<1>11. s.request.mapping \in Seq(Entry)
  BY <1>1 DEF IsStep
<1>12. StepKeepsOff(d, s)
  BY <1>8, <1>9, <1>10, <1>11 DEF StepKeepsOff
<1> QED
  BY <1>12 DEF s

LEMMA GateRendered ==
    ASSUME NEW d, NEW depot \in BOOLEAN, NEW config, Publishes(d, {depot}, {depot}, config),
           NEW name \in DOMAIN d.operations,
           NEW n \in Nat, DOMAIN d.operations[name].steps = 1 .. n, NEW i \in 1 .. n
    PROVE  ~IsFailure(RenderStep(d, d.operations[name].steps[i], FactsOf(d, name, depot, config), FALSE))
<1> DEFINE facts == FactsOf(d, name, depot, config)
           made == RenderOperation(d, name, facts)
<1>1. Renders(d, name, facts)
  <2>1. {depot} # {} /\ depot \in {depot} /\ ((TRUE \in {depot}) <=> depot)
    OBVIOUS
  <2>2. CASE FactRoots(name, d.operations[name]) = Manifest
    <3>1. Renders(d, name, ManifestFacts(TRUE \in {depot}, config))
      BY <2>1, <2>2 DEF Publishes, RenderGate
    <3>2. ManifestFacts(TRUE \in {depot}, config) = ManifestFacts(depot, config)
      BY <2>1 DEF ManifestFacts, WithDepot
    <3> QED
      BY <2>2, <3>1, <3>2 DEF FactsOf
  <2>3. CASE FactRoots(name, d.operations[name]) # Manifest
    <3>1. Renders(d, name, OrderFacts(depot, config))
      BY <2>1, <2>3 DEF Publishes, RenderGate
    <3> QED
      BY <2>3, <3>1 DEF FactsOf
  <2> QED
    BY <2>2, <2>3
<1>2. FirstFailure(made) = Missing
  BY <1>1 DEF Renders
<1> HIDE DEF facts
<1>3. made = [k \in 1 .. n |-> RenderStep(d, d.operations[name].steps[k], facts, FALSE)]
  BY DEF RenderOperation
<1> HIDE DEF made
<1>4. DOMAIN made \subseteq Nat
  BY <1>3
<1>5. \A k \in DOMAIN made : ~IsFailure(made[k])
  BY <1>2, <1>4, FirstOfThem
<1> QED
  BY <1>3, <1>5 DEF facts

\* How a run of steps that rendered stands: it failed at the carrier, if at all.
GatedRun(run) == Steady(run) /\ (run.ended = "failed" => run.why \in Failures)

LEMMA GatedlyRun ==
    ASSUME NEW d, NEW s, IsStep(s), StepKeepsOff(d, s), NEW facts, Whole(facts),
           ~IsFailure(RenderStep(d, s, facts, FALSE)), NEW answer, NEW run, GatedRun(run)
    PROVE  GatedRun(RunStep(d, s, facts, run, answer))
<1> DEFINE seen == WithOutputs(facts, run)
           next == RunStep(d, s, facts, run, answer)
<1>1. PICK live, off : live = TRUE /\ off = FALSE
  OBVIOUS
<1> DEFINE rendered == RenderStep(d, s, seen, live)
<1>2. AlikeFacts(facts, seen)
  BY SeesOutputs DEF GatedRun
<1>3. RenderStep(d, s, facts, off) = rendered
  <2> HIDE DEF seen
  <2> QED
    BY <1>2, SameOfflineAndLive
<1>4. ~IsFailure(rendered)
  BY <1>1, <1>3
<1>5. rendered = RenderStep(d, s, WithOutputs(facts, run), TRUE)
  BY <1>1
<1> HIDE DEF rendered, seen
<1>6. LeavesAs(next, run)
  BY <1>4, <1>5, StepLeaves DEF GatedRun
<1> HIDE DEF next
<1>7. GatedRun(next)
  BY <1>6 DEF GatedRun, LeavesAs
<1> QED
  BY <1>7 DEF next

LEMMA GatedProgress ==
    ASSUME NEW d, NEW steps, Len(steps) \in Nat, NEW facts, Whole(facts), NEW answers,
           \A i \in 1 .. Len(steps) : /\ IsStep(steps[i]) /\ StepKeepsOff(d, steps[i])
                                      /\ ~IsFailure(RenderStep(d, steps[i], facts, FALSE))
    PROVE  GatedRun(Progress(d, steps, facts, answers)[Len(steps)])
<1> DEFINE runs == Progress(d, steps, facts, answers)
           n == Len(steps)
           Z == {i \in 0 .. n : GatedRun(runs[i])}
<1>1. runs = [i \in 0 .. n |->
                 IF i = 0 THEN Fresh ELSE RunStep(d, steps[i], facts, runs[i - 1], answers[i])]
  BY ProgressSteps
<1> HIDE DEF runs
<1>2. n \in Nat
  OBVIOUS
<1>3. 0 \in Z
  <2>1. GatedRun(Fresh)
    BY SteadyFresh DEF GatedRun, Fresh
  <2> QED
    BY <1>1, <1>2, <2>1
<1>4. \A i \in 1 .. n : i - 1 \in Z => i \in Z
  <2> SUFFICES ASSUME NEW i \in 1 .. n, i - 1 \in Z PROVE GatedRun(runs[i])
    BY <1>2
  <2>1. runs[i] = RunStep(d, steps[i], facts, runs[i - 1], answers[i])
    BY <1>1, <1>2
  <2> QED
    BY <2>1, GatedlyRun
<1> HIDE DEF Z, n
<1>5. \A i \in 0 .. n : i \in Z
  BY <1>2, <1>3, <1>4, Upwards
<1> QED
  BY <1>2, <1>5 DEF Z, runs, n

LEMMA GatedRenders ==
    ASSUME IsCopy(copy)
    PROVE  GatedOrdersRender
<1> SUFFICES ASSUME NEW config \in Configs, NEW depot \in BOOLEAN,
                    Publishes(copy, {depot}, {depot}, config),
                    NEW name \in DOMAIN copy.operations, ~ReadsSteps(copy, name), NEW answers
             PROVE  GatedRun(ExecuteOperation(copy, name, FactsOf(copy, name, depot, config), answers))
  BY DEF GatedOrdersRender, Runs, GatedRun, Failures
<1> DEFINE facts == FactsOf(copy, name, depot, config)
           steps == copy.operations[name].steps
<1>1. Whole(facts)
  BY WholeFacts
<1>2. Len(steps) \in Nat /\ DOMAIN steps = 1 .. Len(steps)
  BY SequenceShape DEF IsCopy, IsOperation
<1>3. DefinitionOK(copy, FALSE)
  BY DEF Publishes
<1>4. \A i \in DOMAIN steps : IsStep(steps[i]) /\ StepKeepsOff(copy, steps[i])
  BY <1>3, AcceptedStep, KeptOff
<1>5. \A i \in 1 .. Len(steps) : ~IsFailure(RenderStep(copy, steps[i], facts, FALSE))
  BY <1>2, GateRendered
<1> HIDE DEF facts, steps
<1>6. GatedRun(Progress(copy, steps, facts, answers)[Len(steps)])
  BY <1>1, <1>2, <1>4, <1>5, GatedProgress
<1> QED
  BY <1>6 DEF ExecuteOperation, facts, steps

-----------------------------------------------------------------------------
(* Theorems *)

\* The inductive invariant of the builder: a copy keeps the shape of a definition, and what
\* is marked as not offered is not drafted (tools.put_operation, tools.mark_not_applicable).
THEOREM BuilderSafe == BuilderSpec => []BuilderInv
<1> QED
  BY BuilderInitHolds, BuilderStep, PTL DEF BuilderSpec

\* However a conversation goes, granular edits and seeds of older rules included, a
\* capability is not both drafted and marked, unless the client's own copy said so.
THEOREM MarksAreUndraftedHolds == BuilderSpec => []MarksAreUndrafted
<1>1. BuilderInv => MarksAreUndrafted
  BY DEF BuilderInv
<1> QED
  BY <1>1, BuilderSafe, PTL

\* A booking of a definition that loads, of any number of steps, under any facts and
\* answers, ends in a way the booking path handles, or at a form body, a request, an answer
\* or a response path that one of its steps has (execute.run_step, _encode, _xml_path).
THEOREM CrashesAreLocatedHolds == BuilderSpec => []CrashesAreLocated
<1>1. BuilderInv => CrashesAreLocated
  BY BookingsLocated DEF BuilderInv, BuilderTypeOK
<1> QED
  BY <1>1, BuilderSafe, PTL

\* What authoring accepts and a complete config completes does not fail a booking at a config
\* key, at a target or at an unknown root, whatever its mappings, at any nesting of entries, and
\* whatever the carrier answers (missing_config_keys, render._render_mapping).
THEOREM RendersWhatItAcceptsHolds == BuilderSpec => []RendersWhatItAccepts
<1>1. BuilderInv => RendersWhatItAccepts
  BY AcceptedRenders DEF BuilderInv, BuilderTypeOK
<1> QED
  BY <1>1, BuilderSafe, PTL

\* An operation that the publish gate rendered for an order, none of whose steps reads
\* another, renders for it live as well: a booking fails only at the carrier (definitions._render_gate).
THEOREM GatedOrdersRenderHolds == BuilderSpec => []GatedOrdersRender
<1>1. BuilderInv => GatedOrdersRender
  BY GatedRenders DEF BuilderInv, BuilderTypeOK
<1> QED
  BY <1>1, BuilderSafe, PTL
=============================================================================
