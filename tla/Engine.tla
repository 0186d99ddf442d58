------------------------------- MODULE Engine -------------------------------
(***************************************************************************)
(* The engine: a definition's operation rendered from facts, and the       *)
(* rendered steps run over their transports.  The renderer is used twice.  *)
(* Offline (the publish gate, the golden replay) a step's output that no   *)
(* carrier has answered is a token; live, it must resolve.                 *)
(***************************************************************************)
EXTENDS CarrierDefinition

\* Only the http transport carries a key, and only uploads have a file name.
RenderedSecret(d, s, facts, live) ==
    IF s.transport = "http" /\ d.auth.scheme \in {"query_key", "header_key"}
    THEN <<Resolve(d.auth.secret, facts, NoItem, live)>> ELSE <<>>
RenderedName(s, facts, live) ==
    [i \in DOMAIN s.request.filename |-> Resolve(s.request.filename[i], facts, NoItem, live)]
\* The parts of a request in the order they are rendered, unless one fails.
Rendered(s, head, body, names) ==
    LET failed == FirstFailure(head \o <<body>> \o names) IN
    IF failed # Missing THEN failed
    ELSE Leaf([kind |-> "rendered", step |-> s.name, content_type |-> s.request.content_type,
               head |-> head \o names, body |-> body])
RenderStep(d, s, facts, live) ==
    Rendered(s, <<Resolve(s.request.url, facts, NoItem, live)>> \o RenderedSecret(d, s, facts, live),
             RenderedBody(s.request, facts, live), RenderedName(s, facts, live))

\* Every step of an operation at once, offline.
RenderOperation(d, name, facts) ==
    IF name \notin DOMAIN d.operations THEN <<Failure(<<"operation">>)>>
    ELSE LET steps == d.operations[name].steps IN
         [i \in DOMAIN steps |-> RenderStep(d, steps[i], facts, FALSE)]

-----------------------------------------------------------------------------
\* Live: a run is over when it has ended "failed" (a carrier call error),
\* "unsupported" (the engine cannot send that) or "crashed" (an exception that
\* neither the engine nor the booking path handles).
Fresh == [ended |-> "no", why |-> <<>>, outputs |-> <<>>]
Ended(run, how, why) == [run EXCEPT !.ended = how, !.why = why]

\* "declined" is an error status, or an answer that does not meet the success condition,
\* whose body is read for a message; "unreadable" is one the parser itself breaks down on;
\* "refused" is any other failure: no connection, a body that does not parse or lacks a
\* value.  "unsendable" is no answer: the transport cannot put the request on the wire (a
\* url it does not accept, a text its protocol cannot encode).
CarrierAnswer == {"ok", "declined", "unreadable", "refused", "unsendable", "no token"}

\* The places where reading an answer looks a path of the response up.  Nothing validates
\* these paths: s.raises are the places whose path the lookup itself raises on.
Lookups == {"success_when", "error_message", "extract"}
LookedUp(answer) == IF answer = "declined" THEN {"error_message"} ELSE {"success_when", "extract"}

Extracted(s) == [x \in DOMAIN s.extract |-> Transformed(s.extract[x], Text(x))]

\* A token that cannot be had is a failure, but a ValueError on the way to it (the
\* grant cannot be encoded) is raised again, as for a plugin that is not there.
AppliesAuth(d, s, run, answer) ==
    IF d.auth.scheme # "plugin" THEN run
    ELSE IF d.auth.plugin \notin DOMAIN AuthKeys THEN Ended(run, "crashed", <<"plugin">>)
    ELSE IF answer = "unsendable" THEN Ended(run, "crashed", <<"request">>)
    ELSE IF answer = "no token" THEN Ended(run, "failed", <<"carrier">>) ELSE run

\* A json body is sent as it is, a form needs flat fields, nothing else is encoded.
Encoded(rendered, run) ==
    CASE rendered.content_type = "json" -> run
      [] rendered.content_type = "form" ->
            IF \E path \in DOMAIN rendered.body :
                Len(path) = 1 /\ rendered.body[path].kind \in {"list", "dict"}
            THEN Ended(run, "crashed", <<"form">>) ELSE run
      [] OTHER -> Ended(run, "unsupported", <<"encoding">>)

\* Only an error of the transport is caught, not a request it cannot make.
Transmitted(run, answer) ==
    IF answer = "unsendable" THEN Ended(run, "crashed", <<"request">>)
    ELSE IF answer = "refused" THEN Ended(run, "failed", <<"carrier">>) ELSE run

\* Reading the answer, if the step expects one.
Parsed(s, run, answer) ==
    IF ~s.answers THEN run
    ELSE IF answer = "unreadable" THEN Ended(run, "crashed", <<"parse">>)
    ELSE IF LookedUp(answer) \intersect s.raises # {} THEN Ended(run, "crashed", <<"path">>)
    ELSE run

\* What the carrier says, and what the step takes from it.
Heard(s, run, answer) ==
    LET parsed == Parsed(s, run, answer) IN
    IF parsed.ended # "no" THEN parsed
    ELSE IF answer = "declined" THEN Ended(run, "failed", <<"carrier">>)
    ELSE IF \E v \in Range(Extracted(s)) : IsFailure(v) THEN Ended(run, "failed", <<"extract">>)
    ELSE [run EXCEPT !.outputs = [name \in DOMAIN run.outputs \union {s.name} |->
            IF name = s.name THEN Dict(Extracted(s)) ELSE run.outputs[name]]]

Exchange(s, rendered, run, answer) ==
    LET encoded == IF run.ended # "no" THEN run ELSE Encoded(Root(rendered), run)
        sent    == IF encoded.ended # "no" THEN encoded ELSE Transmitted(encoded, answer)
    IN  IF sent.ended # "no" THEN sent ELSE Heard(s, sent, answer)
RunHttp(d, s, rendered, run, answer) ==
    IF s.transport # "http" THEN Ended(run, "unsupported", <<"transport">>)
    ELSE Exchange(s, rendered, AppliesAuth(d, s, run, answer), answer)

SendStep(d, s, rendered, run, answer) ==
    IF IsFailure(rendered) THEN Ended(run, "failed", Root(rendered).at)
    ELSE IF s.transport \in Uploads THEN Transmitted(run, answer)
    ELSE RunHttp(d, s, rendered, run, answer)

\* A step sees what the steps before it extracted.
WithOutputs(facts, run) == With(facts, "steps", Dict(run.outputs))
RunStep(d, s, facts, run, answer) ==
    IF run.ended # "no" THEN run
    ELSE SendStep(d, s, RenderStep(d, s, WithOutputs(facts, run), TRUE), run, answer)

\* How the run stands after each step, the i-th answered by answers[i].
Progress(d, steps, facts, answers) ==
    LET runs[i \in 0 .. Len(steps)] ==
            IF i = 0 THEN Fresh ELSE RunStep(d, steps[i], facts, runs[i - 1], answers[i])
    IN  runs
ExecuteOperation(d, name, facts, answers) ==
    IF name \notin DOMAIN d.operations THEN Ended(Fresh, "crashed", <<"operation">>)
    ELSE LET steps == d.operations[name].steps IN Progress(d, steps, facts, answers)[Len(steps)]
=============================================================================
