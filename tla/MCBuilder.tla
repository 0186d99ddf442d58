------------------------------ MODULE MCBuilder ------------------------------
(***************************************************************************)
(* The edits a builder conversation may ask for, one of each kind the      *)
(* rules tell apart, and the copies it may start from.                     *)
(***************************************************************************)
EXTENDS CarrierBuilder

\* Mapping entries.
Blank == [origins |-> {"source"}, source |-> <<>>, plugin |-> "none", transform |-> "none",
          each |-> <<>>, pluck |-> <<>>, target |-> <<>>]
From(target, source) == [Blank EXCEPT !.target = target, !.source = source]
Number   == From(<<"ref">>, <<"shipment", "number">>)
Lines    == From(<<"lines">>, <<"shipment", "lines">>)
Joined   == [From(<<"ref">>, <<"shipment", "lines">>) EXCEPT !.transform = "join"]
Inside   == From(<<"ref", "0">>, <<"warehouse", "code">>)
Echo     == [From(<<"echo">>, <<"steps", "book", "ref">>) EXCEPT !.transform = "join"]
Items    == [From(<<"items">>, <<"shipment", "parcels">>) EXCEPT !.each =
               <<From(<<"code">>, <<"item", "barcode">>), From(<<"site">>, <<"config", "site">>)>>]
Codes    == [From(<<"codes">>, <<"shipment", "parcels">>) EXCEPT !.pluck = <<"item", "barcode">>]
Typo     == From(<<"typo">>, <<"shipmnt", "number">>)
Gone     == From(<<"gone">>, <<"shipment", "phone">>)
Computed == [Blank EXCEPT !.origins = {"plugin"}, !.plugin = "consignment_number", !.target = <<"n">>]
Wrapped  == From(<<"@ref">>, <<"shipment", "lines">>)
Day      == From(<<"day">>, <<"manifest", "date">>)
Sent     == [From(<<"sent">>, <<"manifest", "consignments">>) EXCEPT !.each =
               <<From(<<"ref">>, <<"item", "number">>),
                 [Items EXCEPT !.source = <<"item", "parcels">>]>>]
Retold   == [Items EXCEPT !.each = <<Echo>>]
Entries  == {Number, Joined, Inside, Echo, Items, Codes, Typo, Gone, Computed, Wrapped}
BuilderEntries == LET some == Entries \union {Day, Sent, Retold, Lines} IN
    some \union UNION {ToSet(e.each) : e \in some}

\* Steps.
Step(name, transport, content, mapping) ==
    [name |-> name, transport |-> transport, answers |-> transport = "http",
     raises |-> {}, extract |-> IF transport = "http" THEN "ref" :> "none" ELSE <<>>,
     request |-> [url |-> <<"config", "url">>, content_type |-> content, mapping |-> mapping,
                  named |-> transport \in Uploads, root_element |-> content = "xml",
                  filename |-> IF transport \in Uploads THEN <<<<"shipment", "number">>>> ELSE <<>>]]
Booked  == Step("book", "http", "json", <<Number>>)
Form    == Step("book", "http", "form", <<Number>>)
Csv     == Step("book", "ftp_upload", "csv", <<Number>>)
Edi     == Step("book", "sftp_upload", "xml", <<>>)
Confirm == [Step("confirm", "http", "json", <<>>) EXCEPT !.request.url = <<"steps", "book", "ref">>]
\* One that reads what its predecessor extracted inside an each only.
Told    == Step("tell", "http", "json", <<Retold>>)
\* One whose paths into an xml response the lookup raises on.
Marked == [Form EXCEPT !.raises = {"success_when", "error_message"}]
\* Steps the rules of authoring no longer take.
OldRow    == Step("book", "ftp_upload", "csv", <<Lines>>)
OldLabel  == Step("book", "local_render", "json", <<Number>>)
OldSource == Step("book", "http", "json", <<Typo>>)

Steps == {Booked, Form, Csv, Edi, Confirm}

Op(steps) == [steps |-> steps, label |-> "none", from_extract |-> "none", fan_out |-> FALSE,
              allocate |-> <<>>]
Labelled == [Op(<<Booked>>) EXCEPT !.label = "base64_pdf", !.from_extract = "ref"]
Declared == Op(<<Step("confirm", "http", "json", <<Day, Sent>>)>>)
FannedOut == [Op(<<Csv>>) EXCEPT !.fan_out = TRUE]
Minted == [Op(<<Booked>>) EXCEPT !.allocate = <<[prefix |-> <<"config", "prefix">>, policy |-> "halt"]>>]
Operations == {[name |-> "book", op |-> Op(<<Booked>>)], [name |-> "book", op |-> Op(<<Form>>)],
               [name |-> "book", op |-> Labelled], [name |-> "book", op |-> Minted],
               [name |-> "manifest", op |-> Declared], [name |-> "manifest", op |-> FannedOut]}

NoAuth  == [scheme |-> "none", secret |-> <<>>, plugin |-> "none"]
KeyAuth == [NoAuth EXCEPT !.scheme = "header_key", !.secret = <<"config", "secret">>]
ShipmentAuth == [KeyAuth EXCEPT !.secret = <<"shipment", "number">>]
Plugin(name) == [NoAuth EXCEPT !.scheme = "plugin", !.plugin = name]
Auths == {NoAuth, KeyAuth, ShipmentAuth, Plugin("oauth"), Plugin("unbuilt")}

Copy(carrier, auth, ops) == [carrier |-> carrier, auth |-> auth, operations |-> ops]
SeedOf(c) == [copy |-> c, marks |-> {}]
BuilderSeeds ==
    {[copy |-> Copy("unset", [NoAuth EXCEPT !.scheme = "unset"], <<>>), marks |-> {<<"label", "reason">>,
        <<"manifest", "">>, <<"book", "reason">>}],
     [copy |-> Copy("safe", NoAuth, "book" :> Labelled), marks |-> {<<"label", "reason">>}]}
    \union {SeedOf(Copy("safe", NoAuth, "book" :> Op(steps))) :
              steps \in {<<Booked>>, <<Csv>>, <<Edi>>, <<Booked, Confirm>>, <<Booked, Told>>, <<Marked>>, <<OldRow>>,
                         <<OldLabel>>, <<OldSource>>}}
    \union {SeedOf(Copy("safe", NoAuth, "manifest" :> Declared))}

Held(keys) == Dict([k \in keys |-> Text(k)])
BuilderConfigs == {Held({"url"}), Held({"url", "site", "secret", "prefix", "token_url"})}
AnyName == STRING
BuilderPlugins == {"consignment_number"}
BuilderAuthKeys == "oauth" :> {<<"token_url">>}
=============================================================================
