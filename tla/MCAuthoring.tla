----------------------------- MODULE MCAuthoring -----------------------------
(***************************************************************************)
(* Authoring: the builders that edit a definition or a rulebook, and the   *)
(* rails that number and publish what they save.  They share no state      *)
(* here: one is chosen at the start and runs alone, the others rest.       *)
(***************************************************************************)
EXTENDS MCBuilder, RulesBuilder, Rails

CONSTANTS q1, q2, q3, b1, k1, k2

VARIABLE scope
authoringVars == <<scope, builderVars, rulesVars, railsVars>>

SymmetricCallers == Permutations(Request) \union Permutations(Key)

\* Services: two that tie on cost, one banded and one for a group and its areas only.
Plain == [code |-> "plain", order |-> 1, weight_min |-> 0, weight_max |-> 300, countries |-> {"GB"},
          cost |-> 4, banded |-> FALSE, cost_bands |-> <<>>, charge_bands |-> <<>>,
          max_dimension |-> Unknown, max_girth |-> Unknown, served |-> Anywhere, blocked |-> {},
          propositions |-> {}, groups |-> {}]
Sized == [Plain EXCEPT !.code = "sized", !.order = 2, !.max_dimension = 60, !.max_girth = 150,
                       !.groups = {"nextday"}]
Local == [Plain EXCEPT !.code = "local", !.order = 3, !.cost = 3, !.served = {"highland"},
                       !.blocked = {"island"}, !.propositions = {"express"}]
Band(kind, least, most, charge, additional) ==
    [kind |-> kind, least |-> least, most |-> most, charge |-> charge, additional |-> additional]
Price(scopeType, code, least, charge, per) ==
    [scope |-> scopeType, code |-> code, warehouse |-> Unstated, least |-> least, most |-> 300,
     charge |-> charge, additional |-> 2, per |-> per]
Banded == [Plain EXCEPT !.code = "banded", !.order = 4, !.banded = TRUE,
    !.cost_bands = <<Band("weight", 0, 200, 3, 0), Band("weight", 100, 200, 2, 1),
                     Band("parcels", 2, 3, 1, 1), Band("fuel", 0, 0, 10, 0),
                     Band("dimension", 50, 0, 2, 0)>>,
    !.charge_bands = <<Price("all", "all", 0, 9, 100), Price("country", "GB", 0, 5, 100),
                       Price("country", "GB", 50, 4, 60), Price("area", "highland", 0, 7, 100)>>]
RulesSeeds == {<<Plain, Banded>>, <<Banded, Sized, Local>>, <<Plain, Plain>>, <<>>}
RulesNew == {Plain, Sized, [Sized EXCEPT !.code = "twin"], Local}
RulesChanges == {[order |-> 1], [cost |-> 3], [code |-> "plain"], [weight_max |-> 99, groups |-> {}],
                 [max_dimension |-> 40], [served |-> {"highland"}]}

\* Postcodes: one in two areas, one in the wider of them, one in none.
AuthoringGeography == {[prefix |-> <<"IV">>, country |-> "GB", area |-> "highland"],
                       [prefix |-> <<"IV", "1">>, country |-> "GB", area |-> "island"]}
Parcels == [country |-> "GB", weights |-> <<1004>>, postcode |-> <<"SW">>, dimension |-> 50, girth |-> 120,
            proposition |-> "express", groups |-> {}, warehouse |-> "north", force |-> Nothing]
AuthoringOrders ==
    {[Parcels EXCEPT !.postcode = p, !.weights = w, !.groups = g, !.dimension = 60 * Len(w)] :
        p \in {<<"SW">>, <<"IV", "2">>, <<"IV", "1">>}, w \in {<<1004>>, <<995, 995>>},
        g \in {{}, {"nextday"}}}
    \union {[Parcels EXCEPT !.force = "banded"], [Parcels EXCEPT !.force = "gone"],
            [Parcels EXCEPT !.girth = Unknown, !.proposition = Unstated]}

AuthoringInit ==
    /\ scope \in {"builder", "rules", "rails"}
    /\ BuilderInit /\ (scope = "builder" \/ copy.carrier = "unset")
    /\ RulesInit /\ (scope = "rules" \/ services = <<>>)
    /\ RailsInit /\ (scope = "rails" \/ (rail = "carrier" /\ needs = {} /\ serial = 0))

AuthoringNext ==
    /\ UNCHANGED scope
    /\ \/ scope = "builder" /\ BuilderNext /\ UNCHANGED <<rulesVars, railsVars>>
       \/ scope = "rules" /\ RulesNext /\ UNCHANGED <<builderVars, railsVars>>
       \/ scope = "rails" /\ RailsNext /\ UNCHANGED <<builderVars, rulesVars>>

AuthoringSpec == AuthoringInit /\ [][AuthoringNext]_authoringVars
=============================================================================
