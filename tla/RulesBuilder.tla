---------------------------- MODULE RulesBuilder ----------------------------
(***************************************************************************)
(* The rules builder: a copy of the rulebook edited one service at a time, *)
(* dry-run against past orders, and saved by the operator.  The copy rides *)
(* with each turn from the client and is refused when it clashes.  A tool  *)
(* that refuses an edit changes nothing: it is a step not taken.           *)
(***************************************************************************)
EXTENDS Allocation

CONSTANTS
    LiveServices,  \* the copies a client may hand in: sequences of services
    NewServices,   \* services the model may add
    Changes,       \* and the fields it may set on one
    Orders,        \* the orders the rules meet
    MaxRuleEdits   \* bound on the edits of a conversation

ASSUME RulesAssumption == MaxRuleEdits \in Nat /\ \A o \in Orders : o.weights \in Seq(Int)

VARIABLES
    services,   \* the working copy
    ruleEdits   \* edits made

rulesVars == <<services, ruleEdits>>

RulesTypeOK ==
    /\ services \in Seq(ServiceDeclaration)
    /\ ruleEdits \in 0 .. MaxRuleEdits

\* The fields the builder does not set: a new service has no bands, an old one keeps its own.
Priced == {"banded", "cost_bands", "charge_bands"}

\* Every declaration handed in or edited is validated, with the copy it would make.
Valid(copy) == copy \in Seq(ServiceDeclaration) /\ NoClash(copy)

RulesInit ==
    /\ services \in {s \in LiveServices : Valid(s)}
    /\ ruleEdits = 0

RuleEdit == ruleEdits < MaxRuleEdits /\ ruleEdits' = ruleEdits + 1
CodesOf == {s.code : s \in ToSet(services)}
Keep(candidate) == RuleEdit /\ Valid(candidate) /\ services' = candidate
Merged(s, changes) ==
    [field \in DOMAIN s |-> IF field \in DOMAIN changes THEN changes[field] ELSE s[field]]

AddService(s) ==
    /\ ~s.banded /\ s.charge_bands = <<>>
    /\ Keep(Append(services, s))

UpdateService(code, changes) ==
    /\ code \in CodesOf
    /\ DOMAIN changes \intersect Priced = {}
    /\ Keep([i \in DOMAIN services |->
                IF services[i].code = code THEN Merged(services[i], changes) ELSE services[i]])

\* The service of that code goes; an empty copy is a state of the edit, not a rulebook.
RemoveService(code) ==
    /\ RuleEdit
    /\ \E i \in DOMAIN services : services[i].code = code /\ services' = RemoveAt(services, i)

RulesNext ==
    \/ \E s \in NewServices : AddService(s)
    \/ \E code \in CodesOf :
        \/ \E changes \in Changes : UpdateService(code, changes)
        \/ RemoveService(code)

RulesSpec == RulesInit /\ [][RulesNext]_rulesVars

-----------------------------------------------------------------------------
\* The services, and the bands of each, listed the other way round.
Relisted == Reverse([i \in DOMAIN services |->
    [services[i] EXCEPT !.cost_bands = Reverse(@), !.charge_bands = Reverse(@)]])

\* The same order under the same rules gets the same service at the same
\* price: however services and bands are listed (allocate, calculate_cost),
\* and when a dry run replays the row its dispatch left (_shipment_from).
SelectionIsRepeatable == IsRulebook(services) => \A o \in Orders :
    LET f == DispatchFacts(o) IN
    /\ Selected(Relisted, f) = Selected(services, f)
    /\ Quote(Relisted, f) = Quote(services, f)
    /\ o.force = Nothing => DryRun(services, {Recorded(services, o)}) = {}

\* A checkout that does not know some of the facts yet.
Hidden == [dimension |-> Unknown, girth |-> Unknown, proposition |-> Unstated,
           groups |-> {}, areas |-> {}, warehouse |-> Unstated]
AtCheckout(f, known) ==
    [fact \in DOMAIN f |-> IF fact \in DOMAIN Hidden \ known THEN Hidden[fact] ELSE f[fact]]

\* The service an order is dispatched with was on offer at its checkout,
\* however little the checkout knew of it (ADR 0007's optimism): no check
\* turns a missing fact into a refusal.
CheckoutIsOptimistic == IsRulebook(services) => \A o \in Orders : \A known \in SUBSET DOMAIN Hidden :
    LET f == DispatchFacts(o) IN
    Selected(services, f) # Nothing =>
        Selected(services, f) \in {q.code : q \in Quote(services, AtCheckout(f, known))}
=============================================================================
