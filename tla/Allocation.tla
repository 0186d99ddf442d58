----------------------------- MODULE Allocation -----------------------------
(***************************************************************************)
(* What the rulebook makes of an order: which services may take it, what   *)
(* each would cost, which one is selected, what a checkout is quoted, and  *)
(* what a dry run of other rules says of orders already dispatched.        *)
(*                                                                         *)
(* Quantities are whole numbers: weights in the hundredths of a kilogram   *)
(* they are stored in (an order's own in thousandths), costs in hundredths *)
(* of a price.  A postcode is the sequence of its parts.                   *)
(***************************************************************************)
EXTENDS Integers, Sequences, FiniteSets, FiniteSetsExt, SequencesExt

CONSTANT Geography  \* the postcode areas: a prefix, a country and an area each

Unknown  == -1            \* a limit not declared, a measure not stated, no charge
Unstated == "unstated"    \* no proposition, no warehouse
Anywhere == {"anywhere"}  \* areas_served left open
Nothing  == "nothing"     \* no service

\* A service, as its declaration is validated.
CostBand == [kind : {"weight", "parcels", "fuel", "dimension"},
             least : Int, most : Int, charge : Int, additional : Int]
ChargeBand == {b \in [scope : {"area", "country", "all"}, code : STRING, warehouse : STRING,
                      least : Nat, most : Nat, charge : Nat, additional : Nat, per : Nat \ {0}] :
                  b.least =< b.most}
ServiceDeclaration ==
    [code : STRING, order : Int, weight_min : Int, weight_max : Int, countries : SUBSET STRING,
     cost : Int, banded : BOOLEAN, cost_bands : Seq(CostBand), charge_bands : Seq(ChargeBand),
     max_dimension : Int, max_girth : Int, served : SUBSET STRING, blocked : SUBSET STRING,
     propositions : SUBSET STRING, groups : SUBSET STRING]

-----------------------------------------------------------------------------
\* The eight checks of a service s against the facts f.  A fact not known does
\* not stand against it.
CountryAllowed(s, f) == f.country \in s.countries
WeightInBand(s, f) == s.weight_min =< f.weight /\ f.weight =< s.weight_max
DimensionFits(s, f) == Unknown \in {s.max_dimension, f.dimension} \/ f.dimension =< s.max_dimension
GirthFits(s, f) == Unknown \in {s.max_girth, f.girth} \/ f.girth =< s.max_girth
Fulfils(s, f) == s.propositions = {} \/ f.proposition \in s.propositions \union {Unstated}
InAcceptedGroup_variant(s, f) == f.groups \intersect s.groups # {}
InAcceptedGroup(s, f) == f.groups = {} \/ f.groups \intersect s.groups # {}
AreaServed(s, f) == s.served = Anywhere \/ f.areas = {} \/ f.areas \intersect s.served # {}
AreaOpen(s, f) == f.areas \intersect s.blocked = {}

Passes(s, f) ==
    /\ CountryAllowed(s, f) /\ WeightInBand(s, f)
    /\ DimensionFits(s, f) /\ GirthFits(s, f)
    /\ Fulfils(s, f) /\ InAcceptedGroup(s, f)
    /\ AreaServed(s, f) /\ AreaOpen(s, f)

-----------------------------------------------------------------------------
\* Delivery cost: the cheapest weight band and the cheapest parcel band that
\* match, fuel on both, then a surcharge for each threshold exceeded.
BandsFor(bands, kind, n) ==
    {b \in ToSet(bands) : b.kind = kind /\ b.least =< n /\ n =< b.most}
BandCost(b, n) == b.charge + (n - b.least) * b.additional
Cheapest(prices) == IF prices = {} THEN 0 ELSE Min(prices)
SumOver(F, S) == MapThenSumSet(LAMBDA i : F[i], S)
Total(bands, counted) == SumOver([i \in counted |-> bands[i].charge], counted)

WeightCosts(bands, f) == {BandCost(b, f.weight) : b \in BandsFor(bands, "weight", f.weight)}
ParcelCosts(bands, f) == {BandCost(b, f.parcels) :
    b \in IF f.parcels > 0 THEN BandsFor(bands, "parcels", f.parcels) ELSE {}}
OverDimension(bands, f) ==
    {i \in DOMAIN bands : bands[i].kind = "dimension" /\ f.dimension # Unknown
                                                    /\ f.dimension > bands[i].least}
CalculateCost(bands, f) ==
    LET carriage == Cheapest(WeightCosts(bands, f)) + Cheapest(ParcelCosts(bands, f))
        fuel     == Total(bands, {i \in DOMAIN bands : bands[i].kind = "fuel"})
        oversize == Total(bands, OverDimension(bands, f))
    IN  carriage * (100 + fuel) + oversize * 100

\* A service with bands of which none matches has no cost.
HasCost(s, f) ==
    s.banded => WeightCosts(s.cost_bands, f) \union ParcelCosts(s.cost_bands, f) # {}
SelectionCost(s, f) == IF s.banded THEN CalculateCost(s.cost_bands, f) ELSE s.cost * 100

\* Delivery charge: the narrowest scope with a band for the weight, the
\* cheapest of its bands, each started increment in full.
Increments(kg, per) == (kg + per - 1) \div per
BandCharge(b, weight) == b.charge + Increments(weight - b.least, b.per) * b.additional
ChargeBands(s, f, scope, codes) ==
    {b \in ToSet(s.charge_bands) : /\ b.scope = scope /\ b.code \in codes
                                   /\ b.warehouse \in {Unstated, f.warehouse}
                                   /\ b.least =< f.weight /\ f.weight =< b.most}
CalculateCharge(s, f) ==
    LET area     == ChargeBands(s, f, "area", f.areas)
        country  == ChargeBands(s, f, "country", {f.country})
        narrowest == IF area # {} THEN area
                     ELSE IF country # {} THEN country ELSE ChargeBands(s, f, "all", {"all"})
    IN  IF narrowest = {} THEN Unknown ELSE Min({BandCharge(b, f.weight) : b \in narrowest})

-----------------------------------------------------------------------------
\* No two services share a code or a place in the tie-break; rules that are saved,
\* or dry-run, have at least one.
NoClash_variant(services) == \A i, j \in DOMAIN services :
    i # j => services[i].code # services[j].code
NoClash(services) == \A i, j \in DOMAIN services :
    i # j => services[i].code # services[j].code /\ services[i].order # services[j].order
IsRulebook(services) == services # <<>> /\ NoClash(services)

\* Results are looked up by code: of two services of one code, the later one's.
ResultOf(services, code) == services[Max({i \in DOMAIN services : services[i].code = code})]
Eligible(services, f) ==
    {i \in DOMAIN services : Passes(ResultOf(services, services[i].code), f)}
Costed(services, f) ==
    {i \in Eligible(services, f) : HasCost(services[i], f)}

\* The cheapest wins, then the lower tie-break, then the one listed first.
Beats(services, f, i, j) ==
    LET a == SelectionCost(services[i], f)
        b == SelectionCost(services[j], f)
        p == services[i].order
        q == services[j].order
    IN  a < b \/ (a = b /\ (p < q \/ (p = q /\ i =< j)))
Selected(services, f) ==
    LET costed == Costed(services, f) IN
    IF costed = {} THEN Nothing
    ELSE services[CHOOSE i \in costed : \A j \in costed : Beats(services, f, i, j)].code

\* What a checkout is shown: every service it may get, with its charge.
Quote(services, f) ==
    {[code |-> services[i].code, charge |-> CalculateCharge(services[i], f)] :
        i \in Costed(services, f)}

-----------------------------------------------------------------------------
\* The areas of a postcode: those of every prefix of it.
ResolveAreas(postcode, country) ==
    {g.area : g \in {h \in Geography : h.country = country /\ IsPrefix(h.prefix, postcode)}}

\* Parcels are rounded to hundredths before they are added up.
RoundWeight(weight) == (weight + 5) \div 10
SumOf(weights) == SumOver(weights, DOMAIN weights)

\* The facts an order is dispatched on.
DispatchFacts(o) ==
    [country |-> o.country, weight |-> SumOf([i \in DOMAIN o.weights |-> RoundWeight(o.weights[i])]),
     parcels |-> Len(o.weights), dimension |-> o.dimension, girth |-> o.girth,
     proposition |-> o.proposition, groups |-> o.groups, warehouse |-> o.warehouse,
     areas |-> ResolveAreas(o.postcode, o.country)]

\* A forced service is taken whatever the checks say, if the rules have it at all.
AllocateRequest(services, o) ==
    IF o.force = Nothing THEN Selected(services, DispatchFacts(o))
    ELSE IF o.force \in {s.code : s \in ToSet(services)} THEN o.force ELSE Nothing

\* The row a dispatch leaves: parcels rounded, the facts, the outcome.
Recorded(services, o) ==
    [weights |-> [i \in DOMAIN o.weights |-> RoundWeight(o.weights[i])],
     country |-> o.country, postcode |-> o.postcode, dimension |-> o.dimension,
     girth |-> o.girth, proposition |-> o.proposition, groups |-> o.groups,
     warehouse |-> o.warehouse, service |-> AllocateRequest(services, o)]

\* The facts of a row, its areas resolved again, as a dry run rebuilds them.
ShipmentFrom(row) ==
    [country |-> row.country, weight |-> SumOf(row.weights), parcels |-> Len(row.weights),
     dimension |-> row.dimension, girth |-> row.girth, proposition |-> row.proposition,
     groups |-> row.groups, warehouse |-> row.warehouse,
     areas |-> ResolveAreas(row.postcode, row.country)]

DryRun(services, rows) == {row \in rows : Selected(services, ShipmentFrom(row)) # row.service}
=============================================================================
