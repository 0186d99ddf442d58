----------------------------- MODULE MCInbound -----------------------------
(***************************************************************************)
(* Four components that requests run through at the same time.  They share *)
(* no state: one is chosen at the start and runs alone, so their state     *)
(* spaces add up.                                                          *)
(***************************************************************************)
EXTENDS NumberRange, TokenCache, LegacyStaging, Tracking

CONSTANTS a1, a2, a3, o1, o2, nextday, odd, c1, c2, e1, e2, e3

VARIABLE scope
inboundVars == <<scope, rangeVars, tokenVars, stagingVars, trackingVars>>

\* A delivery and an exception at one instant, and a movement without an event time.
EventStatus == e1 :> "delivered" @@ e2 :> "exception" @@ e3 :> "in_transit"
EventTime == e1 :> 1 @@ e2 :> 1 @@ e3 :> Unsaid

SymmetricActors == Permutations({a1, a2}) \union Permutations(Order)

InboundInit ==
    /\ scope \in {"range", "token", "staging", "tracking"}
    /\ RangeInit /\ (scope = "range" \/ range = NoRow)
    /\ TokenInit /\ StagingInit /\ TrackingInit

InboundNext ==
    /\ UNCHANGED scope
    /\ \/ scope = "range" /\ RangeNext /\ UNCHANGED <<tokenVars, stagingVars, trackingVars>>
       \/ scope = "token" /\ TokenNext /\ UNCHANGED <<rangeVars, stagingVars, trackingVars>>
       \/ scope = "staging" /\ StagingNext /\ UNCHANGED <<rangeVars, tokenVars, trackingVars>>
       \/ scope = "tracking" /\ TrackingNext /\ UNCHANGED <<rangeVars, tokenVars, stagingVars>>

InboundSpec == InboundInit /\ [][InboundNext]_inboundVars

\* Type correctness of all four, the counters within their bounds.
InboundTypeOK == RangeTypeOK /\ TokenTypeOK /\ StagingTypeOK /\ TrackingTypeOK
=============================================================================
