------------------------------ MODULE MCBooking ------------------------------
(* Small instances of Booking: requests for one order.                       *)
EXTENDS Booking, TLC
CONSTANTS r1, r2, r3, o1
SameOrder == [r \in Request |-> o1]
SymmetricRequests == Permutations(Request)

Carrierless == [steps |-> 0, mints |-> FALSE, label |-> "local",   manifest |-> FALSE]
LabelFromCarrier == [steps |-> 2, mints |-> TRUE,  label |-> "carrier", manifest |-> TRUE]
OneStep     == [steps |-> 1, mints |-> FALSE, label |-> "local",   manifest |-> TRUE]
ManyDefinitions == {Carrierless, LabelFromCarrier, OneStep}
TwoDefinitions == {Carrierless, LabelFromCarrier}
=============================================================================
