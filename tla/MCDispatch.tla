----------------------------- MODULE MCDispatch -----------------------------
(* Small instances of Dispatch: one carrier, one or two warehouses.          *)
EXTENDS Dispatch, TLC
CONSTANTS c1, c2, g1, g2, k1
OneGroup    == [c \in Consignment |-> g1]
GroupEach   == [c \in Consignment |-> IF c = c1 THEN g1 ELSE g2]
OneCarrier  == [g \in Group |-> k1]
SymmetricIds == Permutations(ManifestId) \union Permutations(Txn)
=============================================================================
