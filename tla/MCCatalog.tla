----------------------------- MODULE MCCatalog -----------------------------
(* Instances of Catalog for TLC. *)
EXTENDS Catalog, TLC

CONSTANTS default, ada, bob, cleo

TwoSeededUsers == <<default, ada>>
BodyIds == {-1, 0, 3}
HandlerSymmetry == Permutations(Handlers)

=============================================================================
