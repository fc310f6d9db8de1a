---------------------------- MODULE MCSqlitePool ----------------------------
(* Instances of SqlitePool for TLC. *)
EXTENDS SqlitePool, TLC

CONSTANTS default, ada, bob, cleo

SeededUsers == <<default, ada>>
HandlerSymmetry == Permutations(Handlers)

=============================================================================
