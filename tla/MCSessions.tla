----------------------------- MODULE MCSessions -----------------------------
(* Instances of Sessions for TLC. *)
EXTENDS Sessions, TLC

CONSTANTS default, ada, bob, known, other

Seeds == <<[name |-> default, password |-> other], [name |-> ada, password |-> known]>>
Symmetric == Permutations(Tabs) \cup Permutations(Nonces)

=============================================================================
