------------------------------ MODULE MCClient ------------------------------
(* Small instances of Client: requests and handles are model values, which *)
(* the safety run permutes.                                                *)
EXTENDS Client, TLC

AllHooks == {"none", "options", "steal"}
NoSteal  == {"none", "options"}

Interchangeable == Permutations(Requests) \union Permutations(Handles)

=============================================================================
