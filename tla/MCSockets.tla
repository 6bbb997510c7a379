----------------------------- MODULE MCSockets ------------------------------
(* Small instances of Sockets: two numbers, so that one is reused while    *)
(* the other is in use, and model values that TLC may permute.             *)
EXTENDS Sockets, TLC

Interchangeable ==
  Permutations(Fds) \union Permutations(States) \union Permutations(Flags)

=============================================================================
