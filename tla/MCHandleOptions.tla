-------------------------- MODULE MCHandleOptions --------------------------
(* Every method with every hook, bodies of two lengths and none.           *)
EXTENDS HandleOptions

SmallRequests ==
  [method : Methods, size : 0..2, headers : {"none", "own"}, hops : 0..1,
   hook : Hooks]

=============================================================================
