---------------------------- MODULE MCEpollHttp ----------------------------
(* A pool of two handles, and requests for which it is too small.          *)
EXTENDS EpollHttp

CONSTANTS h1, h2, h3

Three   == {h1, h2, h3}
TwoMade == <<h1, h2>>

=============================================================================
