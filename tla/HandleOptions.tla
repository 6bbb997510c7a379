--------------------------- MODULE HandleOptions ---------------------------
(***************************************************************************)
(* The options one easy handle of cofetch::Client carries from request to  *)
(* request (include/cofetch.h: start, set_body, retire, configure_handle). *)
(* Pooled handles are reused without curl_easy_reset, so what start() does *)
(* not set again is what an earlier request, or its Request::curl hook,    *)
(* left.                                                                   *)
(*                                                                         *)
(* An option that points into the Transfer is "own" while the transfer it  *)
(* was set for is in flight and "stale" afterwards, when retire() has      *)
(* freed what it points to.  Options whose value start() copies out of the *)
(* request (URL, timeout) behave as MAXREDIRS does here; those nothing but *)
(* configure_handle() and a hook sets are represented by two: "extra", and *)
(* "share" for what curl_easy_reset does not reset (libcurl's manual: the  *)
(* share, cookies, the DNS cache, connections).                            *)
(*                                                                         *)
(* Definitions named Mut... are plausible bugs, each a changed form of the *)
(* definition it precedes; no part of the specification uses them.         *)
(***************************************************************************)
EXTENDS Integers

CONSTANTS
  Requests,   \* records: method, size of the body, headers, hops, hook
  None

Methods == {"GET", "POST", "PUT", "PATCH", "DELETE"}

(* What Request::curl may do: nothing; set an option the client leaves     *)
(* alone, or CURLOPT_SHARE; CURLOPT_POST, to send a body through a read    *)
(* callback; CURLOPT_POSTFIELDS, to send a string whose length curl is to  *)
(* find.                                                                   *)
Hooks == {"none", "extra", "share", "post", "postfields"}

RequestType == [method : Methods, size : Nat, headers : {"none", "own"},
                hops : Nat, hook : Hooks]

ASSUME RequestsAssumption == Requests \subseteq RequestType
ASSUME NoneAssumption     == None \notin Requests

VARIABLES
  opts,      \* the handle's options
  current    \* the request it is in flight for, or None

vars == <<opts, current>>

(* configure_handle() on a handle from curl_easy_init.  A POSTFIELDSIZE of *)
(* -1 has curl find the length of POSTFIELDS.                              *)
Configured ==
  [verb |-> "GET", custom |-> "none", postfields |-> "none", size |-> -1,
   headers |-> "none", follow |-> 0, hops |-> 0, extra |-> "none",
   share |-> "none"]

TypeOK ==
  /\ opts \in [verb : {"GET", "POST"}, custom : {"none", "PUT", "PATCH", "DELETE"},
               postfields : {"none", "own", "stale", "hook"}, size : Int,
               headers : {"none", "own", "stale"}, follow : 0..1,
               hops : Int, extra : {"none", "hook"}, share : {"none", "hook"}]
  /\ current \in Requests \union {None}

Init ==
  /\ opts = Configured
  /\ current = None

-----------------------------------------------------------------------------
(* start() *)

(* curl: POSTFIELDS and POST select the verb POST, HTTPGET selects GET.    *)
PostFields(o, p) == [o EXCEPT !.postfields = p, !.verb = "POST"]

(* The redirect options and the header list are always set. *)
MutCommon(o, r) ==
  IF r.hops = 0 THEN [o EXCEPT !.headers = r.headers]
                ELSE [o EXCEPT !.follow = 1, !.hops = r.hops, !.headers = r.headers]

Common(o, r) ==
  [o EXCEPT !.follow = IF r.hops # 0 THEN 1 ELSE 0,
            !.hops = r.hops,
            !.headers = r.headers]

MutGetVerbFirst(o) == PostFields([o EXCEPT !.custom = "none", !.verb = "GET"], "none")

MutGet(o) == [o EXCEPT !.custom = "none", !.verb = "GET"]

Get(o) == [PostFields([o EXCEPT !.custom = "none"], "none") EXCEPT !.verb = "GET"]

(* set_body() *)
MutWithVerb(o, custom, r) ==
  [o EXCEPT !.verb = r.method, !.size = r.size, !.postfields = "own"]

WithBody(o, custom, r) ==
  PostFields([o EXCEPT !.custom = custom, !.size = r.size], "own")

WithMethod(o, r) ==
  IF r.method = "GET"
    THEN Get(o)
    ELSE WithBody(o, IF r.method = "POST" THEN "none" ELSE r.method, r)

Hooked(o, r) ==
  [o EXCEPT !.extra = IF r.hook = "extra" THEN "hook" ELSE @,
            !.share = IF r.hook = "share" THEN "hook" ELSE @,
            !.verb = IF r.hook \in {"post", "postfields"} THEN "POST" ELSE @,
            !.postfields = IF r.hook = "postfields" THEN "hook" ELSE @]

Started(o, r) == Hooked(WithMethod(Common(o, r), r), r)

Start(r) ==
  /\ current = None
  /\ current' = r
  /\ opts' = Started(opts, r)

-----------------------------------------------------------------------------
(* retire(), and the next request draws the handle from the pool *)

(* What pointed into the transfer points nowhere now. *)
Outlived(o) ==
  [o EXCEPT !.postfields = IF @ = "own" THEN "stale" ELSE @,
            !.headers = IF @ = "own" THEN "stale" ELSE @]

(* curl_easy_reset(), then configure_handle(). *)
Scrubbed(o) == [Configured EXCEPT !.share = o.share]

(* check_completions() *)
Finish ==
  /\ current # None
  /\ current' = None
  /\ opts' = IF current.hook # "none" THEN Scrubbed(opts) ELSE Outlived(opts)

(* cancel(), a refused start, or a pool that is full: the next request has *)
(* a handle that was reset, or a new one.                                  *)
Replace ==
  /\ current # None
  /\ current' = None
  /\ opts' \in {Scrubbed(opts), Configured}

Next ==
  \/ \E r \in Requests : Start(r)
  \/ Finish
  \/ Replace

Spec == Init /\ [][Next]_vars

-----------------------------------------------------------------------------

(* What a request is sent with is what it would be sent with on a new      *)
(* handle: neither an option of an earlier request nor of its hook is left *)
(* ("everything a transfer can vary must be (re)set in start()").  Two     *)
(* options are excepted, for which this is false: POSTFIELDSIZE            *)
(* (LengthIsNotInherited), and what a reset keeps, though Request::curl    *)
(* says "options set here never leak into later requests".                 *)
But(o) == [o EXCEPT !.size = 0, !.share = "none"]

SameAsFresh ==
  current # None => But(opts) = But(Started(Configured, current))

(* curl never follows a pointer into a transfer that is over, whichever    *)
(* way a hook turns the request.                                           *)
NothingDangles ==
  current # None => opts.postfields # "stale" /\ opts.headers # "stale"

(* What curl puts on the request line, and whether it sends a body.        *)
RequestMethod(o) == IF o.custom # "none" THEN o.custom ELSE o.verb
SendsBody(o) == o.verb = "POST"

(* A request goes out with the method it was made with and, unless it is a *)
(* GET, its own body in full, whatever the handle sent before: curl's verb *)
(* depends on which of POSTFIELDS and HTTPGET start() sets last, and an    *)
(* earlier CUSTOMREQUEST overrides either.  Hooks that turn the request    *)
(* into a POST themselves get what they ask for.                           *)
SendsWhatWasAsked ==
  current # None /\ current.hook \notin {"post", "postfields"} =>
    /\ RequestMethod(opts) = current.method
    /\ SendsBody(opts) <=> current.method # "GET"
    /\ SendsBody(opts) => opts.postfields = "own" /\ opts.size = current.size

(* The inductive invariant behind SameAsFresh (HandleOptionsProofs): the    *)
(* one option start() never sets is back to its default in the pool.       *)
ExtraIsReset == current = None => opts.extra = "none"

IInv ==
  /\ TypeOK
  /\ SameAsFresh
  /\ NothingDangles
  /\ SendsWhatWasAsked
  /\ ExtraIsReset

-----------------------------------------------------------------------------
(* start(): "everything a transfer can vary must be (re)set".  A GET does  *)
(* not set POSTFIELDSIZE, which set_body() varies: a hook that makes it a  *)
(* POST sends a body of the length of an earlier request's.                *)
LengthIsNotInherited ==
  current # None /\ opts.verb = "POST"
    => opts.size = Started(Configured, current).size

=============================================================================
