----------------------------- MODULE EpollHttp -----------------------------
(***************************************************************************)
(* Http, the epoll client that cofetch grew out of and is benchmarked      *)
(* against (bench/baseline/http_epoll.h): its handle pool, its poll loop   *)
(* and its callbacks.                                                      *)
(*                                                                         *)
(* Everything happens inside calls of the program: request() builds,       *)
(* get() and the like submit and let curl work once, poll() lets curl work *)
(* and delivers what is done.  A callback may build and submit requests    *)
(* while poll() is delivering.  What curl does inside one call is one step *)
(* here, for nothing of the client runs in it but socket_fn, which keeps   *)
(* the epoll set.                                                          *)
(*                                                                         *)
(* A RequestInfo and its easy handle are named by the handle.  libcurl is  *)
(* external: the handles in multi_handle_, those it still works on, and    *)
(* its queue of DONE messages.  It is assumed to have the memory it needs: *)
(* the client ignores what curl_easy_init and curl_multi_add_handle return.*)
(*                                                                         *)
(* Definitions named Mut... are plausible bugs, each a changed form of the *)
(* definition it precedes; no part of the specification uses them.         *)
(***************************************************************************)
EXTENDS Naturals, Sequences, FiniteSets, SequencesExt

CONSTANTS
  Requests,    \* every request the program ever builds
  Handles,     \* easy handles, those the constructor makes and later ones
  HTTP_POOL,   \* the handles the constructor makes, in order
  None

ASSUME HandlesAssumption == /\ IsFiniteSet(Handles)
                            /\ None \notin Requests \union Handles
ASSUME PoolAssumption    == /\ HTTP_POOL \in Seq(Handles)
                            /\ IsInjective(HTTP_POOL)

VARIABLES
  eh_pool,    \* eh_pool_: the last is next to be used
  infos,      \* request_infos_: the request each handle serves, or None
  count,      \* handle_count_
  working,    \* libcurl: submitted and not done
  done,       \* libcurl: the DONE messages, oldest first
  delivering, \* the handle whose callback runs, or None
  polling,    \* the program is inside poll()
  open,       \* the client exists
  made,       \* history: the easy handles the client ever made
  called,     \* history: how often each request's callback ran
  dropped     \* history: the requests ~Http found in flight

vars == <<eh_pool, infos, count, working, done, delivering, polling, open,
          made, called, dropped>>

Pool == ToSet(eh_pool)
Busy == {h \in Handles : infos[h] # None}

TypeOK ==
  /\ eh_pool \in Seq(Handles)
  /\ infos \in [Handles -> Requests \union {None}]
  /\ count \in Nat
  /\ working \subseteq Handles
  /\ done \in Seq(Handles)
  /\ delivering \in Handles \union {None}
  /\ polling \in BOOLEAN
  /\ open \in BOOLEAN
  /\ made \subseteq Handles
  /\ called \in [Requests -> Nat]
  /\ dropped \subseteq Requests

Init ==
  /\ eh_pool = HTTP_POOL
  /\ infos = [h \in Handles |-> None]
  /\ count = 0
  /\ working = {}
  /\ done = <<>>
  /\ delivering = None
  /\ polling = FALSE
  /\ open = TRUE
  /\ made = ToSet(HTTP_POOL)
  /\ called = [r \in Requests |-> 0]
  /\ dropped = {}

-----------------------------------------------------------------------------

(* The program runs between its calls and inside a callback. *)
InProgram == open /\ (~polling \/ delivering # None)

Unbuilt(r) == called[r] = 0 /\ \A h \in Handles : infos[h] # r

(* request(): the last handle of the pool, or a new one. *)
Draw(h) ==
  IF eh_pool = <<>> THEN h \notin made ELSE h = Last(eh_pool)

Build(r) ==
  /\ InProgram
  /\ Unbuilt(r)
  /\ \E h \in Handles :
       /\ Draw(h)
       /\ infos' = [infos EXCEPT ![h] = r]
       /\ made' = made \union {h}
  /\ eh_pool' = IF eh_pool = <<>> THEN <<>> ELSE Front(eh_pool)
  /\ UNCHANGED <<count, working, done, delivering, polling, open,
                 called, dropped>>

(* curl_multi_socket_action, on the timeout or on the descriptors that     *)
(* epoll_wait reports: some of the transfers end, in some order.           *)
MutCurlWorks(submitted) ==
  \E ended \in SUBSET submitted :
    /\ working' = submitted \ ended
    /\ \E order \in SetToSeqs(ended) : done' = done \o order
    /\ count' = count - Cardinality(ended)

CurlWorks(submitted) ==
  \E ended \in SUBSET submitted :
    /\ working' = submitted \ ended
    /\ \E order \in SetToSeqs(ended) : done' = done \o order
    /\ count' = Cardinality(submitted \ ended)

(* get(), post(), del(), put(): submit().  Completions are not read here.  *)
Submit(h) ==
  /\ InProgram
  /\ infos[h] # None
  /\ h \notin working \union ToSet(done) \union {delivering}
  /\ CurlWorks(working \union {h})
  /\ UNCHANGED <<eh_pool, infos, delivering, polling, open, made, called,
                 dropped>>

-----------------------------------------------------------------------------
(* poll(): process_events(), then multi_info_read(). *)

Poll ==
  /\ open
  /\ ~polling
  /\ polling' = TRUE
  /\ CurlWorks(working)
  /\ UNCHANGED <<eh_pool, infos, delivering, open, made, called, dropped>>

(* The handle leaves the multi and its callback runs. *)
MutDeliver ==
  /\ polling
  /\ delivering = None
  /\ done # <<>>
  /\ done' = Tail(done)
  /\ delivering' = Head(done)
  /\ eh_pool' = Append(eh_pool, Head(done))
  /\ called' = [called EXCEPT ![infos[Head(done)]] = @ + 1]
  /\ UNCHANGED <<infos, count, working, polling, open, made, dropped>>

Deliver ==
  /\ polling
  /\ delivering = None
  /\ done # <<>>
  /\ done' = Tail(done)
  /\ delivering' = Head(done)
  /\ called' = [called EXCEPT ![infos[Head(done)]] = @ + 1]
  /\ UNCHANGED <<eh_pool, infos, count, working, polling, open, made, dropped>>

(* The callback returned: the handle goes back, whatever the pool's size.  *)
MutRelease ==
  /\ delivering # None
  /\ eh_pool' = IF Len(eh_pool) < Len(HTTP_POOL)
                  THEN Append(eh_pool, delivering)
                  ELSE eh_pool
  /\ infos' = [infos EXCEPT ![delivering] = None]
  /\ delivering' = None
  /\ UNCHANGED <<count, working, done, polling, open, made, called, dropped>>

Release ==
  /\ delivering # None
  /\ eh_pool' = Append(eh_pool, delivering)
  /\ infos' = [infos EXCEPT ![delivering] = None]
  /\ delivering' = None
  /\ UNCHANGED <<count, working, done, polling, open, made, called, dropped>>

MutPollReturns ==
  /\ polling
  /\ delivering = None
  /\ polling' = FALSE
  /\ done' = <<>>
  /\ UNCHANGED <<eh_pool, infos, count, working, delivering, open, made,
                 called, dropped>>

PollReturns ==
  /\ polling
  /\ delivering = None
  /\ done = <<>>
  /\ polling' = FALSE
  /\ UNCHANGED <<eh_pool, infos, count, working, done, delivering, open,
                 made, called, dropped>>

(* ~Http *)
Destroy ==
  /\ open
  /\ ~polling
  /\ open' = FALSE
  /\ working' = {}
  /\ done' = <<>>
  /\ infos' = [h \in Handles |-> None]
  /\ eh_pool' = <<>>
  /\ dropped' = {infos[h] : h \in working \union ToSet(done)}
  /\ UNCHANGED <<count, delivering, polling, made, called>>

Next ==
  \/ \E r \in Requests : Build(r)
  \/ \E h \in Handles : Submit(h)
  \/ Poll
  \/ Deliver
  \/ Release
  \/ PollReturns
  \/ Destroy

(* The program polls as long as it waits for something, the callbacks      *)
(* return, and curl ends every transfer after CURLOPT_TIMEOUT's 5 seconds. *)
Ends(h) == h \in working /\ h \notin working'

Fairness ==
  /\ WF_vars(Poll)
  /\ WF_vars(Deliver)
  /\ WF_vars(Release)
  /\ WF_vars(PollReturns)
  /\ \A h \in Handles : SF_vars(Poll /\ Ends(h))

Spec == Init /\ [][Next]_vars /\ Fairness

-----------------------------------------------------------------------------

(* A handle is in one place: pooled once, or serving one request; and curl *)
(* only has handles that serve one.  A callback runs before its handle is  *)
(* back in the pool, so the requests it builds never get it.               *)
HandlesInOnePlace ==
  /\ IsInjective(eh_pool)
  /\ Pool \intersect Busy = {}
  /\ \A g, h \in Busy : infos[g] = infos[h] => g = h
  /\ working \union ToSet(done) \subseteq Busy
  /\ working \intersect ToSet(done) = {}
  /\ delivering # None => delivering \in Busy \ (working \union ToSet(done))

(* No handle the client made is lost, neither one the constructor made nor *)
(* one that request() made because the pool was empty: while the client    *)
(* lives each is pooled or in use, though the pool outgrows HTTP_POOL.     *)
NoHandleLost == open => made = Pool \union Busy

(* The client keeps async_perform's promise too, in its simplest form: a   *)
(* request is in flight from its submission until poll() calls its         *)
(* callback, once, or ~Http drops it; it is never refused or aborted, and  *)
(* "while (done < total) http.poll()" ends.                                *)
StateOf(r) ==
  CASE called[r] = 1 -> "finished"
    [] called[r] > 1 -> "twice"
    [] r \in dropped -> "dropped"
    [] \E h \in working \union ToSet(done) : infos[h] = r -> "in_flight"
    [] OTHER -> "idle"

Promise == INSTANCE AsyncRequest WITH state <- [r \in Requests |-> StateOf(r)]

ImplementsAsyncRequest == Promise!Spec

-----------------------------------------------------------------------------
(* Why they hold.  IInv is inductive; module EpollHttpProofs proves it.    *)

(* A callback runs inside poll(), poll() inside the client's life; ~Http   *)
(* frees every RequestInfo, and only it drops requests.                    *)
PhaseInv ==
  /\ polling => open
  /\ delivering # None => polling
  /\ open => dropped = {}
  /\ ~open => Busy = {}

(* A request that is being served has not been called back, but for the    *)
(* one whose callback runs; nor has one that was dropped.                  *)
CalledInv ==
  /\ \A r \in Requests : called[r] <= 1
  /\ \A r \in dropped : called[r] = 0
  /\ \A h \in Busy : called[infos[h]] = IF h = delivering THEN 1 ELSE 0

IInv ==
  /\ TypeOK
  /\ HandlesInOnePlace
  /\ NoHandleLost
  /\ IsInjective(done)
  /\ PhaseInv
  /\ CalledInv

=============================================================================
