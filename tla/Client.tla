------------------------------- MODULE Client -------------------------------
(***************************************************************************)
(* The request engine of cofetch::Client (include/cofetch.h): the life of  *)
(* a transfer from async_perform to its completion handler, the pool of    *)
(* easy handles, cancellation and the destructor.                          *)
(*                                                                         *)
(* Everything runs on the one thread that runs the io_context, so steps    *)
(* interleave only where control returns to the event loop or reaches      *)
(* user code: a completion handler that check_completions() invokes may    *)
(* start and cancel requests before the drain loop goes on.  pc says where *)
(* that thread is.                                                         *)
(*                                                                         *)
(* Definitions named Mut... are plausible bugs, each a changed form of the *)
(* definition it precedes; no part of the specification uses them.         *)
(*                                                                         *)
(* A transfer node and its easy handle travel together, so both are named  *)
(* by the handle.  libcurl's multi handle is external and is modelled by   *)
(* what the client sees of it: which handles it holds, the DONE messages   *)
(* it queued, and the count of running handles it reports.                 *)
(***************************************************************************)
EXTENDS Naturals, Sequences, FiniteSets

CONSTANTS
  Requests,   \* every request the program ever starts
  Handles,    \* the easy handles curl_easy_init can return
  MaxPooled,  \* max_pooled_handles_
  Hooks,      \* what Request::curl may do to the handle; "none" is no hook
  None

ASSUME RequestsAssumption == IsFiniteSet(Requests) /\ None \notin Requests
ASSUME HandlesAssumption  == IsFiniteSet(Handles)
ASSUME PoolAssumption     == MaxPooled \in Nat
ASSUME HooksAssumption    == Hooks \subseteq {"none", "options", "steal"}

VARIABLES
  \* members of the Client
  transfers,        \* transfers_: the handles in flight
  idle,             \* idle_: the pool, first is next to be reused
  node,             \* the Transfer of each handle
  next_id,          \* next_transfer_id_
  running,          \* running_
  alive,            \* *alive_
  \* libcurl
  multi,            \* which multi handle each easy handle is in
  sticky,           \* resettable options a hook set are on the handle
  msgs,             \* the DONE messages waiting in multi_
  \* the program and its event loop
  pc,               \* where the thread is
  posted,           \* handlers posted to the io_context, oldest first
  slot,             \* the id each request's cancellation slot captured
  \* history
  started, emitted, delivered, dropped

client  == <<transfers, idle, node, next_id, running, alive>>
curl    == <<multi, sticky, msgs>>
history == <<started, emitted, delivered, dropped>>
vars    == <<client, curl, pc, posted, slot, history>>

-----------------------------------------------------------------------------

(* A Transfer after retire(): no handler, no id, nothing to scrub. *)
Blank == [handler |-> None, id |-> 0, scrub |-> FALSE]

Pool == {idle[i] : i \in 1..Len(idle)}

(* What curl may report of a transfer: the CURLcode, and whether a status  *)
(* line had been received by then (CURLINFO_RESPONSE_CODE is not 0).       *)
Outcomes ==
  {[ec |-> "ok", http |-> TRUE],
   [ec |-> "error", http |-> FALSE],
   [ec |-> "error", http |-> TRUE]}

(* The errors the client makes up itself; their Response carries no status. *)
OwnErrors == {"failed_init", "out_of_memory", "aborted"}

Made(ec) == [ec |-> ec, http |-> FALSE]

Results == Outcomes \union {Made(ec) : ec \in OwnErrors}

(* User code runs, and may call the client, from the event loop or inside  *)
(* the completion handler check_completions() is invoking.                 *)
InUserCode == pc \in {"loop", "handler"}

(* The handles multi_ is still working on: added and not DONE. *)
Unfinished ==
  {h \in Handles : multi[h] = "ours" /\ ~\E m \in msgs : m.eh = h}

TypeOK ==
  /\ transfers \subseteq Handles
  /\ idle \in Seq(Handles)
  /\ node \in [Handles -> [handler : Requests \union {None},
                           id : Nat, scrub : BOOLEAN]]
  /\ next_id \in Nat
  /\ running \in Nat
  /\ alive \in BOOLEAN
  /\ multi \in [Handles -> {"none", "ours", "other"}]
  /\ sticky \in [Handles -> BOOLEAN]
  /\ msgs \subseteq [eh : Handles, res : Outcomes, of : Requests]
  /\ pc \in {"loop", "curl", "drain", "handler"}
  /\ posted \in Seq([req : Requests, ec : OwnErrors])
  /\ slot \in [Requests -> Nat]
  /\ started \subseteq Requests
  /\ emitted \subseteq Requests
  /\ delivered \in [Requests -> Seq(Results)]
  /\ dropped \subseteq Requests

Init ==
  /\ transfers = {}
  /\ idle = <<>>
  /\ node = [h \in Handles |-> Blank]
  /\ next_id = 0
  /\ running = 0
  /\ alive = TRUE
  /\ multi = [h \in Handles |-> "none"]
  /\ sticky = [h \in Handles |-> FALSE]
  /\ msgs = {}
  /\ pc = "loop"
  /\ posted = <<>>
  /\ slot = [r \in Requests |-> 0]
  /\ started = {}
  /\ emitted = {}
  /\ delivered = [r \in Requests |-> <<>>]
  /\ dropped = {}

-----------------------------------------------------------------------------
(* Steps shared by the operations. *)

(* Complete r with an error of the client's own: posted, never invoked here. *)
MutForget(r, ec) == UNCHANGED <<posted, delivered>>

MutInvoke(r, ec) ==
  /\ delivered' = [delivered EXCEPT ![r] = Append(@, Made(ec))]
  /\ UNCHANGED posted

Post(r, ec) ==
  /\ posted' = Append(posted, [req |-> r, ec |-> ec])
  /\ UNCHANGED delivered

(* retire(): pool the handle, or free it when the pool is full.  pool is   *)
(* idle_ without h, where the multi handle h is in at that moment; a freed *)
(* handle leaves every multi.                                              *)
HasRoom(pool) == Len(pool) < MaxPooled

Retire(h, scrub, pool, where) ==
  /\ transfers' = transfers \ {h}
  /\ node' = [node EXCEPT ![h] = Blank]
  /\ idle' = IF HasRoom(pool) THEN <<h>> \o pool ELSE pool
  /\ sticky' = [sticky EXCEPT ![h] = HasRoom(pool) /\ ~scrub /\ @]
  /\ multi' = [multi EXCEPT ![h] = IF HasRoom(pool) THEN where ELSE "none"]

(* curl_multi_remove_handle also discards a DONE message of the handle. *)
MutKeepMessages(h) == msgs

MessagesWithout(h) == {m \in msgs : m.eh # h}

-----------------------------------------------------------------------------
(* start() *)

(* The head of the pool, or a new handle when the pool is empty. *)
Draw(h) ==
  IF idle = <<>> THEN h \in Handles \ transfers ELSE h = Head(idle)

PoolAfterDraw == IF idle = <<>> THEN <<>> ELSE Tail(idle)

MutCountedId == Cardinality(transfers) + 1

NewId == next_id + 1

(* scrub_on_done: a hook may have set any option. *)
MutNeverScrub(hook) == FALSE

ScrubOnDone(hook) == hook # "none"

(* curl_easy_init fails: no transfer, no id and no cancellation slot. *)
StartWithoutHandle(r) ==
  /\ idle = <<>>
  /\ Post(r, "failed_init")
  /\ UNCHANGED <<transfers, idle, node, next_id, multi, sticky, slot>>

(* The handle is added to multi_. *)
StartTransfer(r, h, hook) ==
  /\ Draw(h)
  /\ multi[h] = "none"
  /\ hook # "steal"
  /\ transfers' = transfers \union {h}
  /\ idle' = PoolAfterDraw
  /\ next_id' = NewId
  /\ node' = [node EXCEPT
       ![h] = [handler |-> r, id |-> NewId, scrub |-> ScrubOnDone(hook)]]
  /\ sticky' = [sticky EXCEPT ![h] = @ \/ hook # "none"]
  /\ slot' = [slot EXCEPT ![r] = NewId]
  /\ multi' = [multi EXCEPT ![h] = "ours"]
  /\ UNCHANGED <<posted, delivered>>

(* curl_multi_add_handle refuses: the handle is in another multi, where    *)
(* the hook or an earlier user of the handle put it, or memory ran out.    *)
StartRefused(r, h, hook) ==
  LET where == IF hook = "steal" THEN "other" ELSE multi[h]
  IN  /\ Draw(h)
      /\ next_id' = NewId
      /\ slot' = [slot EXCEPT ![r] = NewId]
      /\ Retire(h, TRUE, PoolAfterDraw, where)
      /\ Post(r, IF where = "none" THEN "out_of_memory" ELSE "failed_init")

Start(r) ==
  /\ alive
  /\ InUserCode
  /\ r \notin started
  /\ \/ StartWithoutHandle(r)
     \/ \E h \in Handles, hook \in Hooks :
          StartTransfer(r, h, hook) \/ StartRefused(r, h, hook)
  /\ started' = started \union {r}
  /\ UNCHANGED <<running, alive, msgs, pc, emitted, dropped>>

-----------------------------------------------------------------------------
(* cancel(), reached through the cancellation slot at any time after       *)
(* start(), the transfer's end and the client's destruction included.      *)

MutFindUnfinished(r) == {h \in Unfinished : node[h].id = slot[r]}

Find(r) == {h \in transfers : node[h].id = slot[r]}

MutAbortNotCounted == running
MutCountBelowZero  == running - 1

AfterAbort == IF running > 0 THEN running - 1 ELSE running

MutAbortKeepsTransfer(r, h) ==
  /\ running' = AfterAbort
  /\ Post(node[h].handler, "aborted")
  /\ UNCHANGED <<transfers, idle, node, multi, sticky, msgs>>

CancelTransfer(r, h) ==
  /\ msgs' = MessagesWithout(h)
  /\ running' = AfterAbort
  /\ Retire(h, TRUE, idle, "none")
  /\ Post(node[h].handler, "aborted")

Cancel(r) ==
  /\ InUserCode
  /\ slot[r] # 0
  /\ emitted' = emitted \union {r}
  /\ IF alive /\ Find(r) # {}
       THEN \E h \in Find(r) : CancelTransfer(r, h)
       ELSE UNCHANGED <<transfers, idle, node, multi, sticky, msgs,
                        running, posted, delivered>>
  /\ UNCHANGED <<next_id, alive, pc, slot, started, dropped>>

-----------------------------------------------------------------------------
(* kick() and on_event(): curl_multi_socket_action, then                   *)
(* check_completions().                                                    *)

EnterCurl ==
  /\ alive
  /\ pc = "loop"
  /\ pc' = "curl"
  /\ UNCHANGED <<client, curl, posted, slot, history>>

(* curl ends a transfer and queues its DONE message.  of is history: the   *)
(* request the message is about.                                           *)
CurlDone(h, res) ==
  /\ pc = "curl"
  /\ h \in Unfinished
  /\ msgs' = msgs \union {[eh |-> h, res |-> res, of |-> node[h].handler]}
  /\ UNCHANGED <<client, multi, sticky, pc, posted, slot, history>>

(* socket_action returns and writes running_. *)
CurlReturn ==
  /\ pc = "curl"
  /\ running' = Cardinality(Unfinished)
  /\ pc' = "drain"
  /\ UNCHANGED <<transfers, idle, node, next_id, alive, curl,
                 posted, slot, history>>

(* One round of check_completions(): the handle is retired before its      *)
(* handler runs, so the handler may draw it again.                         *)
DrainOne ==
  /\ pc \in {"drain", "handler"}
  /\ \E m \in msgs :
       LET h == m.eh
       IN  /\ msgs' = MessagesWithout(h)
           /\ Retire(h, node[h].scrub, idle, "none")
           /\ delivered' = [delivered EXCEPT
                ![node[h].handler] = Append(@, m.res)]
  /\ pc' = "handler"
  /\ UNCHANGED <<next_id, running, alive, posted, slot,
                 started, emitted, dropped>>

(* curl_multi_info_read has no message left. *)
MutDrained == pc = "handler" \/ msgs = {}

Drained == msgs = {}

DrainEnd ==
  /\ pc \in {"drain", "handler"}
  /\ Drained
  /\ pc' = "loop"
  /\ UNCHANGED <<client, curl, posted, slot, history>>

(* A completion handler throws, out of check_completions() and of          *)
(* io_context::run, and the program runs the io_context again: the other   *)
(* messages wait for the next time curl is entered.                        *)
HandlerThrows ==
  /\ pc = "handler"
  /\ pc' = "loop"
  /\ UNCHANGED <<client, curl, posted, slot, history>>

-----------------------------------------------------------------------------
(* The event loop runs the oldest posted handler.  It needs no client.     *)
RunPosted ==
  /\ pc = "loop"
  /\ posted # <<>>
  /\ posted' = Tail(posted)
  /\ delivered' = [delivered EXCEPT
       ![Head(posted).req] = Append(@, Made(Head(posted).ec))]
  /\ UNCHANGED <<client, curl, pc, slot, started, emitted, dropped>>

(* ~Client(), from the event loop: the handlers of the transfers in flight *)
(* are destroyed without being called.                                     *)
Destroy ==
  /\ alive
  /\ pc = "loop"
  /\ alive' = FALSE
  /\ dropped' = dropped \union {node[h].handler : h \in transfers}
  /\ transfers' = {}
  /\ idle' = <<>>
  /\ node' = [h \in Handles |-> Blank]
  /\ multi' = [h \in Handles |->
                 IF h \in transfers \union Pool THEN "none" ELSE multi[h]]
  /\ sticky' = [h \in Handles |-> FALSE]
  /\ msgs' = {}
  /\ UNCHANGED <<next_id, running, pc, posted, slot,
                 started, emitted, delivered>>

(* The program takes a handle a hook gave to another multi out of it. *)
OtherMultiReleases(h) ==
  /\ InUserCode
  /\ multi[h] = "other"
  /\ multi' = [multi EXCEPT ![h] = "none"]
  /\ UNCHANGED <<client, sticky, msgs, pc, posted, slot, history>>

-----------------------------------------------------------------------------

Next ==
  \/ \E r \in Requests : Start(r) \/ Cancel(r)
  \/ EnterCurl
  \/ \E h \in Handles : \E res \in Outcomes : CurlDone(h, res)
  \/ CurlReturn
  \/ DrainOne
  \/ DrainEnd
  \/ HandlerThrows
  \/ RunPosted
  \/ Destroy
  \/ \E h \in Handles : OtherMultiReleases(h)

Spec == Init /\ [][Next]_vars

-----------------------------------------------------------------------------
(* Where a completion handler can be. *)

InFlight(r) == \E h \in transfers : node[h].handler = r
Owed(r, ec) == \E i \in 1..Len(posted) :
                 posted[i].req = r /\ posted[i].ec = ec
IsOwed(r)   == \E ec \in OwnErrors : Owed(r, ec)
Called(r)   == delivered[r] # <<>>
Told(r, ec) == \E i \in 1..Len(delivered[r]) : delivered[r][i].ec = ec

(* A completion handler runs at most once, and never after the client's    *)
(* destructor dropped it: cancellation, a completion that was already      *)
(* queued, the failure paths of start() and ~Client compete for it.        *)
AtMostOnce ==
  \A r \in Requests :
    /\ Len(delivered[r]) <= 1
    /\ r \in dropped => ~Called(r)

(* "Never leave a handler uncalled": from the moment a request is started  *)
(* its handler is with a transfer in flight or posted, until it has been   *)
(* called or ~Client dropped it.                                           *)
NeverLost ==
  \A r \in started : InFlight(r) \/ IsOwed(r) \/ Called(r) \/ r \in dropped

(* A DONE message is about the request its easy handle is serving, though  *)
(* handlers that run in mid-drain cancel requests and draw retired handles *)
(* again: check_completions() completes the right handler with it.         *)
MessagesReachTheirRequest ==
  \A m \in msgs : m.eh \in transfers /\ node[m.eh].handler = m.of

(* What start() draws from the pool is as good as new: not in use, not     *)
(* there twice, without a handler or an id that a late cancellation could  *)
(* find, and without those options a Request::curl hook set that           *)
(* curl_easy_reset resets (the others are in HandleOptions).                *)
PoolClean ==
  /\ Len(idle) <= MaxPooled
  /\ \A i, j \in 1..Len(idle) : idle[i] = idle[j] => i = j
  /\ \A h \in Pool : /\ h \notin transfers
                     /\ node[h] = Blank
                     /\ ~sticky[h]
                     /\ multi[h] # "ours"

(* cancel() only ever hits the request whose slot was emitted: a slot that *)
(* outlives its transfer finds nothing, even when the node it captured the *)
(* id of serves another request by then.                                   *)
AbortOnlyWhenAsked ==
  \A r \in Requests :
    Owed(r, "aborted") \/ Told(r, "aborted") => r \in emitted

(* An emission that reaches a request in flight wins at once, even over a  *)
(* DONE message the request already has: its completion is an abort.       *)
CancelWins ==
  [][\A r \in Requests :
       Cancel(r) /\ alive /\ InFlight(r)
         => ~InFlight(r)' /\ Owed(r, "aborted")']_vars

(* Outside curl, pending_requests() never counts a transfer that is over:  *)
(* a loop that waits for it to reach 0 does end.                           *)
PendingNeverOvercounts ==
  alive /\ pc # "curl" => running <= Cardinality(Unfinished)

(* Every request is eventually completed or dropped by ~Client (Cofetch).  *)
EveryRequestSettles ==
  \A r \in Requests : r \in started ~> Called(r) \/ r \in dropped

(* The client implements AsyncRequest: the outcome of a request is decided *)
(* by one step, and a completion that start() or cancel() owes is          *)
(* delivered by a later one.  The fairness that takes is Cofetch's.        *)
Refused(r) == \E ec \in OwnErrors \ {"aborted"} : Owed(r, ec)

StateOf(r) ==
  LET Heard(ec) == CASE ec = "aborted" -> "told_aborted"
                     [] ec \in OwnErrors \ {"aborted"} -> "told_refused"
                     [] ec \notin OwnErrors -> "finished"
  IN  CASE r \notin started -> "idle"
        [] r \in dropped -> "dropped"
        [] Owed(r, "aborted") -> "aborted"
        [] Refused(r) -> "refused"
        [] Len(delivered[r]) = 1 -> Heard(delivered[r][1].ec)
        [] Len(delivered[r]) > 1 -> "twice"
        [] OTHER -> "in_flight"

Promise == INSTANCE AsyncRequest
             WITH state <- [r \in Requests |-> StateOf(r)], open <- alive

ImplementsAsyncRequest == Promise!Spec

-----------------------------------------------------------------------------
(* The inductive invariant behind the safety properties (ClientProofs). *)

(* A transfer in flight has a handler and an id, which are its own and the *)
(* ones its request's slot captured; a node that is not in flight is as    *)
(* retire() left it.                                                       *)
NodeInv ==
  /\ \A h \in transfers :
       /\ node[h].handler \in started
       /\ node[h].id # 0
       /\ slot[node[h].handler] = node[h].id
       /\ multi[h] = "ours"
       /\ sticky[h] => node[h].scrub
  /\ \A h \in Handles \ transfers :
       /\ node[h] = Blank
       /\ ~sticky[h]
       /\ multi[h] # "ours"
  /\ \A g, h \in transfers : node[g].handler = node[h].handler => g = h

(* Ids are never given twice. *)
SlotInv ==
  /\ \A r \in Requests : slot[r] <= next_id
  /\ \A r \in Requests : r \notin started => slot[r] = 0
  /\ \A q, r \in Requests : slot[q] = slot[r] /\ slot[r] # 0 => q = r

PoolInv ==
  /\ Len(idle) <= MaxPooled
  /\ \A i, j \in 1..Len(idle) : idle[i] = idle[j] => i = j
  /\ \A i \in 1..Len(idle) : idle[i] \notin transfers

MessageInv ==
  /\ \A m \in msgs : m.eh \in transfers /\ node[m.eh].handler = m.of
  /\ \A m, n \in msgs : m.eh = n.eh => m = n

(* A handler is in one place only, and in none before its request starts. *)
PlaceInv ==
  /\ \A i, j \in 1..Len(posted) : posted[i].req = posted[j].req => i = j
  /\ \A r \in Requests : InFlight(r) => ~IsOwed(r) /\ ~Called(r) /\ r \notin dropped
  /\ \A r \in Requests : IsOwed(r) => r \in started /\ ~Called(r) /\ r \notin dropped
  /\ \A r \in Requests : Called(r) => r \in started /\ r \notin dropped
  /\ \A r \in Requests : Len(delivered[r]) <= 1
  /\ dropped \subseteq started

IInv ==
  /\ TypeOK
  /\ NodeInv
  /\ SlotInv
  /\ PoolInv
  /\ MessageInv
  /\ PlaceInv
  /\ NeverLost
  /\ AbortOnlyWhenAsked

-----------------------------------------------------------------------------
(* What the documentation says and the code does not do. *)

(* docs/api-reference.md: pending_requests is the "number of transfers in  *)
(* flight".  running_ is what the last curl_multi_socket_action reported.  *)
PendingIsInFlight == pc = "loop" => running = Cardinality(transfers)

=============================================================================
