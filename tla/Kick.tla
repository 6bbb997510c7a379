-------------------------------- MODULE Kick --------------------------------
(***************************************************************************)
(* How cofetch::Client turns libcurl's one timeout into work of the        *)
(* io_context (include/cofetch.h: timer_cb, kick, the timer's part of      *)
(* ~Client).  libcurl keeps the earliest time it wants to be called at     *)
(* (due) and reports a change of it through timer_cb, from inside any call *)
(* the client makes.  timer_cb may not call curl back: it posts a kick     *)
(* when the time is now, once, and arms the steady_timer otherwise, unless *)
(* a pending wait fires early enough.                                      *)
(*                                                                         *)
(* libcurl and ASIO are external and modelled by their contracts: curl     *)
(* calls timer_cb only when its earliest time differs from the one it last *)
(* reported, except that after CURL_SOCKET_TIMEOUT it always reports; a    *)
(* steady_timer has one pending wait, and a wait that has fired is in the  *)
(* queue of the io_context, where no cancel() reaches it.                  *)
(*                                                                         *)
(* Definitions named Mut... are plausible bugs, each a changed form of the *)
(* definition it precedes; no part of the specification uses them.         *)
(***************************************************************************)
EXTENDS Naturals

CONSTANTS
  Horizon,    \* bound of the model: the clock stops there
  MaxFired,   \* bound of the model: fired waits in the queue at once
  None

ASSUME HorizonAssumption  == Horizon \in Nat
ASSUME MaxFiredAssumption == MaxFired \in Nat
ASSUME NoneAssumption     == None \notin Nat

VARIABLES
  now,            \* steady_clock
  due,            \* libcurl: the earliest timeout, None without one
  alive,          \* *alive_
  kick_pending,   \* kick_pending_
  timer_armed,    \* timer_armed_
  expiry,         \* timer_.expiry()
  waiting,        \* ASIO: the timer has a pending wait
  fired,          \* ASIO: waits that fired and have not run yet
  kicks           \* ASIO: kicks posted and not run yet

timer == <<timer_armed, expiry, waiting>>
vars  == <<now, due, alive, kick_pending, timer, fired, kicks>>

Times == 0..(Horizon - 1)

TypeOK ==
  /\ now \in Nat
  /\ due \in Nat \union {None}
  /\ alive \in BOOLEAN
  /\ kick_pending \in BOOLEAN
  /\ timer_armed \in BOOLEAN
  /\ expiry \in Nat
  /\ waiting \in BOOLEAN
  /\ fired \in Nat
  /\ kicks \in Nat

Init ==
  /\ now = 0
  /\ due = None
  /\ alive = TRUE
  /\ kick_pending = FALSE
  /\ timer_armed = FALSE
  /\ expiry = 0
  /\ waiting = FALSE
  /\ fired = 0
  /\ kicks = 0

-----------------------------------------------------------------------------
(* timer_cb(due' - now), in a step that found pending and armed as the     *)
(* values of kick_pending_ and timer_armed_ and queued kicks.              *)

(* timeout_ms < 0 *)
MutDisarmByExpiry(pending, armed, queued) ==
  /\ due' = None
  /\ expiry' = due'
  /\ waiting' = FALSE
  /\ timer_armed' = FALSE
  /\ kick_pending' = pending
  /\ kicks' = queued

Disarm(pending, armed, queued) ==
  /\ due' = None
  /\ waiting' = FALSE
  /\ timer_armed' = FALSE
  /\ kick_pending' = pending
  /\ kicks' = queued
  /\ UNCHANGED expiry

(* timeout_ms = 0 *)
MutPostEveryKick(pending, armed, queued) ==
  /\ due' # None
  /\ due' <= now
  /\ kicks' = queued + 1
  /\ kick_pending' = TRUE
  /\ timer_armed' = armed
  /\ UNCHANGED <<expiry, waiting>>

PostKick(pending, armed, queued) ==
  /\ due' # None
  /\ due' <= now
  /\ kicks' = IF pending THEN queued ELSE queued + 1
  /\ kick_pending' = TRUE
  /\ timer_armed' = armed
  /\ UNCHANGED <<expiry, waiting>>

(* timeout_ms > 0: "good enough" is a wait that fires no later. *)
MutGoodEnoughIfLater(armed) == armed /\ expiry >= due'

GoodEnough(armed) == armed /\ expiry <= due'

ArmTimer(pending, armed, queued) ==
  /\ due' # None
  /\ due' > now
  /\ timer_armed' = TRUE
  /\ IF GoodEnough(armed)
       THEN UNCHANGED <<expiry, waiting>>
       ELSE expiry' = due' /\ waiting' = TRUE
  /\ kick_pending' = pending
  /\ kicks' = queued

TimerCb(pending, armed, queued) ==
  \/ Disarm(pending, armed, queued)
  \/ PostKick(pending, armed, queued)
  \/ ArmTimer(pending, armed, queued)

Untold(pending, armed, queued) ==
  /\ kick_pending' = pending
  /\ timer_armed' = armed
  /\ kicks' = queued
  /\ UNCHANGED <<expiry, waiting>>

-----------------------------------------------------------------------------
(* Calls of curl other than a kick: timer_cb hears of a change only.       *)

NotifyChange ==
  IF due' = due THEN Untold(kick_pending, timer_armed, kicks)
                ELSE TimerCb(kick_pending, timer_armed, kicks)

(* curl_multi_add_handle: the new transfer is to start at once. *)
AddHandle ==
  /\ alive
  /\ now \in Times
  /\ due' = IF due # None /\ due < now THEN due ELSE now
  /\ NotifyChange
  /\ UNCHANGED <<now, alive, fired>>

(* curl_multi_remove_handle: the timeouts of one transfer go. *)
RemoveHandle ==
  /\ alive
  /\ due # None
  /\ due' \in {None} \union {t \in Times : t >= due}
  /\ NotifyChange
  /\ UNCHANGED <<now, alive, fired>>

(* curl_multi_socket_action of a descriptor runs expired timeouts too. *)
SocketAction ==
  /\ alive
  /\ due' \in {None} \union {t \in Times : t >= now}
  /\ NotifyChange
  /\ UNCHANGED <<now, alive, fired>>

-----------------------------------------------------------------------------
(* kick(): CURL_SOCKET_TIMEOUT runs what is expired and always reports.    *)
(* Some versions of libcurl do not report "no timeout" here.               *)
TimeoutAction(pending, armed, queued) ==
  /\ due' \in IF due # None /\ due <= now
                THEN {None} \union {t \in Times : t >= now}
                ELSE {due}
  /\ \/ TimerCb(pending, armed, queued)
     \/ due' = None /\ Untold(pending, armed, queued)

(* The posted kick clears kick_pending_ before it calls curl, which may    *)
(* ask for the next kick from inside.                                      *)
RunKick ==
  /\ kicks > 0
  /\ IF alive THEN TimeoutAction(FALSE, timer_armed, kicks - 1)
              ELSE /\ kicks' = kicks - 1
                   /\ UNCHANGED <<due, kick_pending, timer>>
  /\ UNCHANGED <<now, alive, fired>>

(* The handler of a wait that fired clears timer_armed_, then kicks. *)
MutRunFiredStaysArmed ==
  /\ fired > 0
  /\ fired' = fired - 1
  /\ IF alive THEN TimeoutAction(kick_pending, timer_armed, kicks)
              ELSE UNCHANGED <<due, kick_pending, timer, kicks>>
  /\ UNCHANGED <<now, alive>>

RunFired ==
  /\ fired > 0
  /\ fired' = fired - 1
  /\ IF alive THEN TimeoutAction(kick_pending, FALSE, kicks)
              ELSE UNCHANGED <<due, kick_pending, timer, kicks>>
  /\ UNCHANGED <<now, alive>>

-----------------------------------------------------------------------------
(* ASIO *)

Expire ==
  /\ waiting
  /\ expiry <= now
  /\ fired < MaxFired
  /\ waiting' = FALSE
  /\ fired' = fired + 1
  /\ UNCHANGED <<now, due, alive, kick_pending, timer_armed, expiry, kicks>>

Tick ==
  /\ now < Horizon
  /\ now' = now + 1
  /\ UNCHANGED <<due, alive, kick_pending, timer, fired, kicks>>

(* ~Client: the pending wait goes with timer_; queued kicks and fired      *)
(* waits stay behind and find no client.  Detaching the transfers in       *)
(* flight still runs timer_cb, which may post one more kick; what it does  *)
(* to timer_ is undone with timer_ itself.                                 *)
Destroy ==
  /\ alive
  /\ alive' = FALSE
  /\ waiting' = FALSE
  /\ due' = None
  /\ \/ UNCHANGED <<kick_pending, kicks>>
     \/ /\ ~kick_pending
        /\ kick_pending' = TRUE
        /\ kicks' = kicks + 1
  /\ UNCHANGED <<now, timer_armed, expiry, fired>>

-----------------------------------------------------------------------------

Next ==
  \/ AddHandle
  \/ RemoveHandle
  \/ SocketAction
  \/ RunKick
  \/ RunFired
  \/ Expire
  \/ Tick
  \/ Destroy

(* The io_context runs what is queued, the timer expires, time passes. *)
Fairness ==
  /\ WF_vars(RunKick)
  /\ WF_vars(RunFired)
  /\ WF_vars(Expire)
  /\ WF_vars(Tick)

Spec == Init /\ [][Next]_vars /\ Fairness

-----------------------------------------------------------------------------

(* The client never sleeps past the time curl wants to be called at: as    *)
(* long as curl has a timeout, a kick is posted, a wait has fired, or one  *)
(* is pending that fires no later.  It is also what keeps io_context::run  *)
(* from returning with transfers in flight.                                *)
NoLostWakeup ==
  alive /\ due # None =>
    kicks > 0 \/ fired > 0 \/ (waiting /\ expiry <= due)

(* "A plain post (deduplicated)": at most one kick is queued, and the flag *)
(* that suppresses the next one is set exactly while it is.                *)
KicksDeduplicated == alive => kicks = IF kick_pending THEN 1 ELSE 0

(* Every timeout curl asks for is acted on: curl is entered and moves on   *)
(* to another time, unless the client goes first.                          *)
EveryTimeoutIsServed ==
  \A t \in Times : due = t ~> due # t \/ ~alive

-----------------------------------------------------------------------------
(* The inductive invariant behind NoLostWakeup (KickProofs): timer_armed_  *)
(* may be trusted because it stays set until the handler of a wait that    *)
(* fired has run, though the wait itself is over before.                   *)
ArmedMeansComing == alive /\ timer_armed => waiting \/ fired > 0

IInv ==
  /\ TypeOK
  /\ NoLostWakeup
  /\ KicksDeduplicated
  /\ ArmedMeansComing

=============================================================================
