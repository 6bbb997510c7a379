------------------------------- MODULE Cofetch ------------------------------
(***************************************************************************)
(* cofetch::Client as a whole (include/cofetch.h): the request engine      *)
(* (Client) and the timer layer (Kick) driven by one libcurl.  What        *)
(* Client leaves open, when curl is entered, is brought about here by a    *)
(* posted kick, by a wait of the timer that fired, or by an event of a     *)
(* socket; what Kick leaves open, the times curl asks for, follows from    *)
(* the requests: each has a timeout, CURLOPT_TIMEOUT_MS.                   *)
(*                                                                         *)
(* Sockets are the environment here: an event may arrive while curl has a  *)
(* transfer to wait for, and none ever has to.  Completion handlers return *)
(* (HandlerThrows of Client is left out), and so do the calls of curl.     *)
(*                                                                         *)
(* Contract assumed of libcurl: it asks to be called at the deadline of    *)
(* each unfinished transfer or earlier, and when it is called no transfer  *)
(* whose time is over is left unfinished.                                  *)
(*                                                                         *)
(* Each action conjoins one of Client and one of Kick; both modules know   *)
(* the client by alive.                                                    *)
(***************************************************************************)
EXTENDS Client

CONSTANTS
  Horizon, MaxFired,   \* bounds of Kick
  Timeouts             \* Request::timeout, in instants of Kick's clock

ASSUME TimeoutsAssumption == Timeouts \subseteq Nat \ {0}
ASSUME ClockAssumption    == Horizon \in Nat /\ MaxFired \in Nat /\ None \notin Nat

VARIABLES
  now, due, kick_pending, timer_armed, expiry, waiting, fired, kicks,  \* Kick
  deadline,   \* libcurl: when the time of each handle's transfer is over
  entry       \* what called curl, while it runs

timing  == <<now, due, kick_pending, timer_armed, expiry, waiting, fired, kicks>>
allVars == <<vars, timing, deadline, entry>>

Timer == INSTANCE Kick

Entries == {"kick", "fired", "event"}

AllTypeOK ==
  /\ TypeOK
  /\ Timer!TypeOK
  /\ deadline \in [Handles -> Nat]
  /\ entry \in Entries \union {None}

AllInit ==
  /\ Init
  /\ Timer!Init
  /\ deadline = [h \in Handles |-> 0]
  /\ entry = None

-----------------------------------------------------------------------------

(* A transfer that starts now gets its deadline, one that is over has none. *)
SetDeadlines(timeout) ==
  deadline' = [h \in Handles |->
                 IF h \notin transfers' THEN 0
                 ELSE IF h \notin transfers THEN now + timeout ELSE deadline[h]]

KeepDeadlines == SetDeadlines(0)

(* The contract of libcurl. *)
Late(h) == h \in Unfinished /\ deadline[h] <= now

AsksInTime ==
  \A h \in Unfinished' : due' # None /\ due' <= deadline[h]

-----------------------------------------------------------------------------
(* Calls of user code *)

(* start() enters curl when it adds the handle. *)
StartIn(r) ==
  /\ Start(r)
  /\ IF transfers' = transfers
       THEN KeepDeadlines /\ UNCHANGED timing
       ELSE \E timeout \in Timeouts :
              /\ now + timeout \in Timer!Times
              /\ SetDeadlines(timeout)
              /\ Timer!AddHandle
  /\ UNCHANGED entry

(* curl_multi_remove_handle may end the wait for the earliest timeout. *)
CurlForgets ==
  IF due = None THEN UNCHANGED timing ELSE Timer!RemoveHandle /\ AsksInTime

CancelIn(r) ==
  /\ Cancel(r)
  /\ IF transfers' = transfers THEN UNCHANGED timing ELSE CurlForgets
  /\ KeepDeadlines
  /\ UNCHANGED entry

DestroyIn ==
  /\ Destroy
  /\ Timer!Destroy
  /\ KeepDeadlines
  /\ UNCHANGED entry

-----------------------------------------------------------------------------
(* The event loop runs a kick, a fired wait or an event; what a kick that  *)
(* finds no client does is Kick's alone.                                   *)
CanRun(from) ==
  CASE from = "kick"  -> kicks > 0
    [] from = "fired" -> fired > 0
    [] from = "event" -> Unfinished # {}

Enter(from) ==
  /\ CanRun(from)
  /\ EnterCurl
  /\ entry' = from
  /\ UNCHANGED <<timing, deadline>>

(* A transfer is answered in time, or its time is over.                    *)
DoneIn(h) ==
  /\ CurlDone(h, IF Late(h) THEN [ec |-> "error", http |-> FALSE]
                            ELSE [ec |-> "ok", http |-> TRUE])
  /\ UNCHANGED <<timing, deadline, entry>>

TimesOut == \E h \in Handles : Late(h) /\ DoneIn(h)

(* curl returns; timer_cb has heard from it what Kick says. *)
Return ==
  /\ CurlReturn
  /\ ~\E h \in Handles : Late(h)
  /\ \/ entry = "kick"  /\ Timer!RunKick
     \/ entry = "fired" /\ Timer!RunFired
     \/ entry = "event" /\ Timer!SocketAction
  /\ AsksInTime
  /\ entry' = None
  /\ KeepDeadlines

DrainIn ==
  /\ DrainOne
  /\ CurlForgets \/ UNCHANGED timing
  /\ KeepDeadlines
  /\ UNCHANGED entry

RunsOut == DrainEnd /\ UNCHANGED <<timing, deadline, entry>>

PostedIn == RunPosted /\ UNCHANGED <<timing, deadline, entry>>

RunsDead ==
  /\ ~alive
  /\ Timer!RunKick \/ Timer!RunFired
  /\ UNCHANGED <<vars, deadline, entry>>

TimePasses ==
  /\ Timer!Expire \/ Timer!Tick
  /\ UNCHANGED <<vars, deadline, entry>>

-----------------------------------------------------------------------------

AllNext ==
  \/ \E r \in Requests : StartIn(r) \/ CancelIn(r)
  \/ DestroyIn
  \/ \E from \in Entries : Enter(from)
  \/ \E h \in Handles : DoneIn(h)
  \/ Return
  \/ DrainIn
  \/ RunsOut
  \/ PostedIn
  \/ RunsDead
  \/ TimePasses

(* The io_context runs what is queued, the calls return and time passes.   *)
(* Nothing is assumed of the network, the servers or the program.          *)
AllFairness ==
  /\ WF_allVars(Enter("kick"))
  /\ WF_allVars(Enter("fired"))
  /\ WF_allVars(PostedIn)
  /\ WF_allVars(TimesOut)
  /\ WF_allVars(Return)
  /\ WF_allVars(DrainIn)
  /\ WF_allVars(RunsOut)
  /\ WF_allVars(RunsDead)
  /\ WF_allVars(Timer!Expire /\ UNCHANGED <<vars, deadline, entry>>)
  /\ WF_allVars(Timer!Tick /\ UNCHANGED <<vars, deadline, entry>>)

AllSpec == AllInit /\ [][AllNext]_allVars /\ AllFairness

-----------------------------------------------------------------------------

(* Whenever the event loop is idle between two handlers, something that    *)
(* will enter curl before the deadline of each transfer in flight is       *)
(* queued or pending: io_context::run does not return, and io_context::poll *)
(* does not stop, before the last completion handler has run.              *)
NeverSleepsPast ==
  alive /\ pc = "loop" =>
    \A h \in transfers :
      kicks > 0 \/ fired > 0 \/ (waiting /\ expiry <= deadline[h])

=============================================================================
