---------------------------- MODULE CofetchProofs ----------------------------
(***************************************************************************)
(* The client as a whole, for any requests, handles, timeouts and clock:   *)
(* it implements its engine (Client) and drives its timer as Kick says, so *)
(* their invariants hold in it, and together with the deadlines curl is to *)
(* keep they say that the event loop never sleeps past one.                *)
(*                                                                         *)
(* The first section proves of the instance Timer what module KickProofs   *)
(* proves of Kick: the prover cannot use the theorems of an instance.      *)
(***************************************************************************)
EXTENDS Cofetch, ClientProofs

-----------------------------------------------------------------------------
(* The timer *)

(* No wake-up is needed before the first request. *)
LEMMA TimerInit == Timer!Init => Timer!IInv
<1> SUFFICES ASSUME Timer!Init PROVE Timer!IInv
  OBVIOUS
<1>1. /\ alive \in BOOLEAN
      /\ kick_pending \in BOOLEAN /\ ~kick_pending
      /\ timer_armed \in BOOLEAN /\ ~timer_armed
      /\ waiting \in BOOLEAN
  BY Zenon DEF Timer!Init
<1>2. now = 0 /\ due = None /\ expiry = 0 /\ fired = 0 /\ kicks = 0
  BY DEF Timer!Init
<1>3. QED
  BY <1>1, <1>2
     DEF Timer!IInv, Timer!TypeOK, Timer!NoLostWakeup,
         Timer!KicksDeduplicated, Timer!ArmedMeansComing

(* timer_cb leaves a wake-up for the new time behind, whichever branch it  *)
(* takes, provided the flags it finds tell the truth.                      *)
LEMMA TimerCbWakes ==
  ASSUME Timer!TypeOK, alive,
         NEW pending \in BOOLEAN, NEW armed \in BOOLEAN, NEW queued \in Nat,
         queued = IF pending THEN 1 ELSE 0,
         NEW f \in Nat,
         armed => waiting \/ f > 0,
         due' \in Nat \union {None},
         now' = now, alive' = alive, fired' = f,
         Timer!TimerCb(pending, armed, queued)
  PROVE  Timer!IInv'
<1> USE ClockAssumption
   DEF Timer!TypeOK, Timer!IInv, Timer!NoLostWakeup, Timer!KicksDeduplicated,
       Timer!ArmedMeansComing
<1>1. CASE Timer!Disarm(pending, armed, queued)
  BY <1>1 DEF Timer!Disarm
<1>2. CASE Timer!PostKick(pending, armed, queued)
  <2>1. kick_pending' /\ kick_pending' \in BOOLEAN
    BY <1>2, Zenon DEF Timer!PostKick
  <2>2. kicks' = 1
    BY <1>2 DEF Timer!PostKick
  <2>3. QED
    BY <1>2, <2>1, <2>2 DEF Timer!PostKick
<1>3. CASE Timer!ArmTimer(pending, armed, queued)
  <2>1. timer_armed' /\ timer_armed' \in BOOLEAN
    BY <1>3, Zenon DEF Timer!ArmTimer
  <2>2. due' # None /\ due' \in Nat
    BY <1>3 DEF Timer!ArmTimer
  <2>3. CASE Timer!GoodEnough(armed)
    <3>1. UNCHANGED <<expiry, waiting>>
      BY <1>3, <2>3 DEF Timer!ArmTimer
    <3>2. QED
      BY <1>3, <2>1, <2>2, <2>3, <3>1 DEF Timer!ArmTimer, Timer!GoodEnough
  <2>4. CASE ~Timer!GoodEnough(armed)
    <3>1. waiting' /\ waiting' \in BOOLEAN
      BY <1>3, <2>4, Zenon DEF Timer!ArmTimer
    <3>2. expiry' = due'
      BY <1>3, <2>4 DEF Timer!ArmTimer
    <3>3. kick_pending' = pending /\ kicks' = queued
      BY <1>3 DEF Timer!ArmTimer
    <3>4. QED
      BY <2>1, <2>2, <3>1, <3>2, <3>3
  <2>5. QED
    BY <2>3, <2>4
<1>4. QED
  BY <1>1, <1>2, <1>3 DEF Timer!TimerCb

(* A call of curl that is not a kick keeps the invariant: what timer_cb is *)
(* not told of has not changed.                                            *)
LEMMA NotifyKeepsInv ==
  ASSUME Timer!IInv, alive, due' \in Nat \union {None}, Timer!NotifyChange,
         UNCHANGED <<now, alive, fired>>
  PROVE  Timer!IInv'
<1>1. CASE due' = due
  BY <1>1
     DEF Timer!NotifyChange, Timer!Untold, Timer!IInv, Timer!TypeOK,
         Timer!NoLostWakeup, Timer!KicksDeduplicated, Timer!ArmedMeansComing
<1>2. CASE due' # due
  <2>1. Timer!TimerCb(kick_pending, timer_armed, kicks)
    BY <1>2 DEF Timer!NotifyChange
  <2>2. /\ Timer!TypeOK
        /\ kicks = IF kick_pending THEN 1 ELSE 0
        /\ timer_armed => waiting \/ fired > 0
    BY DEF Timer!IInv, Timer!KicksDeduplicated, Timer!ArmedMeansComing
  <2>3. /\ kick_pending \in BOOLEAN /\ timer_armed \in BOOLEAN
        /\ kicks \in Nat /\ fired \in Nat
    BY <2>2 DEF Timer!TypeOK
  <2>4. now' = now /\ alive' = alive /\ fired' = fired
    OBVIOUS
  <2>5. QED
    BY <2>1, <2>2, <2>3, <2>4, TimerCbWakes
<1>3. QED
  BY <1>1, <1>2

(* So does a kick, whose timer_cb is always called, or not at all when     *)
(* curl has no timeout left.                                               *)
LEMMA TimeoutKeepsInv ==
  ASSUME Timer!TypeOK, alive,
         NEW pending \in BOOLEAN, NEW armed \in BOOLEAN, NEW queued \in Nat,
         queued = IF pending THEN 1 ELSE 0,
         NEW f \in Nat,
         armed => waiting \/ f > 0,
         now' = now, alive' = alive, fired' = f,
         Timer!TimeoutAction(pending, armed, queued)
  PROVE  Timer!IInv'
<1>1. due' \in Nat \union {None}
  BY ClockAssumption DEF Timer!TimeoutAction, Timer!Times, Timer!TypeOK
<1>2. CASE Timer!TimerCb(pending, armed, queued)
  BY <1>1, <1>2, TimerCbWakes
<1>3. CASE due' = None /\ Timer!Untold(pending, armed, queued)
  BY <1>3
     DEF Timer!Untold, Timer!IInv, Timer!TypeOK, Timer!NoLostWakeup,
         Timer!KicksDeduplicated, Timer!ArmedMeansComing
<1>4. QED
  BY <1>2, <1>3 DEF Timer!TimeoutAction

(* Timer!IInv is inductive. *)
LEMMA TimerStep == Timer!IInv /\ [Timer!Next]_(Timer!vars) => Timer!IInv'
<1> SUFFICES ASSUME Timer!IInv, [Timer!Next]_(Timer!vars)
             PROVE  Timer!IInv'
  OBVIOUS
<1>T. Timer!TypeOK
  BY DEF Timer!IInv
<1>1. CASE Timer!AddHandle
  <2>1. due' \in Nat \union {None}
    BY <1>1, <1>T DEF Timer!AddHandle, Timer!TypeOK
  <2>2. QED
    BY <1>1, <2>1, NotifyKeepsInv DEF Timer!AddHandle
<1>2. CASE Timer!RemoveHandle
  <2>1. due' \in Nat \union {None}
    BY <1>2, ClockAssumption DEF Timer!RemoveHandle, Timer!Times
  <2>2. QED
    BY <1>2, <2>1, NotifyKeepsInv DEF Timer!RemoveHandle
<1>3. CASE Timer!SocketAction
  <2>1. due' \in Nat \union {None}
    BY <1>3, ClockAssumption DEF Timer!SocketAction, Timer!Times
  <2>2. QED
    BY <1>3, <2>1, NotifyKeepsInv DEF Timer!SocketAction
<1>4. CASE Timer!RunKick
  <2>1. CASE alive
    <3>1. kick_pending /\ kicks = 1
      BY <1>4, <2>1 DEF Timer!RunKick, Timer!IInv, Timer!KicksDeduplicated
    <3>2. Timer!TimeoutAction(FALSE, timer_armed, kicks - 1)
      BY <1>4, <2>1, Zenon DEF Timer!RunKick
    <3>. kicks - 1 = 0
      BY <3>1
    <3>3. /\ timer_armed \in BOOLEAN /\ fired \in Nat
          /\ timer_armed => waiting \/ fired > 0
      BY <1>T, <2>1 DEF Timer!TypeOK, Timer!IInv, Timer!ArmedMeansComing
    <3>4. now' = now /\ alive' = alive /\ fired' = fired
      BY <1>4 DEF Timer!RunKick
    <3>5. QED
      BY <1>T, <2>1, <3>2, <3>3, <3>4, TimeoutKeepsInv
  <2>2. CASE ~alive
    BY <1>4, <2>2
       DEF Timer!RunKick, Timer!timer, Timer!IInv, Timer!TypeOK,
           Timer!NoLostWakeup, Timer!KicksDeduplicated,
           Timer!ArmedMeansComing
  <2>3. QED
    BY <2>1, <2>2
<1>5. CASE Timer!RunFired
  <2>1. CASE alive
    <3>1. Timer!TimeoutAction(kick_pending, FALSE, kicks)
      BY <1>5, <2>1 DEF Timer!RunFired
    <3>2. /\ kick_pending \in BOOLEAN /\ kicks \in Nat
          /\ kicks = IF kick_pending THEN 1 ELSE 0
      BY <1>T, <2>1 DEF Timer!TypeOK, Timer!IInv, Timer!KicksDeduplicated
    <3>3. /\ fired - 1 \in Nat /\ fired' = fired - 1
          /\ now' = now /\ alive' = alive
      BY <1>T, <1>5 DEF Timer!RunFired, Timer!TypeOK
    <3>4. QED
      BY <1>T, <2>1, <3>1, <3>2, <3>3, TimeoutKeepsInv
  <2>2. CASE ~alive
    BY <1>5, <2>2
       DEF Timer!RunFired, Timer!timer, Timer!IInv, Timer!TypeOK,
           Timer!NoLostWakeup, Timer!KicksDeduplicated,
           Timer!ArmedMeansComing
  <2>3. QED
    BY <2>1, <2>2
<1>6. CASE Timer!Expire
  <2>1. waiting' \in BOOLEAN
    BY <1>6, Zenon DEF Timer!Expire
  <2>2. fired' \in Nat /\ fired' > 0
    BY <1>6, <1>T DEF Timer!Expire, Timer!TypeOK
  <2>3. QED
    BY <1>6, <2>1, <2>2
       DEF Timer!Expire, Timer!IInv, Timer!TypeOK, Timer!NoLostWakeup,
           Timer!KicksDeduplicated, Timer!ArmedMeansComing
<1>7. CASE Timer!Tick
  BY <1>7
     DEF Timer!Tick, Timer!timer, Timer!IInv, Timer!TypeOK,
         Timer!NoLostWakeup, Timer!KicksDeduplicated, Timer!ArmedMeansComing
<1>8. CASE Timer!Destroy
  <2>1. ~alive' /\ alive' \in BOOLEAN /\ waiting' \in BOOLEAN
    BY <1>8, Zenon DEF Timer!Destroy
  <2>2. kick_pending' \in BOOLEAN /\ kicks' \in Nat
    <3>1. CASE UNCHANGED <<kick_pending, kicks>>
      BY <1>T, <3>1 DEF Timer!TypeOK
    <3>2. CASE kick_pending' = TRUE /\ kicks' = kicks + 1
      <4>1. kick_pending' \in BOOLEAN
        BY <3>2, Zenon
      <4>2. QED
        BY <1>T, <3>2, <4>1 DEF Timer!TypeOK
    <3>3. QED
      BY <1>8, <3>1, <3>2 DEF Timer!Destroy
  <2>3. Timer!TypeOK'
    BY <1>8, <1>T, <2>1, <2>2 DEF Timer!Destroy, Timer!TypeOK
  <2>4. QED
    BY <2>1, <2>3
       DEF Timer!IInv, Timer!NoLostWakeup, Timer!KicksDeduplicated,
           Timer!ArmedMeansComing
<1>9. CASE UNCHANGED Timer!vars
  BY <1>9
     DEF Timer!vars, Timer!timer, Timer!IInv, Timer!TypeOK,
         Timer!NoLostWakeup, Timer!KicksDeduplicated, Timer!ArmedMeansComing
<1>10. QED
  BY <1>1, <1>2, <1>3, <1>4, <1>5, <1>6, <1>7, <1>8, <1>9 DEF Timer!Next

-----------------------------------------------------------------------------
(* The two parts *)

(* Whatever the client as a whole does is a step of its engine or none. *)
LEMMA EngineStep == [AllNext]_allVars => [Next]_vars
<1> SUFFICES ASSUME [AllNext]_allVars PROVE [Next]_vars
  OBVIOUS
<1>1. ASSUME NEW r \in Requests, StartIn(r) \/ CancelIn(r) PROVE Next
  BY <1>1 DEF StartIn, CancelIn, Next
<1>2. ASSUME NEW h \in Handles, DoneIn(h) PROVE Next
  <2>1. \E res \in Outcomes : CurlDone(h, res)
    <3>1. [ec |-> "error", http |-> FALSE] \in Outcomes
          /\ [ec |-> "ok", http |-> TRUE] \in Outcomes
      BY DEF Outcomes
    <3>2. QED
      BY <1>2, <3>1 DEF DoneIn
  <2>2. QED
    BY <2>1 DEF Next
<1>3. CASE \/ DestroyIn \/ Return \/ DrainIn \/ RunsOut \/ PostedIn
           \/ \E from \in Entries : Enter(from)
  BY <1>3 DEF DestroyIn, Return, DrainIn, RunsOut, PostedIn, Enter, Next
<1>4. CASE RunsDead \/ TimePasses \/ UNCHANGED allVars
  BY <1>4 DEF RunsDead, TimePasses, allVars
<1>5. QED
  BY <1>1, <1>2, <1>3, <1>4 DEF AllNext

(* And a step of its timer or none: each call of curl is one Kick has.     *)
LEMMA TimingStep == [AllNext]_allVars => [Timer!Next]_(Timer!vars)
<1> SUFFICES ASSUME [AllNext]_allVars PROVE [Timer!Next]_(Timer!vars)
  OBVIOUS
<1>1. ASSUME UNCHANGED timing, UNCHANGED alive
      PROVE  UNCHANGED Timer!vars
  BY <1>1 DEF timing, Timer!vars, Timer!timer
<1>2. ASSUME NEW r \in Requests, StartIn(r) PROVE [Timer!Next]_(Timer!vars)
  BY <1>1, <1>2 DEF StartIn, Start, Timer!Next
<1>3. ASSUME NEW r \in Requests, CancelIn(r) PROVE [Timer!Next]_(Timer!vars)
  BY <1>1, <1>3 DEF CancelIn, Cancel, CurlForgets, Timer!Next
<1>4. CASE DrainIn
  BY <1>1, <1>4 DEF DrainIn, DrainOne, CurlForgets, Timer!Next
<1>5. CASE DestroyIn \/ Return \/ RunsDead \/ TimePasses
  BY <1>5 DEF DestroyIn, Return, RunsDead, TimePasses, Timer!Next
<1>6. CASE \/ \E from \in Entries : Enter(from)
           \/ \E h \in Handles : DoneIn(h)
           \/ RunsOut \/ PostedIn
           \/ UNCHANGED allVars
  <2>1. UNCHANGED timing /\ UNCHANGED alive
    BY <1>6 DEF Enter, EnterCurl, DoneIn, CurlDone, RunsOut, DrainEnd, PostedIn,
                RunPosted, allVars, vars, client
  <2>2. QED
    BY <1>1, <2>1
<1>7. QED
  BY <1>2, <1>3, <1>4, <1>5, <1>6 DEF AllNext

(* The client as a whole implements its engine, so what is proved of       *)
(* Client holds of it.                                                     *)
THEOREM ImplementsClient == AllSpec => Spec
<1>1. AllInit => Init
  BY DEF AllInit
<1>2. QED
  BY <1>1, EngineStep, PTL DEF AllSpec, Spec

(* The timer's invariant, which needs no fairness, holds in the whole. *)
LEMMA TimerInvHolds == AllSpec => []Timer!IInv
<1>1. AllInit => Timer!Init
  BY DEF AllInit
<1>2. QED
  BY <1>1, TimerInit, TimerStep, TimingStep, PTL DEF AllSpec

-----------------------------------------------------------------------------
(* The deadlines *)

(* Curl has asked to be called by the time the earliest transfer it works  *)
(* on is over, and no message waits while the event loop is idle.          *)
Asked == \A h \in Unfinished : due # None /\ due <= deadline[h]

OnTime ==
  /\ deadline \in [Handles -> Nat]
  /\ entry \in Entries \union {None}
  /\ alive => Asked
  /\ alive /\ pc = "loop" => msgs = {}

(* Curl works on the transfers in flight that have no message. *)
LEMMA UnfinishedIs ==
  IInv => Unfinished = {h \in transfers : ~\E m \in msgs : m.eh = h}
<1> SUFFICES ASSUME IInv
             PROVE  Unfinished = {h \in transfers : ~\E m \in msgs : m.eh = h}
  OBVIOUS
<1>1. transfers \subseteq Handles
  BY DEF IInv, TypeOK
<1>2. \A h \in Handles : multi[h] = "ours" <=> h \in transfers
  BY DEF IInv, NodeInv
<1>3. QED
  BY <1>1, <1>2 DEF Unfinished

(* The deadline of a transfer is set when it starts and never moves. *)
LEMMA DeadlineFacts ==
  ASSUME OnTime, NEW timeout \in Nat, now \in Nat, SetDeadlines(timeout)
  PROVE  /\ deadline' \in [Handles -> Nat]
         /\ \A h \in Handles :
              /\ h \in transfers' /\ h \in transfers => deadline'[h] = deadline[h]
              /\ h \in transfers' /\ h \notin transfers
                   => deadline'[h] = now + timeout
<1>1. deadline \in [Handles -> Nat] /\ now + timeout \in Nat
  BY DEF OnTime
<1>2. QED
  BY <1>1 DEF SetDeadlines

(* Transfers that end leave the others' deadlines in reach. *)
LEMMA FewerStayAsked ==
  ASSUME IInv, IInv', OnTime, now \in Nat, alive,
         transfers' \subseteq transfers,
         \A m \in msgs : m.eh \in transfers' => m \in msgs',
         KeepDeadlines,
         UNCHANGED timing \/ CurlForgets \/ AsksInTime
  PROVE  Asked' /\ deadline' \in [Handles -> Nat]
<1>1. /\ Unfinished = {h \in transfers : ~\E m \in msgs : m.eh = h}
      /\ Unfinished' = {h \in transfers' : ~\E m \in msgs' : m.eh = h}
  <2>1. IInv' => (Unfinished = {h \in transfers : ~\E m \in msgs : m.eh = h})'
    BY UnfinishedIs, PTL
  <2>2. QED
    BY <2>1, UnfinishedIs
<1>2. Unfinished' \subseteq Unfinished
  BY <1>1
<1>3. Unfinished' \subseteq Handles
  BY DEF Unfinished
<1>4. /\ deadline' \in [Handles -> Nat]
      /\ \A h \in Unfinished' : deadline'[h] = deadline[h]
  BY <1>1, <1>2, <1>3, DeadlineFacts DEF KeepDeadlines
<1>5. Asked
  BY DEF OnTime
<1>6. CASE AsksInTime
  BY <1>4, <1>6 DEF AsksInTime, Asked
<1>7. CASE due' = due
  BY <1>2, <1>4, <1>5, <1>7 DEF Asked
<1>8. CASE CurlForgets
  BY <1>6, <1>7, <1>8 DEF CurlForgets, timing
<1>9. QED
  BY <1>6, <1>7, <1>8 DEF timing

(* A transfer that starts has curl ask to be called at once. *)
LEMMA StartOnTime ==
  ASSUME IInv, IInv', OnTime, Timer!IInv, NEW r \in Requests, StartIn(r)
  PROVE  OnTime'
<1>1. now \in Nat /\ due \in Nat \union {None}
  BY DEF Timer!IInv, Timer!TypeOK
<1>2. alive /\ UNCHANGED <<alive, msgs, pc, entry>>
  BY DEF StartIn, Start
<1>3. CASE transfers' = transfers
  <2>1. KeepDeadlines /\ UNCHANGED timing
    BY <1>3 DEF StartIn
  <2>2. Asked' /\ deadline' \in [Handles -> Nat]
    BY <1>1, <1>2, <1>3, <2>1, FewerStayAsked
  <2>3. QED
    BY <1>2, <2>2 DEF OnTime
<1>4. CASE transfers' # transfers
  <2>1. PICK timeout \in Timeouts : SetDeadlines(timeout) /\ Timer!AddHandle
    BY <1>4 DEF StartIn
  <2>2. timeout \in Nat
    BY TimeoutsAssumption
  <2>3. /\ deadline' \in [Handles -> Nat]
        /\ \A h \in Handles :
             /\ h \in transfers' /\ h \in transfers => deadline'[h] = deadline[h]
             /\ h \in transfers' /\ h \notin transfers
                  => deadline'[h] = now + timeout
    BY <1>1, <2>1, <2>2, DeadlineFacts
  <2>4. due' = IF due # None /\ due < now THEN due ELSE now
    BY <2>1 DEF Timer!AddHandle
  <2>5. due' # None /\ due' \in Nat /\ due' <= now
    BY <1>1, <2>4, ClockAssumption
  <2>6. (Unfinished = {h \in transfers : ~\E m \in msgs : m.eh = h})'
    BY UnfinishedIs, PTL
  <2>7. ASSUME NEW h \in Unfinished' PROVE due' <= deadline'[h]
    <3>1. h \in Handles /\ h \in transfers' /\ ~\E m \in msgs : m.eh = h
      BY <1>2, <2>6, <2>7 DEF Unfinished
    <3>2. CASE h \in transfers
      <4>1. h \in Unfinished
        BY <3>1, <3>2, UnfinishedIs
      <4>2. due # None /\ due <= deadline[h] /\ deadline[h] \in Nat
        BY <1>2, <3>1, <4>1 DEF OnTime, Asked
      <4>3. deadline'[h] = deadline[h]
        BY <2>3, <3>1, <3>2
      <4>4. due' <= due
        BY <1>1, <2>4, <4>2
      <4>5. QED
        BY <1>1, <2>5, <4>2, <4>3, <4>4
    <3>3. CASE h \notin transfers
      <4>1. deadline'[h] = now + timeout
        BY <2>3, <3>1, <3>3
      <4>2. QED
        BY <1>1, <2>2, <2>5, <4>1
    <3>4. QED
      BY <3>2, <3>3
  <2>8. Asked'
    BY <2>5, <2>7 DEF Asked
  <2>9. QED
    BY <1>2, <2>3, <2>8 DEF OnTime
<1>5. QED
  BY <1>3, <1>4

(* A cancelled transfer leaves the others their wake-up. *)
LEMMA CancelOnTime ==
  ASSUME IInv, IInv', OnTime, Timer!IInv, NEW r \in Requests, CancelIn(r)
  PROVE  OnTime'
<1>1. now \in Nat
  BY DEF Timer!IInv, Timer!TypeOK
<1>2. /\ KeepDeadlines /\ UNCHANGED <<alive, pc, entry>>
      /\ UNCHANGED timing \/ CurlForgets
  BY DEF CancelIn, Cancel
<1>3. /\ transfers' \subseteq transfers /\ msgs' \subseteq msgs
      /\ \A m \in msgs : m.eh \in transfers' => m \in msgs'
  BY DEF CancelIn, Cancel, CancelTransfer, Retire, MessagesWithout
<1>4. alive => Asked' /\ deadline' \in [Handles -> Nat]
  BY <1>1, <1>2, <1>3, FewerStayAsked
<1>5. deadline' \in [Handles -> Nat]
  BY <1>1, <1>2, DeadlineFacts DEF KeepDeadlines
<1>6. QED
  BY <1>2, <1>3, <1>4, <1>5 DEF OnTime

(* So does one whose message is read. *)
LEMMA DrainOnTime ==
  ASSUME IInv, IInv', OnTime, Timer!IInv, DrainIn
  PROVE  OnTime'
<1>1. now \in Nat
  BY DEF Timer!IInv, Timer!TypeOK
<1>2. /\ KeepDeadlines /\ UNCHANGED <<alive, entry>> /\ pc' = "handler"
      /\ UNCHANGED timing \/ CurlForgets
  BY DEF DrainIn, DrainOne
<1>3. /\ transfers' \subseteq transfers
      /\ \A m \in msgs : m.eh \in transfers' => m \in msgs'
  BY DEF DrainIn, DrainOne, Retire, MessagesWithout
<1>4. alive => Asked' /\ deadline' \in [Handles -> Nat]
  BY <1>1, <1>2, <1>3, FewerStayAsked
<1>5. deadline' \in [Handles -> Nat]
  BY <1>1, <1>2, DeadlineFacts DEF KeepDeadlines
<1>6. QED
  BY <1>2, <1>4, <1>5 DEF OnTime

(* Curl returns having asked for a call by the deadlines that are left.    *)
LEMMA ReturnOnTime ==
  ASSUME IInv, IInv', OnTime, Timer!IInv, Return
  PROVE  OnTime'
<1>1. now \in Nat
  BY DEF Timer!IInv, Timer!TypeOK
<1>2. /\ KeepDeadlines /\ AsksInTime /\ UNCHANGED <<alive, transfers, msgs>>
      /\ pc' = "drain" /\ entry' = None
  BY DEF Return, CurlReturn, curl
<1>3. alive => Asked' /\ deadline' \in [Handles -> Nat]
  BY <1>1, <1>2, FewerStayAsked
<1>4. deadline' \in [Handles -> Nat]
  BY <1>1, <1>2, DeadlineFacts DEF KeepDeadlines
<1>5. QED
  BY <1>2, <1>3, <1>4 DEF OnTime

(* Every step of the whole keeps the transfers on time. *)
LEMMA OnTimeStep ==
  ASSUME IInv, IInv', OnTime, Timer!IInv, [AllNext]_allVars
  PROVE  OnTime'
<1>1. now \in Nat
  BY DEF Timer!IInv, Timer!TypeOK
<1>2. CASE DestroyIn
  <2>1. KeepDeadlines /\ alive' = FALSE /\ entry' = entry
    BY <1>2 DEF DestroyIn, Destroy
  <2>2. deadline' \in [Handles -> Nat]
    BY <1>1, <2>1, DeadlineFacts DEF KeepDeadlines
  <2>3. QED
    BY <2>1, <2>2 DEF OnTime
<1>3. ASSUME NEW from \in Entries, Enter(from) PROVE OnTime'
  <2>1. /\ UNCHANGED <<alive, multi, msgs, due, deadline>>
        /\ pc' = "curl" /\ entry' = from
    BY <1>3 DEF Enter, EnterCurl, client, curl, timing
  <2>2. Unfinished' = Unfinished
    BY <2>1 DEF Unfinished
  <2>3. QED
    BY <2>1, <2>2 DEF OnTime, Asked
<1>4. ASSUME NEW h \in Handles, DoneIn(h) PROVE OnTime'
  <2>1. /\ UNCHANGED <<alive, multi, due, deadline, entry>>
        /\ pc' = "curl" /\ msgs \subseteq msgs'
    BY <1>4 DEF DoneIn, CurlDone, client, timing
  <2>2. Unfinished' \subseteq Unfinished
    BY <2>1 DEF Unfinished
  <2>3. QED
    BY <2>1, <2>2 DEF OnTime, Asked
<1>5. CASE RunsOut \/ PostedIn \/ TimePasses \/ UNCHANGED allVars
  <2>1. /\ UNCHANGED <<alive, multi, msgs, due, deadline, entry>>
        /\ pc' = pc \/ msgs = {}
    BY <1>5 DEF RunsOut, DrainEnd, Drained, PostedIn, RunPosted, TimePasses,
                Timer!Expire, Timer!Tick, allVars, vars, client, curl, timing
  <2>2. Unfinished' = Unfinished
    BY <2>1 DEF Unfinished
  <2>3. QED
    BY <2>1, <2>2 DEF OnTime, Asked
<1>6. CASE RunsDead
  BY <1>6 DEF RunsDead, vars, client, curl, OnTime
<1>7. QED
  BY <1>2, <1>3, <1>4, <1>5, <1>6, StartOnTime, CancelOnTime, DrainOnTime,
     ReturnOnTime DEF AllNext

-----------------------------------------------------------------------------
(* What holds of the client as a whole *)

(* The invariants of the engine and of the timer, and the deadlines.       *)
THEOREM AllInvHolds == AllSpec => [](IInv /\ Timer!IInv /\ OnTime)
<1>1. AllInit => OnTime
  <2> SUFFICES ASSUME AllInit PROVE OnTime
    OBVIOUS
  <2>1. /\ deadline = [h \in Handles |-> 0] /\ entry = None /\ msgs = {}
        /\ Unfinished = {}
    BY DEF AllInit, Init, Unfinished
  <2>2. QED
    BY <2>1 DEF OnTime, Asked
<1>2. IInv /\ IInv' /\ Timer!IInv /\ OnTime /\ [AllNext]_allVars => OnTime'
  BY OnTimeStep
<1>3. AllSpec => []IInv
  BY ImplementsClient, InvHolds, PTL
<1>4. QED
  BY <1>1, <1>2, <1>3, TimerInvHolds, PTL DEF AllSpec

(* The variables of all parts keep their types. *)
THEOREM AllTypesCorrect == AllSpec => []AllTypeOK
<1>1. IInv /\ Timer!IInv /\ OnTime => AllTypeOK
  BY DEF AllTypeOK, IInv, Timer!IInv, OnTime
<1>2. QED
  BY <1>1, AllInvHolds, PTL

(* Whenever the event loop is idle, something that enters curl before the  *)
(* deadline of each transfer in flight is queued or pending, whatever the  *)
(* requests, the clock and the order of kicks, waits and events.           *)
THEOREM SleepIsShort == AllSpec => []NeverSleepsPast
<1>1. IInv /\ Timer!IInv /\ OnTime => NeverSleepsPast
  <2> SUFFICES ASSUME IInv, Timer!IInv, OnTime, alive, pc = "loop",
                      NEW h \in transfers
               PROVE  kicks > 0 \/ fired > 0 \/ (waiting /\ expiry <= deadline[h])
    BY DEF NeverSleepsPast
  <2>1. h \in Unfinished /\ h \in Handles
    BY UnfinishedIs DEF OnTime, Unfinished
  <2>2. due # None /\ due <= deadline[h] /\ deadline[h] \in Nat
    BY <2>1 DEF OnTime, Asked
  <2>3. kicks > 0 \/ fired > 0 \/ (waiting /\ expiry <= due)
    BY <2>2 DEF Timer!IInv, Timer!NoLostWakeup
  <2>4. due \in Nat /\ expiry \in Nat
    BY <2>2 DEF Timer!IInv, Timer!TypeOK
  <2>5. QED
    BY <2>2, <2>3, <2>4
<1>2. QED
  BY <1>1, AllInvHolds, PTL

(* The client as a whole does nothing AsyncRequest forbids. *)
THEOREM WholeKeepsThePromise ==
  AllSpec => Promise!Init /\ [][Promise!Next]_(Promise!vars)
  BY ImplementsClient, KeepsThePromise, PTL

=============================================================================
