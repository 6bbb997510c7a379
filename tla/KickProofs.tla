----------------------------- MODULE KickProofs -----------------------------
(***************************************************************************)
(* The timer layer of cofetch::Client never sleeps past the time libcurl   *)
(* wants to be called at, whatever the clock does and however calls of     *)
(* curl, posted kicks and fired waits interleave: IInv is inductive.       *)
(***************************************************************************)
EXTENDS Kick, TLAPS

(* The invariant holds at first: curl asks for nothing.                    *)
LEMMA InitInv == Init => IInv
<1> SUFFICES ASSUME Init PROVE IInv
  OBVIOUS
<1>1. /\ alive \in BOOLEAN
      /\ kick_pending \in BOOLEAN /\ ~kick_pending
      /\ timer_armed \in BOOLEAN /\ ~timer_armed
      /\ waiting \in BOOLEAN
  BY Zenon DEF Init
<1>2. now = 0 /\ due = None /\ expiry = 0 /\ fired = 0 /\ kicks = 0
  BY DEF Init
<1>3. QED
  BY <1>1, <1>2 DEF IInv, TypeOK, NoLostWakeup, KicksDeduplicated,
                    ArmedMeansComing

(* timer_cb leaves a wake-up for the new time behind, whichever branch it  *)
(* takes, provided the flags it finds tell the truth.                      *)
LEMMA TimerCbWakes ==
  ASSUME TypeOK, alive,
         NEW pending \in BOOLEAN, NEW armed \in BOOLEAN, NEW queued \in Nat,
         queued = IF pending THEN 1 ELSE 0,
         NEW f \in Nat,
         armed => waiting \/ f > 0,
         due' \in Nat \union {None},
         now' = now, alive' = alive, fired' = f,
         TimerCb(pending, armed, queued)
  PROVE  IInv'
<1> USE NoneAssumption DEF TypeOK, IInv, NoLostWakeup, KicksDeduplicated,
                           ArmedMeansComing
<1>1. CASE Disarm(pending, armed, queued)
  BY <1>1 DEF Disarm
<1>2. CASE PostKick(pending, armed, queued)
  <2>1. kick_pending' /\ kick_pending' \in BOOLEAN
    BY <1>2, Zenon DEF PostKick
  <2>2. kicks' = 1
    BY <1>2 DEF PostKick
  <2>3. QED
    BY <1>2, <2>1, <2>2 DEF PostKick
<1>3. CASE ArmTimer(pending, armed, queued)
  <2>1. timer_armed' /\ timer_armed' \in BOOLEAN
    BY <1>3, Zenon DEF ArmTimer
  <2>2. due' # None /\ due' \in Nat
    BY <1>3 DEF ArmTimer
  <2>3. CASE GoodEnough(armed)
    <3>1. UNCHANGED <<expiry, waiting>>
      BY <1>3, <2>3 DEF ArmTimer
    <3>2. QED
      BY <1>3, <2>1, <2>2, <2>3, <3>1 DEF ArmTimer, GoodEnough
  <2>4. CASE ~GoodEnough(armed)
    <3>1. waiting' /\ waiting' \in BOOLEAN
      BY <1>3, <2>4, Zenon DEF ArmTimer
    <3>2. expiry' = due'
      BY <1>3, <2>4 DEF ArmTimer
    <3>3. kick_pending' = pending /\ kicks' = queued
      BY <1>3 DEF ArmTimer
    <3>4. QED
      BY <2>1, <2>2, <3>1, <3>2, <3>3
  <2>5. QED
    BY <2>3, <2>4
<1>4. QED
  BY <1>1, <1>2, <1>3 DEF TimerCb

(* A call of curl that is not a kick keeps the invariant: what timer_cb is *)
(* not told of has not changed.                                            *)
LEMMA NotifyKeepsInv ==
  ASSUME IInv, alive, due' \in Nat \union {None}, NotifyChange,
         UNCHANGED <<now, alive, fired>>
  PROVE  IInv'
<1>1. CASE due' = due
  BY <1>1 DEF NotifyChange, Untold, IInv, TypeOK, NoLostWakeup,
              KicksDeduplicated, ArmedMeansComing
<1>2. CASE due' # due
  <2>1. TimerCb(kick_pending, timer_armed, kicks)
    BY <1>2 DEF NotifyChange
  <2>2. /\ TypeOK
        /\ kicks = IF kick_pending THEN 1 ELSE 0
        /\ timer_armed => waiting \/ fired > 0
    BY DEF IInv, KicksDeduplicated, ArmedMeansComing
  <2>3. /\ kick_pending \in BOOLEAN /\ timer_armed \in BOOLEAN
        /\ kicks \in Nat /\ fired \in Nat
    BY <2>2 DEF TypeOK
  <2>4. now' = now /\ alive' = alive /\ fired' = fired
    OBVIOUS
  <2>5. QED
    BY <2>1, <2>2, <2>3, <2>4, TimerCbWakes
<1>3. QED
  BY <1>1, <1>2

(* So does a kick, whose timer_cb is always called, or not at all when     *)
(* curl has no timeout left.                                               *)
LEMMA TimeoutKeepsInv ==
  ASSUME TypeOK, alive,
         NEW pending \in BOOLEAN, NEW armed \in BOOLEAN, NEW queued \in Nat,
         queued = IF pending THEN 1 ELSE 0,
         NEW f \in Nat,
         armed => waiting \/ f > 0,
         now' = now, alive' = alive, fired' = f,
         TimeoutAction(pending, armed, queued)
  PROVE  IInv'
<1>1. due' \in Nat \union {None}
  BY HorizonAssumption DEF TimeoutAction, Times, TypeOK
<1>2. CASE TimerCb(pending, armed, queued)
  BY <1>1, <1>2, TimerCbWakes
<1>3. CASE due' = None /\ Untold(pending, armed, queued)
  BY <1>3 DEF Untold, IInv, TypeOK, NoLostWakeup, KicksDeduplicated,
              ArmedMeansComing
<1>4. QED
  BY <1>2, <1>3 DEF TimeoutAction

(* Every step keeps it.                                                    *)
LEMMA NextInv == IInv /\ [Next]_vars => IInv'
<1> SUFFICES ASSUME IInv, [Next]_vars
             PROVE  IInv'
  OBVIOUS
<1>T. TypeOK
  BY DEF IInv
<1>1. CASE AddHandle
  <2>1. due' \in Nat \union {None}
    BY <1>1, <1>T DEF AddHandle, TypeOK
  <2>2. QED
    BY <1>1, <2>1, NotifyKeepsInv DEF AddHandle
<1>2. CASE RemoveHandle
  <2>1. due' \in Nat \union {None}
    BY <1>2, HorizonAssumption DEF RemoveHandle, Times
  <2>2. QED
    BY <1>2, <2>1, NotifyKeepsInv DEF RemoveHandle
<1>3. CASE SocketAction
  <2>1. due' \in Nat \union {None}
    BY <1>3, HorizonAssumption DEF SocketAction, Times
  <2>2. QED
    BY <1>3, <2>1, NotifyKeepsInv DEF SocketAction
<1>4. CASE RunKick
  <2>1. CASE alive
    <3>1. kick_pending /\ kicks = 1
      BY <1>4, <2>1 DEF RunKick, IInv, KicksDeduplicated
    <3>2. TimeoutAction(FALSE, timer_armed, kicks - 1)
      BY <1>4, <2>1, Zenon DEF RunKick
    <3>. kicks - 1 = 0
      BY <3>1
    <3>3. /\ timer_armed \in BOOLEAN /\ fired \in Nat
          /\ timer_armed => waiting \/ fired > 0
      BY <1>T, <2>1 DEF TypeOK, IInv, ArmedMeansComing
    <3>4. now' = now /\ alive' = alive /\ fired' = fired
      BY <1>4 DEF RunKick
    <3>5. QED
      BY <1>T, <2>1, <3>2, <3>3, <3>4, TimeoutKeepsInv
  <2>2. CASE ~alive
    BY <1>4, <2>2 DEF RunKick, timer, IInv, TypeOK, NoLostWakeup,
                      KicksDeduplicated, ArmedMeansComing
  <2>3. QED
    BY <2>1, <2>2
<1>5. CASE RunFired
  <2>1. CASE alive
    <3>1. TimeoutAction(kick_pending, FALSE, kicks)
      BY <1>5, <2>1 DEF RunFired
    <3>2. /\ kick_pending \in BOOLEAN /\ kicks \in Nat
          /\ kicks = IF kick_pending THEN 1 ELSE 0
      BY <1>T, <2>1 DEF TypeOK, IInv, KicksDeduplicated
    <3>3. fired - 1 \in Nat /\ now' = now /\ alive' = alive /\ fired' = fired - 1
      BY <1>T, <1>5 DEF RunFired, TypeOK
    <3>4. QED
      BY <1>T, <2>1, <3>1, <3>2, <3>3, TimeoutKeepsInv
  <2>2. CASE ~alive
    BY <1>5, <2>2 DEF RunFired, timer, IInv, TypeOK, NoLostWakeup,
                      KicksDeduplicated, ArmedMeansComing
  <2>3. QED
    BY <2>1, <2>2
<1>6. CASE Expire
  <2>1. waiting' \in BOOLEAN
    BY <1>6, Zenon DEF Expire
  <2>2. fired' \in Nat /\ fired' > 0
    BY <1>6, <1>T DEF Expire, TypeOK
  <2>3. QED
    BY <1>6, <2>1, <2>2 DEF Expire, IInv, TypeOK, NoLostWakeup,
                            KicksDeduplicated, ArmedMeansComing
<1>7. CASE Tick
  BY <1>7 DEF Tick, timer, IInv, TypeOK, NoLostWakeup, KicksDeduplicated,
              ArmedMeansComing
<1>8. CASE Destroy
  <2>1. ~alive' /\ alive' \in BOOLEAN /\ waiting' \in BOOLEAN
    BY <1>8, Zenon DEF Destroy
  <2>2. kick_pending' \in BOOLEAN /\ kicks' \in Nat
    <3>1. CASE UNCHANGED <<kick_pending, kicks>>
      BY <1>T, <3>1 DEF TypeOK
    <3>2. CASE kick_pending' = TRUE /\ kicks' = kicks + 1
      <4>1. kick_pending' \in BOOLEAN
        BY <3>2, Zenon
      <4>2. QED
        BY <1>T, <3>2, <4>1 DEF TypeOK
    <3>3. QED
      BY <1>8, <3>1, <3>2 DEF Destroy
  <2>3. TypeOK'
    BY <1>8, <1>T, <2>1, <2>2 DEF Destroy, TypeOK
  <2>4. QED
    BY <2>1, <2>3 DEF IInv, NoLostWakeup, KicksDeduplicated, ArmedMeansComing
<1>9. CASE UNCHANGED vars
  BY <1>9 DEF vars, timer, IInv, TypeOK, NoLostWakeup, KicksDeduplicated,
              ArmedMeansComing
<1>10. QED
  BY <1>1, <1>2, <1>3, <1>4, <1>5, <1>6, <1>7, <1>8, <1>9 DEF Next

(* In every behaviour of the timer layer IInv holds. *)
THEOREM InvHolds == Spec => []IInv
<1>1. Init => IInv
  BY InitInv
<1>2. IInv /\ [Next]_vars => IInv'
  BY NextInv
<1>3. QED
  BY <1>1, <1>2, PTL DEF Spec

(* While curl has a timeout, a wake-up no later than it is on its way:     *)
(* timer_cb's "good enough" shortcut and its deduplicated post lose none.  *)
THEOREM WakeupNeverLost == Spec => []NoLostWakeup
<1>1. IInv => NoLostWakeup
  BY DEF IInv
<1>2. QED
  BY <1>1, InvHolds, PTL

(* kick_pending_ is set exactly while one posted kick is queued. *)
THEOREM OneKickAtMost == Spec => []KicksDeduplicated
<1>1. IInv => KicksDeduplicated
  BY DEF IInv
<1>2. QED
  BY <1>1, InvHolds, PTL

(* The flags, the timer and the queues keep their types; no counter of the *)
(* event loop's goes below zero.                                           *)
THEOREM TypeCorrect == Spec => []TypeOK
<1>1. IInv => TypeOK
  BY DEF IInv
<1>2. QED
  BY <1>1, InvHolds, PTL

=============================================================================
