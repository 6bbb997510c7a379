--------------------------- MODULE SocketsProofs ----------------------------
(***************************************************************************)
(* The socket layer of cofetch::Client for any descriptors, states and     *)
(* flags: IInv, defined in module Sockets, is inductive, and the           *)
(* properties the runs check follow from it.                               *)
(*                                                                         *)
(* The invariant has two halves that are proved apart.  DescriptorInv says *)
(* which state is of which descriptor, and who has it open: it never looks *)
(* at a wait.  WaitInv says which waits and completions a state has: of    *)
(* the first half it needs that an open state is owned.                    *)
(***************************************************************************)
EXTENDS Sockets, TLAPS

(* The fields of a state. *)
Fields == [fd : Fds \union {None}, borrowed : BOOLEAN, watch : SUBSET Flags,
           armed : SUBSET Flags, open : BOOLEAN]

Completions == [st : States, flag : Flags, aborted : BOOLEAN]

-----------------------------------------------------------------------------
(* The operators of the model. *)

(* arm() starts the waits that are missing, and leaves the other states and *)
(* their waits alone.                                                      *)
LEMMA ArmEffect ==
  ASSUME TypeOK, NEW st \in States, NEW o \in Fields, Arm(st, o)
  PROVE  /\ obj' \in [States -> Fields]
         /\ waits' \subseteq States \X Flags
         /\ deserted' = deserted \ {st}
         /\ doubled' \subseteq States \X Flags
         /\ (\A f \in o.watch \ o.armed : o.open => <<st, f>> \notin waits)
              => doubled' = doubled
         /\ \A s \in States \ {st} : obj'[s] = obj[s]
         /\ /\ obj'[st].fd = o.fd
            /\ obj'[st].borrowed = o.borrowed
            /\ obj'[st].watch = o.watch
            /\ obj'[st].open = o.open
            /\ o.open => obj'[st].armed = o.armed \union o.watch
            /\ ~o.open => obj'[st].armed = o.armed
         /\ \A s \in States, f \in Flags :
              <<s, f>> \in waits' <=>
                \/ <<s, f>> \in waits
                \/ s = st /\ o.open /\ f \in o.watch \ o.armed
<1> DEFINE new == [o EXCEPT !.armed = @ \union Missing(o)]
<1>1. Missing(o) \subseteq Flags
  BY DEF Missing, Fields
<1>2. /\ new \in Fields
      /\ new.fd = o.fd /\ new.borrowed = o.borrowed
      /\ new.watch = o.watch /\ new.open = o.open
      /\ new.armed = o.armed \union Missing(o)
  BY <1>1 DEF Fields
<1>3. obj \in [States -> Fields] /\ obj' = [obj EXCEPT ![st] = new]
  BY DEF Arm, TypeOK, Fields
<1>4. /\ obj' \in [States -> Fields] /\ obj'[st] = new
      /\ \A s \in States \ {st} : obj'[s] = obj[s]
  BY <1>2, <1>3
<1>5. /\ o.open => obj'[st].armed = o.armed \union o.watch
      /\ ~o.open => obj'[st].armed = o.armed
  BY <1>1, <1>2, <1>4 DEF Missing, Fields
<1>6. waits' = waits \union ({st} \X Missing(o)) /\ deserted' = deserted \ {st}
  BY DEF Arm
<1>7. waits' \subseteq States \X Flags
  BY <1>1, <1>6 DEF TypeOK
<1>8. \A s \in States, f \in Flags :
        <<s, f>> \in waits' <=>
          \/ <<s, f>> \in waits
          \/ s = st /\ o.open /\ f \in o.watch \ o.armed
  BY <1>6 DEF Missing
<1>9. doubled' = doubled \union (waits \intersect ({st} \X Missing(o)))
  BY DEF Arm
<1>10. doubled' \subseteq States \X Flags
  BY <1>1, <1>9 DEF TypeOK
<1>11. (\A f \in o.watch \ o.armed : o.open => <<st, f>> \notin waits)
          => doubled' = doubled
  <2> SUFFICES ASSUME \A f \in o.watch \ o.armed : o.open => <<st, f>> \notin waits
               PROVE  doubled' = doubled
    OBVIOUS
  <2>1. waits \intersect ({st} \X Missing(o)) = {}
    BY DEF Missing
  <2>2. QED
    BY <1>9, <2>1
<1>12. QED
  BY <1>2, <1>4, <1>5, <1>6, <1>7, <1>8, <1>10, <1>11

(* In particular every state stays what it is: of its descriptor, borrowed *)
(* or not, open or not.                                                    *)
LEMMA ArmKeeps ==
  ASSUME TypeOK, NEW st \in States, NEW o \in Fields, Arm(st, o),
         o.fd = obj[st].fd, o.borrowed = obj[st].borrowed, o.open = obj[st].open
  PROVE  \A s \in States : /\ obj'[s].fd = obj[s].fd
                          /\ obj'[s].borrowed = obj[s].borrowed
                          /\ obj'[s].open = obj[s].open
<1>1. /\ obj'[st].fd = o.fd
      /\ obj'[st].borrowed = o.borrowed
      /\ obj'[st].open = o.open
  BY ArmEffect
<1>2. \A s \in States \ {st} : obj'[s] = obj[s]
  BY ArmEffect
<1>3. QED
  BY <1>1, <1>2

(* A borrowed state is armed for all that curl wants. *)
LEMMA BorrowEffect ==
  ASSUME TypeOK, NEW fd \in Fds, NEW st \in States, NEW what \in SUBSET Flags,
         WatchBorrowed(fd, what, st)
  PROVE  /\ obj'[st].fd = fd
         /\ obj'[st].borrowed = TRUE
         /\ obj'[st].open = TRUE
         /\ obj'[st].watch = what
         /\ obj'[st].armed = what
         /\ \A s \in States \ {st} : obj'[s] = obj[s]
         /\ doubled' = doubled
         /\ \A s \in States, f \in Flags :
              <<s, f>> \in waits' <=> <<s, f>> \in waits \/ (s = st /\ f \in what)
<1> DEFINE o == [NewState(fd, TRUE) EXCEPT !.watch = what]
<1>1. /\ o \in Fields /\ o.fd = fd /\ o.borrowed = TRUE /\ o.open = TRUE
      /\ o.watch = what /\ o.armed = {}
  BY DEF Fields, NewState
<1>2. Arm(st, o)
  BY DEF WatchBorrowed
<1> HIDE DEF o
<1>3. /\ obj'[st].fd = o.fd
      /\ obj'[st].borrowed = o.borrowed
      /\ obj'[st].open = o.open
      /\ obj'[st].watch = o.watch
  BY <1>1, <1>2, ArmEffect
<1>. obj'[st].armed = IF o.open THEN o.armed \union o.watch ELSE o.armed
  BY <1>1, <1>2, ArmEffect
<1>4. \A s \in States \ {st} : obj'[s] = obj[s]
  BY <1>1, <1>2, ArmEffect
<1>5. \A s \in States, f \in Flags :
        <<s, f>> \in waits' <=>
          <<s, f>> \in waits \/ (s = st /\ o.open /\ f \in o.watch \ o.armed)
  BY <1>1, <1>2, ArmEffect
<1>6. \A f \in Flags : <<st, f>> \notin waits
  BY DEF WatchBorrowed, Fresh
<1>7. doubled' = doubled
  BY <1>1, <1>2, <1>6, ArmEffect
<1>8. QED
  BY <1>1, <1>3, <1>4, <1>5, <1>7

(* Closing a socket turns its pending waits into aborted completions.      *)
LEMMA AbortEffect ==
  ASSUME TypeOK, NEW set, AbortWaits(set)
  PROVE  /\ waits' \subseteq States \X Flags
         /\ queue' \subseteq Completions
         /\ \A s \in States, f \in Flags :
              <<s, f>> \in waits' <=> <<s, f>> \in waits /\ s \notin set
         /\ \A c \in Completions :
              c \in queue' <=>
                \/ c \in queue
                \/ c.aborted /\ c.st \in set /\ <<c.st, c.flag>> \in waits
<1> DEFINE Aborted(w) == [st |-> w[1], flag |-> w[2], aborted |-> TRUE]
<1>1. /\ waits' = waits \ WaitsOf(set)
      /\ queue' = queue \union {Aborted(w) : w \in WaitsOf(set)}
  BY DEF AbortWaits
<1>2. waits \subseteq States \X Flags /\ queue \subseteq Completions
  BY DEF TypeOK, Completions
<1>3. \A s \in States, f \in Flags :
        <<s, f>> \in WaitsOf(set) <=> <<s, f>> \in waits /\ s \in set
  BY DEF WaitsOf
<1>4. WaitsOf(set) \subseteq waits
  BY DEF WaitsOf
<1>5. \A w \in waits : Aborted(w) \in Completions
  BY <1>2 DEF Completions
<1>6. ASSUME NEW c \in Completions
      PROVE  c \in {Aborted(w) : w \in WaitsOf(set)} <=>
               c.aborted /\ c.st \in set /\ <<c.st, c.flag>> \in waits
  <2>1. /\ c.st \in States /\ c.flag \in Flags
        /\ c = [st |-> c.st, flag |-> c.flag, aborted |-> c.aborted]
    BY DEF Completions
  <2>2. ASSUME NEW w \in WaitsOf(set), c = Aborted(w)
        PROVE  c.aborted /\ c.st \in set /\ <<c.st, c.flag>> \in waits
    <3>1. PICK s \in States, f \in Flags : w = <<s, f>>
      BY <1>2, <1>4
    <3>2. s \in set /\ <<s, f>> \in waits
      BY <1>3, <2>2, <3>1
    <3>3. c.aborted /\ c.st = s /\ c.flag = f
      BY <2>2, <3>1
    <3>4. QED
      BY <3>2, <3>3
  <2>3. ASSUME c.aborted, c.st \in set, <<c.st, c.flag>> \in waits
        PROVE  c = Aborted(<<c.st, c.flag>>) /\ <<c.st, c.flag>> \in WaitsOf(set)
    <3>1. c.aborted = TRUE
      BY <2>3 DEF Completions
    <3>2. QED
      BY <1>3, <2>1, <2>3, <3>1
  <2>4. QED
    BY <2>2, <2>3
<1>7. QED
  BY <1>1, <1>2, <1>3, <1>4, <1>5, <1>6

-----------------------------------------------------------------------------

(* The sever loop closes the states that are alive and nothing else.       *)
LEMMA SeverEffect ==
  ASSUME TypeOK, Sever, NEW s \in States
  PROVE  /\ obj'[s].fd = obj[s].fd
         /\ obj'[s].borrowed = obj[s].borrowed
         /\ Live(s) => obj'[s].open = FALSE
         /\ ~Live(s) => obj'[s] = obj[s]
<1>1. obj \in [States -> Fields]
  BY DEF TypeOK, Fields
<1>2. obj'[s] = IF Live(s) THEN [obj[s] EXCEPT !.watch = {}, !.open = FALSE]
                          ELSE obj[s]
  BY DEF Sever
<1>3. obj[s] \in Fields
  BY <1>1
<1>4. CASE Live(s)
  BY <1>2, <1>3, <1>4 DEF Fields
<1>5. CASE ~Live(s)
  BY <1>2, <1>5
<1>6. QED
  BY <1>4, <1>5

(* Whether socket_cb is handed a pointer or looks the number up, it finds  *)
(* the state sockets_ has.                                                 *)
LEMMA KnownState ==
  ASSUME PointersFollow, NEW fd \in Fds
  PROVE  /\ Known(fd) = sockets[fd]
         /\ socketp[fd] # None => socketp[fd] = sockets[fd]
BY DEF Known, PointersFollow

-----------------------------------------------------------------------------
(* Types *)

(* Every step keeps the variables within their types. *)
LEMMA TypeStep == TypeOK /\ [Next]_vars => TypeOK'
<1> SUFFICES ASSUME TypeOK, [Next]_vars PROVE TypeOK'
  OBVIOUS
<1> USE DEF TypeOK, objects, told, pending, history, Origins, Fields, Completions
<1>1. ASSUME NEW fd \in Fds, NEW st \in States, OpenSocket(fd, st)
      PROVE  TypeOK'
  BY <1>1 DEF OpenSocket, NewState
<1>2. ASSUME NEW fd \in Fds, NEW origin \in {"curls", "hooks"},
             CreateByOther(fd, origin)
      PROVE  TypeOK'
  BY <1>2 DEF CreateByOther
<1>3. ASSUME NEW fd \in Fds, NEW what \in SUBSET Flags, Watch(fd, what)
      PROVE  TypeOK'
  <2>1. CASE WatchKnown(fd, what)
    <3>1. Known(fd) \in States
      BY <2>1 DEF WatchKnown, Known
    <3>2. [obj[Known(fd)] EXCEPT !.watch = what] \in Fields
      BY <3>1
    <3>3. /\ obj' \in [States -> Fields] /\ waits' \subseteq States \X Flags
          /\ doubled' \subseteq States \X Flags
      BY <2>1, <3>1, <3>2, ArmEffect DEF WatchKnown
    <3>4. socketp' \in [Fds -> States \union {None}] /\ deserted' \subseteq States
      BY <2>1, <3>1 DEF WatchKnown, Arm
    <3>5. QED
      BY <1>3, <2>1, <3>3, <3>4 DEF Watch, WatchKnown
  <2>2. ASSUME NEW st \in States, WatchBorrowed(fd, what, st)
        PROVE  TypeOK'
    BY <1>3, <2>2 DEF Watch, WatchBorrowed, NewState, Arm, Missing
  <2>3. CASE WatchFails(fd)
    BY <1>3, <2>3 DEF Watch, WatchFails
  <2>4. QED
    BY <1>3, <2>1, <2>2, <2>3 DEF Watch
<1>4. ASSUME NEW fd \in Fds, Remove(fd)
      PROVE  TypeOK'
  <2>1. CASE socketp[fd] = None
    BY <1>4, <2>1 DEF Remove
  <2>2. CASE socketp[fd] # None /\ ~obj[socketp[fd]].borrowed
    BY <1>4, <2>2 DEF Remove, RemoveState
  <2>3. CASE socketp[fd] # None /\ obj[socketp[fd]].borrowed
    <3>1. RemoveBorrowed(fd, socketp[fd])
      BY <1>4, <2>3 DEF Remove, RemoveState
    <3>2. waits' \subseteq States \X Flags /\ queue' \subseteq Completions
      BY <3>1, AbortEffect DEF RemoveBorrowed
    <3>3. QED
      BY <1>4, <2>3, <3>1, <3>2 DEF Remove, RemoveBorrowed, Unused
  <2>4. QED
    BY <2>1, <2>2, <2>3
<1>5. ASSUME NEW fd \in Fds, CloseSocket(fd)
      PROVE  TypeOK'
  <2>1. os' \in [Fds -> Origins \union {"others", None}] /\ ready' \subseteq Fds \X Flags
    BY <1>5 DEF CloseSocket, Free
  <2>2. CASE sockets[fd] = None
    BY <1>5, <2>1, <2>2 DEF CloseSocket
  <2>3. CASE sockets[fd] # None
    <3>1. ForgetState(fd, sockets[fd])
      BY <1>5, <2>3 DEF CloseSocket
    <3>2. waits' \subseteq States \X Flags /\ queue' \subseteq Completions
      BY <3>1, AbortEffect DEF ForgetState
    <3>3. QED
      BY <1>5, <2>1, <2>3, <3>1, <3>2 DEF CloseSocket, ForgetState, Unused
  <2>4. QED
    BY <2>2, <2>3
<1>6. ASSUME NEW fd \in Fds, CloseOwn(fd)
      PROVE  TypeOK'
  BY <1>6 DEF CloseOwn, Free
<1>7. ASSUME NEW fd \in Fds, NEW flag \in Flags, BecomeReady(fd, flag)
      PROVE  TypeOK'
  BY <1>7 DEF BecomeReady
<1>8. ASSUME NEW fd \in Fds, OthersOpen(fd) \/ OthersClose(fd)
      PROVE  TypeOK'
  BY <1>8 DEF OthersOpen, OthersClose
<1>9. ASSUME NEW st \in States, NEW flag \in Flags, Complete(st, flag)
      PROVE  TypeOK'
  <2>1. [st |-> st, flag |-> flag, aborted |-> FALSE] \in Completions
    BY Zenon
  <2>2. queue' \subseteq Completions
    BY <1>9, <2>1 DEF Complete
  <2>3. QED
    BY <1>9, <2>2 DEF Complete
<1>10. ASSUME NEW c \in queue, RunCompletion(c)
       PROVE  TypeOK'
  BY <1>10 DEF RunCompletion, ArmedAfter
<1>11. CASE FinishEvent
  BY <1>11 DEF FinishEvent, Rearm, Arm, Missing
<1>12. CASE EventThrows
  BY <1>12 DEF EventThrows
<1>13. CASE Sever
  <2>1. waits' \subseteq States \X Flags /\ queue' \subseteq Completions
    BY <1>13, AbortEffect DEF Sever
  <2>2. os' \in [Fds -> Origins \union {"others", None}]
    BY <1>13 DEF Sever
  <2>3. obj' \in [States -> Fields]
    BY <1>13 DEF Sever
  <2>4. QED
    BY <1>13, <2>1, <2>2, <2>3 DEF Sever
<1>14. CASE Die
  BY <1>14 DEF Die
<1>15. CASE UNCHANGED vars
  BY <1>15 DEF vars
<1>16. QED
  BY <1>1, <1>2, <1>3, <1>4, <1>5, <1>6, <1>7, <1>8, <1>9, <1>10, <1>11,
     <1>12, <1>13, <1>14, <1>15 DEF Next

-----------------------------------------------------------------------------
(* Descriptors and their states *)

DescriptorInv ==
  /\ PointersFollow
  /\ OneOwner
  /\ OwnersFit
  /\ OpenIsOwned
  /\ ConnectionsFit
  /\ HeldInv

(* Every step keeps descriptors and states together. *)
LEMMA DescriptorStep ==
  TypeOK /\ DescriptorInv /\ [Next]_vars => DescriptorInv'
<1> SUFFICES ASSUME TypeOK, DescriptorInv, [Next]_vars PROVE DescriptorInv'
  OBVIOUS
<1> USE StatesAssumption, OriginsAssumption
    DEF TypeOK, objects, told, pending, history, Origins, DescriptorInv, PointersFollow,
        OneOwner, OwnersFit, StateFits, OpenIsOwned, ConnectionsFit, HeldInv
<1>1. ASSUME NEW fd \in Fds, NEW st \in States, OpenSocket(fd, st)
      PROVE  DescriptorInv'
  BY <1>1 DEF OpenSocket, NewState, Fresh, Live
<1>2. ASSUME NEW fd \in Fds, NEW origin \in {"curls", "hooks"},
             CreateByOther(fd, origin)
      PROVE  DescriptorInv'
  BY <1>2 DEF CreateByOther
<1>3. ASSUME NEW fd \in Fds, NEW what \in SUBSET Flags, Watch(fd, what)
      PROVE  DescriptorInv'
  <2>1. CASE WatchKnown(fd, what)
    <3> DEFINE st == Known(fd)
               o  == [obj[st] EXCEPT !.watch = what]
    <3>1. st = sockets[fd] /\ st \in States
      BY <2>1, KnownState DEF WatchKnown
    <3>2. /\ o \in Fields /\ o.fd = obj[st].fd
          /\ o.borrowed = obj[st].borrowed /\ o.open = obj[st].open
      BY <3>1 DEF Fields
    <3>3. \A s \in States : /\ obj'[s].fd = obj[s].fd
                            /\ obj'[s].borrowed = obj[s].borrowed
                            /\ obj'[s].open = obj[s].open
      BY <2>1, <3>1, <3>2, ArmKeeps DEF WatchKnown
    <3>4. QED
      BY <1>3, <2>1, <3>1, <3>3 DEF Watch, WatchKnown
  <2>2. ASSUME NEW st \in States, WatchBorrowed(fd, what, st)
        PROVE  DescriptorInv'
    <3>1. obj'[st].fd = fd /\ obj'[st].borrowed = TRUE /\ obj'[st].open = TRUE
      BY <2>2, BorrowEffect
    <3>2. \A s \in States \ {st} : obj'[s] = obj[s]
      BY <2>2, BorrowEffect
    <3>3. sockets[fd] = None /\ \A g \in Fds : sockets[g] # st
      BY <2>2, KnownState DEF WatchBorrowed, Fresh, Live
    <3>4. QED
      BY <1>3, <2>2, <3>1, <3>2, <3>3 DEF Watch, WatchBorrowed, InCurl
  <2>3. CASE WatchFails(fd)
    BY <1>3, <2>3, KnownState DEF Watch, WatchFails
  <2>4. QED
    BY <1>3, <2>1, <2>2, <2>3 DEF Watch
<1>4. ASSUME NEW fd \in Fds, Remove(fd)
      PROVE  DescriptorInv'
  <2>1. CASE socketp[fd] = None
    BY <1>4, <2>1 DEF Remove
  <2>2. CASE socketp[fd] # None /\ ~obj[socketp[fd]].borrowed
    BY <1>4, <2>2 DEF Remove, RemoveState
  <2>3. CASE socketp[fd] # None /\ obj[socketp[fd]].borrowed
    <3>1. RemoveBorrowed(fd, socketp[fd])
      BY <1>4, <2>3 DEF Remove, RemoveState
    <3>2. socketp[fd] = sockets[fd]
      BY <2>3, KnownState
    <3>3. QED
      BY <1>4, <2>3, <3>1, <3>2 DEF Remove, RemoveBorrowed, Unused
  <2>4. QED
    BY <2>1, <2>2, <2>3
<1>5. ASSUME NEW fd \in Fds, CloseSocket(fd)
      PROVE  DescriptorInv'
  <2>1. CASE sockets[fd] = None
    BY <1>5, <2>1 DEF CloseSocket, Free
  <2>2. CASE sockets[fd] # None
    <3>1. OpenIsOwned'
      <4> SUFFICES ASSUME NEW s \in States, obj'[s].open
                   PROVE  \E g \in Fds : sockets'[g] = s
        OBVIOUS
      <4>1. s # sockets[fd] /\ obj'[s] = obj[s]
        BY <1>5, <2>2 DEF CloseSocket, ForgetState, Unused
      <4>2. PICK g \in Fds : sockets[g] = s
        BY <4>1
      <4>3. sockets'[g] = s
        BY <1>5, <2>2, <4>1, <4>2 DEF CloseSocket, ForgetState
      <4>4. QED
        BY <4>3
    <3>2. PointersFollow' /\ OneOwner' /\ HeldInv'
      BY <1>5, <2>2 DEF CloseSocket, ForgetState
    <3>3. OwnersFit'
      BY <1>5, <2>2 DEF CloseSocket, ForgetState
    <3>4. ConnectionsFit'
      BY <1>5, <2>2 DEF CloseSocket, ForgetState, Free
    <3>5. QED
      BY <3>1, <3>2, <3>3, <3>4
  <2>3. QED
    BY <2>1, <2>2
<1>6. ASSUME NEW fd \in Fds, CloseOwn(fd)
      PROVE  DescriptorInv'
  BY <1>6 DEF CloseOwn, Free
<1>7. ASSUME NEW fd \in Fds, NEW flag \in Flags, BecomeReady(fd, flag)
      PROVE  DescriptorInv'
  BY <1>7 DEF BecomeReady
<1>8. ASSUME NEW fd \in Fds, OthersOpen(fd) \/ OthersClose(fd)
      PROVE  DescriptorInv'
  BY <1>8 DEF OthersOpen, OthersClose
<1>9. ASSUME NEW st \in States, NEW flag \in Flags, Complete(st, flag)
      PROVE  DescriptorInv'
  BY <1>9 DEF Complete
<1>10. ASSUME NEW c \in queue, RunCompletion(c)
       PROVE  DescriptorInv'
  <2>1. \A s \in States : /\ obj'[s].fd = obj[s].fd
                          /\ obj'[s].borrowed = obj[s].borrowed
                          /\ obj'[s].open = obj[s].open
    BY <1>10 DEF RunCompletion
  <2>2. held' # None => phase = "running"
    BY <1>10 DEF RunCompletion, Live
  <2>3. QED
    BY <1>10, <2>1, <2>2 DEF RunCompletion
<1>11. CASE FinishEvent
  <2>1. held \in States /\ obj[held] \in Fields /\ Arm(held, obj[held])
    BY <1>11 DEF FinishEvent, Rearm, Fields
  <2>2. \A s \in States : /\ obj'[s].fd = obj[s].fd
                          /\ obj'[s].borrowed = obj[s].borrowed
                          /\ obj'[s].open = obj[s].open
    BY <2>1, ArmKeeps
  <2>3. QED
    BY <1>11, <2>2 DEF FinishEvent
<1>12. CASE EventThrows
  BY <1>12 DEF EventThrows
<1>13. CASE Sever
  <2>1. \A s \in States : /\ obj'[s].fd = obj[s].fd
                          /\ obj'[s].borrowed = obj[s].borrowed
    BY <1>13, SeverEffect
  <2>2. \A s \in States : Live(s) => obj'[s].open = FALSE
    BY <1>13, SeverEffect
  <2>3. \A fd \in Fds : sockets[fd] # None => ~obj'[sockets[fd]].open
    BY <2>2 DEF Live
  <2>4. \A fd \in Fds : conn[fd] \in {"curls", "hooks"} => os'[fd] = os[fd]
    BY <1>13 DEF Sever
  <2>5. phase' = "severed"
        /\ UNCHANGED <<sockets, held, conn, hash, socketp>>
    BY <1>13 DEF Sever
  <2>6. PointersFollow' /\ OneOwner'
    BY <2>5
  <2>. HeldInv'
    BY <1>13, <2>5 DEF Sever
  <2>7. ConnectionsFit'
    BY <2>4, <2>5
  <2>8. OwnersFit'
    BY <2>1, <2>3, <2>5
  <2>9. OpenIsOwned'
    <3> SUFFICES ASSUME NEW s \in States, obj'[s].open
                 PROVE  \E fd \in Fds : sockets'[fd] = s
      OBVIOUS
    <3>1. ~Live(s)
      BY <2>2
    <3>2. obj'[s] = obj[s]
      BY <1>13, <3>1, SeverEffect
    <3>3. QED
      BY <2>5, <3>2
  <2>10. QED
    BY <2>6, <2>7, <2>8, <2>9
<1>14. CASE Die
  BY <1>14 DEF Die
<1>15. CASE UNCHANGED vars
  BY <1>15 DEF vars
<1>16. QED
  BY <1>1, <1>2, <1>3, <1>4, <1>5, <1>6, <1>7, <1>8, <1>9, <1>10, <1>11,
     <1>12, <1>13, <1>14, <1>15 DEF Next

-----------------------------------------------------------------------------
(* Waits and their completions *)

WaitInv == ArmedIsExact /\ OneWaitPerFlag /\ WatchedIsArmed

(* The way ArmedIsExact and OneWaitPerFlag are used: what is armed in an   *)
(* open state, and how it is on its way.                                   *)
LEMMA WaitFacts ==
  ASSUME TypeOK, WaitInv, NEW s \in States, NEW f \in Flags
  PROVE  /\ obj[s].open => (f \in obj[s].armed <=> OnItsWay(s, f))
         /\ <<s, f>> \in waits => \A c \in queue : ~(c.st = s /\ c.flag = f)
BY DEF WaitInv, ArmedIsExact, OneWaitPerFlag

(* An open state has no aborted completion: it was never closed, and its   *)
(* memory is not that of one whose completions are still around.           *)
LEMMA NoneAborted ==
  ASSUME WaitInv, NEW s \in States, obj[s].open
  PROVE  \A c \in queue : c.st = s => ~c.aborted
BY DEF WaitInv, ArmedIsExact

(* A completion is its fields. *)
LEMMA CompletionFields ==
  ASSUME TypeOK, NEW c \in queue
  PROVE  /\ c.st \in States /\ c.flag \in Flags /\ c.aborted \in BOOLEAN
         /\ c = [st |-> c.st, flag |-> c.flag, aborted |-> c.aborted]
BY DEF TypeOK

(* arm() adds a wait only where none is, pending or completed. *)
LEMMA ArmKeepsWaits ==
  ASSUME TypeOK, WaitInv,
         NEW st \in States, NEW o \in Fields, Arm(st, o),
         o.open = obj[st].open, o.armed = obj[st].armed,
         queue' = queue,
         \A s \in States : s \notin {held'} \union deserted' =>
                            s = st \/ s \notin {held} \union deserted
  PROVE  WaitInv'
<1>1. /\ \A s \in States \ {st} : obj'[s] = obj[s]
      /\ obj'[st].watch = o.watch
      /\ obj'[st].open = o.open
      /\ o.open => obj'[st].armed = o.armed \union o.watch
  BY ArmEffect
<1>2. \A s \in States, f \in Flags :
        <<s, f>> \in waits' <=>
          <<s, f>> \in waits \/ (s = st /\ o.open /\ f \in o.watch \ o.armed)
  BY ArmEffect
<1>3. ArmedIsExact'
  <2> SUFFICES ASSUME NEW s \in States, obj'[s].open
               PROVE  /\ \A f \in Flags : f \in obj'[s].armed <=> OnItsWay(s, f)'
                      /\ \A c \in queue' : c.st = s => ~c.aborted
    BY DEF ArmedIsExact
  <2>1. obj[s].open
    BY <1>1
  <2>2. \A c \in queue' : c.st = s => ~c.aborted
    BY <2>1, NoneAborted
  <2>3. ASSUME NEW f \in Flags
        PROVE  f \in obj'[s].armed <=> OnItsWay(s, f)'
    <3>1. f \in obj[s].armed <=> OnItsWay(s, f)
      BY <2>1, WaitFacts
    <3>2. CASE s = st
      <4>1. f \in obj'[s].armed <=> f \in obj[s].armed \/ f \in o.watch
        BY <1>1, <2>1, <3>2
      <4>2. <<s, f>> \in waits' <=>
              <<s, f>> \in waits \/ (f \in o.watch /\ f \notin obj[s].armed)
        BY <1>2, <2>1, <3>2
      <4>3. QED
        BY <3>1, <4>1, <4>2 DEF OnItsWay
    <3>3. CASE s # st
      <4>1. <<s, f>> \in waits' <=> <<s, f>> \in waits
        BY <1>2, <3>3
      <4>2. QED
        BY <1>1, <3>1, <3>3, <4>1 DEF OnItsWay
    <3>4. QED
      BY <3>2, <3>3
  <2>4. QED
    BY <2>2, <2>3
<1>D. doubled' = doubled
  <2>1. ASSUME NEW f \in o.watch \ o.armed, o.open
        PROVE  <<st, f>> \notin waits
    <3>1. f \in Flags /\ obj[st].open /\ f \notin obj[st].armed
      BY <2>1 DEF Fields
    <3>2. QED
      BY <3>1, WaitFacts DEF OnItsWay
  <2>2. QED
    BY <2>1, ArmEffect
<1>4. OneWaitPerFlag'
  <2> SUFFICES ASSUME NEW s \in States, NEW f \in Flags, <<s, f>> \in waits',
                      NEW c \in queue, c.st = s, c.flag = f
               PROVE  FALSE
    BY <1>D DEF OneWaitPerFlag, WaitInv
  <2>1. <<s, f>> \notin waits
    BY WaitFacts
  <2>2. s = st /\ obj[s].open /\ f \notin obj[s].armed
    BY <1>2, <2>1
  <2>3. ~c.aborted
    BY <2>2, NoneAborted
  <2>4. c = [st |-> s, flag |-> f, aborted |-> FALSE]
    BY <2>3, CompletionFields
  <2>5. QED
    BY <2>2, <2>4, WaitFacts DEF OnItsWay
<1>5. WatchedIsArmed'
  <2> SUFFICES ASSUME NEW s \in States, s \notin {held'} \union deserted',
                      obj'[s].open
               PROVE  obj'[s].watch \subseteq obj'[s].armed
    BY DEF WatchedIsArmed
  <2>1. CASE s = st
    BY <1>1, <2>1 DEF Fields
  <2>2. CASE s # st
    BY <1>1, <2>2 DEF WaitInv, WatchedIsArmed
  <2>3. QED
    BY <2>1, <2>2
<1>6. QED
  BY <1>3, <1>4, <1>5 DEF WaitInv

(* Closing states leaves nothing to say about them, and the others alone.  *)
LEMMA AbortKeepsWaits ==
  ASSUME TypeOK, WaitInv, NEW set \in SUBSET States, AbortWaits(set),
         \A s \in set : ~obj'[s].open,
         \A s \in States \ set : obj'[s] = obj[s],
         held' = held, doubled' = doubled,
         \A s \in States \ set : s \in deserted => s \in deserted'
  PROVE  WaitInv'
<1>1. /\ queue' \subseteq Completions
      /\ \A s \in States, f \in Flags :
           <<s, f>> \in waits' <=> <<s, f>> \in waits /\ s \notin set
      /\ \A c \in Completions :
           c \in queue' <=>
             \/ c \in queue
             \/ c.aborted /\ c.st \in set /\ <<c.st, c.flag>> \in waits
  BY AbortEffect
<1>2. ArmedIsExact'
  <2> SUFFICES ASSUME NEW s \in States, obj'[s].open
               PROVE  /\ \A f \in Flags : f \in obj'[s].armed <=> OnItsWay(s, f)'
                      /\ \A c \in queue' : c.st = s => ~c.aborted
    BY DEF ArmedIsExact
  <2>1. s \notin set /\ obj'[s] = obj[s]
    OBVIOUS
  <2>2. \A f \in Flags : OnItsWay(s, f)' <=> OnItsWay(s, f)
    BY <1>1, <2>1 DEF OnItsWay, Completions
  <2>3. \A c \in queue' : c.st = s => c \in queue
    BY <1>1, <2>1
  <2>4. \A f \in Flags : f \in obj[s].armed <=> OnItsWay(s, f)
    BY <2>1, WaitFacts
  <2>5. \A c \in queue : c.st = s => ~c.aborted
    BY <2>1, NoneAborted
  <2>6. QED
    BY <2>1, <2>2, <2>3, <2>4, <2>5
<1>3. OneWaitPerFlag'
  <2> SUFFICES ASSUME NEW s \in States, NEW f \in Flags, <<s, f>> \in waits',
                      NEW c \in queue', c.st = s, c.flag = f
               PROVE  FALSE
    BY DEF OneWaitPerFlag, WaitInv
  <2>1. <<s, f>> \in waits /\ s \notin set
    BY <1>1
  <2>2. c \in queue
    BY <1>1, <2>1
  <2>3. QED
    BY <2>1, <2>2, WaitFacts
<1>4. WatchedIsArmed'
  BY DEF WaitInv, WatchedIsArmed
<1>5. QED
  BY <1>2, <1>3, <1>4 DEF WaitInv

(* What takes no part in waiting changes nothing. *)
LEMMA OtherStepsKeepWaits ==
  ASSUME TypeOK, WaitInv, waits' = waits, queue' = queue, doubled' = doubled,
         \A s \in States : /\ obj'[s].open => obj[s].open
                           /\ obj'[s].armed = obj[s].armed
                           /\ obj'[s].watch \subseteq obj[s].watch,
         \A s \in States : s \notin {held'} \union deserted' =>
           \/ s \notin {held} \union deserted
           \/ obj'[s].open => obj'[s].watch \subseteq obj'[s].armed
  PROVE  WaitInv'
BY DEF WaitInv, ArmedIsExact, OneWaitPerFlag, WatchedIsArmed, OnItsWay

(* Every step keeps waits and armed flags together. *)
LEMMA WaitStep ==
  TypeOK /\ DescriptorInv /\ WaitInv /\ [Next]_vars => WaitInv'
<1> SUFFICES ASSUME TypeOK, DescriptorInv, WaitInv, [Next]_vars PROVE WaitInv'
  OBVIOUS
<1> USE DEF objects, told, pending, history
<1>T. /\ sockets \in [Fds -> States \union {None}]
      /\ obj \in [States -> Fields] /\ held \in States \union {None}
  BY DEF TypeOK, Fields
<1>P. PointersFollow
  BY DEF DescriptorInv
<1>1. ASSUME NEW fd \in Fds, NEW st \in States, OpenSocket(fd, st)
      PROVE  WaitInv'
  <2>1. /\ obj'[st] = NewState(fd, FALSE)
        /\ \A s \in States \ {st} : obj'[s] = obj[s]
        /\ UNCHANGED <<held, deserted, doubled, waits, queue>>
    BY <1>T, <1>1 DEF OpenSocket
  <2>2. /\ \A f \in Flags : <<st, f>> \notin waits
        /\ \A c \in queue : c.st # st
    BY <1>1 DEF OpenSocket, Fresh
  <2>3. \A f \in Flags : ~OnItsWay(st, f)
    BY <2>2 DEF OnItsWay
  <2>4. obj'[st].armed = {} /\ obj'[st].watch = {}
    BY <2>1 DEF NewState
  <2>5. ArmedIsExact'
    BY <2>1, <2>2, <2>3, <2>4 DEF WaitInv, ArmedIsExact, OnItsWay
  <2>6. OneWaitPerFlag'
    BY <2>1 DEF WaitInv, OneWaitPerFlag
  <2>7. WatchedIsArmed'
    BY <2>1, <2>4 DEF WaitInv, WatchedIsArmed
  <2>8. QED
    BY <2>5, <2>6, <2>7 DEF WaitInv
<1>2. ASSUME NEW fd \in Fds, NEW origin, CreateByOther(fd, origin)
      PROVE  WaitInv'
  BY <1>2, OtherStepsKeepWaits DEF CreateByOther
<1>3. ASSUME NEW fd \in Fds, NEW what \in SUBSET Flags, Watch(fd, what)
      PROVE  WaitInv'
  <2>1. CASE WatchKnown(fd, what)
    <3> DEFINE st == Known(fd)
               o  == [obj[st] EXCEPT !.watch = what]
    <3>1. st \in States
      BY <1>P, <1>T, <2>1, KnownState DEF WatchKnown
    <3>2. o \in Fields /\ o.open = obj[st].open /\ o.armed = obj[st].armed
      BY <1>T, <3>1 DEF Fields
    <3>3. Arm(st, o) /\ queue' = queue /\ held' = held /\ deserted' = deserted \ {st}
      BY <1>3, <2>1 DEF Watch, WatchKnown, Arm
    <3> HIDE DEF o, st
    <3>4. QED
      BY <3>1, <3>2, <3>3, ArmKeepsWaits
  <2>2. ASSUME NEW st \in States, WatchBorrowed(fd, what, st)
        PROVE  WaitInv'
    <3>1. /\ obj'[st].watch = what /\ obj'[st].armed = what
          /\ \A s \in States \ {st} : obj'[s] = obj[s]
          /\ doubled' = doubled
          /\ \A s \in States, f \in Flags :
               <<s, f>> \in waits' <=> <<s, f>> \in waits \/ (s = st /\ f \in what)
      BY <2>2, BorrowEffect
    <3>2. UNCHANGED <<held, queue>> /\ deserted' = deserted \ {st}
      BY <1>3, <2>2 DEF Watch, WatchBorrowed, Arm
    <3>3. /\ \A f \in Flags : <<st, f>> \notin waits
          /\ \A c \in queue : c.st # st
      BY <2>2 DEF WatchBorrowed, Fresh
    <3>4. ASSUME NEW s \in States, s # st, NEW f \in Flags
          PROVE  OnItsWay(s, f)' <=> OnItsWay(s, f)
      BY <3>1, <3>2, <3>4 DEF OnItsWay
    <3>5. \A f \in Flags : OnItsWay(st, f)' <=> f \in what
      BY <3>1, <3>2, <3>3 DEF OnItsWay
    <3>6. ArmedIsExact'
      BY <3>1, <3>2, <3>3, <3>4, <3>5 DEF WaitInv, ArmedIsExact
    <3>7. OneWaitPerFlag'
      BY <3>1, <3>2, <3>3 DEF WaitInv, OneWaitPerFlag
    <3>8. WatchedIsArmed'
      BY <3>1, <3>2 DEF WaitInv, WatchedIsArmed
    <3>9. QED
      BY <3>6, <3>7, <3>8 DEF WaitInv
  <2>3. CASE WatchFails(fd)
    BY <1>3, <2>3, OtherStepsKeepWaits DEF Watch, WatchFails
  <2>4. QED
    BY <1>3, <2>1, <2>2, <2>3 DEF Watch
<1>4. ASSUME NEW fd \in Fds, Remove(fd)
      PROVE  WaitInv'
  <2> DEFINE st == sockets[fd]
  <2>1. CASE socketp[fd] = None
    BY <1>4, <2>1, OtherStepsKeepWaits DEF Remove
  <2>2. CASE socketp[fd] # None /\ ~obj[socketp[fd]].borrowed
    <3>1. st = socketp[fd] /\ st \in States
      BY <1>P, <1>T, <2>2, KnownState
    <3>2. obj' = [obj EXCEPT ![st].watch = {}]
      BY <1>4, <2>2, <3>1 DEF Remove, RemoveState
    <3>3. UNCHANGED <<waits, queue, held, deserted, doubled>>
      BY <1>4, <2>2, <3>1 DEF Remove, RemoveState
    <3>4. \A s \in States : /\ obj'[s].open = obj[s].open
                            /\ obj'[s].armed = obj[s].armed
                            /\ obj'[s].watch \subseteq obj[s].watch
      BY <1>T, <3>1, <3>2 DEF Fields
    <3>5. QED
      BY <3>3, <3>4, OtherStepsKeepWaits
  <2>3. CASE socketp[fd] # None /\ obj[socketp[fd]].borrowed
    <3>1. st = socketp[fd] /\ st \in States
      BY <1>P, <1>T, <2>3, KnownState
    <3>2. RemoveBorrowed(fd, st)
      BY <1>4, <2>3, <3>1 DEF Remove, RemoveState
    <3>3. /\ ~obj'[st].open /\ \A s \in States \ {st} : obj'[s] = obj[s]
          /\ AbortWaits({st}) /\ deserted' = deserted \ {st}
          /\ held' = held /\ doubled' = doubled
      BY <1>T, <1>4, <3>1, <3>2 DEF Remove, RemoveBorrowed, Unused
    <3>4. QED
      BY <3>1, <3>3, AbortKeepsWaits
  <2>4. QED
    BY <2>1, <2>2, <2>3
<1>5. ASSUME NEW fd \in Fds, CloseSocket(fd)
      PROVE  WaitInv'
  <2> DEFINE st == sockets[fd]
  <2>1. CASE st = None
    BY <1>5, <2>1, OtherStepsKeepWaits DEF CloseSocket
  <2>2. CASE st # None
    <3>1. st \in States /\ ForgetState(fd, st)
      BY <1>T, <1>5, <2>2 DEF CloseSocket
    <3>2. /\ ~obj'[st].open /\ \A s \in States \ {st} : obj'[s] = obj[s]
          /\ AbortWaits({st}) /\ deserted' = deserted \ {st}
          /\ held' = held /\ doubled' = doubled
      BY <1>T, <1>5, <3>1 DEF CloseSocket, ForgetState, Unused
    <3>3. QED
      BY <3>1, <3>2, AbortKeepsWaits
  <2>3. QED
    BY <2>1, <2>2
<1>6. ASSUME NEW fd \in Fds, CloseOwn(fd)
      PROVE  WaitInv'
  BY <1>6, OtherStepsKeepWaits DEF CloseOwn
<1>7. ASSUME NEW fd \in Fds, NEW flag \in Flags, BecomeReady(fd, flag)
      PROVE  WaitInv'
  BY <1>7, OtherStepsKeepWaits DEF BecomeReady
<1>8. ASSUME NEW fd \in Fds, OthersOpen(fd) \/ OthersClose(fd)
      PROVE  WaitInv'
  BY <1>8, OtherStepsKeepWaits DEF OthersOpen, OthersClose
<1>9. ASSUME NEW st \in States, NEW flag \in Flags, Complete(st, flag)
      PROVE  WaitInv'
  <2> DEFINE c == [st |-> st, flag |-> flag, aborted |-> FALSE]
  <2>1. /\ <<st, flag>> \in waits /\ waits' = waits \ {<<st, flag>>}
        /\ queue' = queue \union {c}
        /\ UNCHANGED <<obj, held, deserted, doubled>>
    BY <1>9 DEF Complete
  <2>2. c.st = st /\ c.flag = flag /\ ~c.aborted
    OBVIOUS
  <2>3. \A s \in States, f \in Flags : OnItsWay(s, f)' <=> OnItsWay(s, f)
    BY <2>1 DEF OnItsWay
  <2>4. ArmedIsExact'
    BY <2>1, <2>2, <2>3 DEF WaitInv, ArmedIsExact
  <2>5. OneWaitPerFlag'
    BY <2>1, <2>2 DEF WaitInv, OneWaitPerFlag
  <2>6. WatchedIsArmed'
    BY <2>1 DEF WaitInv, WatchedIsArmed
  <2>7. QED
    BY <2>4, <2>5, <2>6 DEF WaitInv
<1>10. ASSUME NEW c \in queue, RunCompletion(c)
       PROVE  WaitInv'
  <2>1. /\ queue' = queue \ {c} /\ held = None
        /\ UNCHANGED <<waits, deserted, doubled>>
    BY <1>10 DEF RunCompletion
  <2>2. /\ c.st \in States /\ c.flag \in Flags
        /\ c = [st |-> c.st, flag |-> c.flag, aborted |-> c.aborted]
    BY CompletionFields
  <2>3. OneWaitPerFlag'
    BY <2>1 DEF WaitInv, OneWaitPerFlag
  <2>4. \A s \in States \ {c.st} : obj'[s] = obj[s]
    BY <1>T, <1>10, <2>2 DEF RunCompletion
  <2>5. obj'[c.st].open = obj[c.st].open /\ obj'[c.st].watch = obj[c.st].watch
    BY <1>T, <1>10, <2>2 DEF RunCompletion, Fields
  <2>6. \A s \in States \ {c.st}, f \in Flags : OnItsWay(s, f)' <=> OnItsWay(s, f)
    BY <2>1, <2>2 DEF OnItsWay
  <2>7. CASE obj[c.st].open
    <3>1. Live(c.st) /\ ~c.aborted
      BY <2>2, <2>7, NoneAborted DEF Live, DescriptorInv, OpenIsOwned
    <3>2. held' = c.st /\ obj'[c.st].armed = obj[c.st].armed \ {c.flag}
      BY <1>T, <1>10, <2>2, <3>1 DEF RunCompletion, ArmedAfter, Fields
    <3>3. WatchedIsArmed'
      BY <2>1, <2>4, <3>2, StatesAssumption DEF WaitInv, WatchedIsArmed
    <3>4. c = [st |-> c.st, flag |-> c.flag, aborted |-> FALSE]
      BY <2>2, <3>1
    <3>5. \A f \in Flags :
            OnItsWay(c.st, f)' <=> OnItsWay(c.st, f) /\ f # c.flag
      BY <2>1, <2>2, <3>4 DEF OnItsWay, WaitInv, OneWaitPerFlag
    <3>6. ArmedIsExact'
      BY <2>1, <2>2, <2>4, <2>5, <2>6, <3>2, <3>5 DEF WaitInv, ArmedIsExact
    <3>7. QED
      BY <2>3, <3>3, <3>6 DEF WaitInv
  <2>8. CASE ~obj[c.st].open
    <3>1. ArmedIsExact'
      BY <2>1, <2>4, <2>5, <2>6, <2>8 DEF WaitInv, ArmedIsExact
    <3>2. WatchedIsArmed'
      BY <2>1, <2>4, <2>5, <2>8, StatesAssumption DEF WaitInv, WatchedIsArmed
    <3>3. QED
      BY <2>3, <3>1, <3>2 DEF WaitInv
  <2>9. QED
    BY <2>7, <2>8
<1>11. CASE FinishEvent
  <2>1. /\ held \in States /\ Arm(held, obj[held])
        /\ held' = None /\ queue' = queue /\ deserted' = deserted \ {held}
    BY <1>T, <1>11 DEF FinishEvent, Rearm, Arm
  <2>2. obj[held] \in Fields
    BY <1>T, <2>1
  <2>3. QED
    BY <2>1, <2>2, ArmKeepsWaits
<1>12. CASE EventThrows
  <2>1. Missing(obj[held]) = {} =>
          (obj[held].open => obj[held].watch \subseteq obj[held].armed)
    BY DEF Missing
  <2>2. /\ UNCHANGED <<obj, waits, queue, doubled>> /\ held' = None
        /\ deserted' = IF Missing(obj[held]) = {} THEN deserted
                                                 ELSE deserted \union {held}
    BY <1>12 DEF EventThrows
  <2>3. QED
    BY <2>1, <2>2, OtherStepsKeepWaits
<1>13. CASE Sever
  <2> DEFINE sts == {st \in States : Live(st)}
  <2>1. AbortWaits(sts) /\ UNCHANGED <<held, deserted, doubled>>
    BY <1>13 DEF Sever
  <2>2. /\ \A s \in sts : ~obj'[s].open
        /\ \A s \in States \ sts : obj'[s] = obj[s]
    BY <1>13, SeverEffect
  <2>3. sts \in SUBSET States
    OBVIOUS
  <2> HIDE DEF sts
  <2>4. QED
    BY <2>1, <2>2, <2>3, AbortKeepsWaits
<1>14. CASE Die
  BY <1>14, OtherStepsKeepWaits DEF Die
<1>15. CASE UNCHANGED vars
  BY <1>15, OtherStepsKeepWaits DEF vars
<1>16. QED
  BY <1>1, <1>2, <1>3, <1>4, <1>5, <1>6, <1>7, <1>8, <1>9, <1>10, <1>11,
     <1>12, <1>13, <1>14, <1>15 DEF Next

-----------------------------------------------------------------------------
(* The theorems *)

(* The two halves, and the types, are the invariant. *)
LEMMA InvIsParts == IInv <=> TypeOK /\ DescriptorInv /\ WaitInv
BY DEF IInv, DescriptorInv, WaitInv

(* It holds when the client has no socket. *)
LEMMA InitInv == Init => IInv
<1> SUFFICES ASSUME Init PROVE IInv
  OBVIOUS
<1>1. TypeOK
  BY DEF Init, TypeOK, Unused
<1>2. DescriptorInv
  BY <1>1, OriginsAssumption DEF Init, Unused, Origins, DescriptorInv,
       PointersFollow, OneOwner, OwnersFit, OpenIsOwned, ConnectionsFit, HeldInv
<1>3. WaitInv
  BY <1>1 DEF Init, Unused, WaitInv, ArmedIsExact, OneWaitPerFlag, WatchedIsArmed
<1>4. QED
  BY <1>1, <1>2, <1>3, InvIsParts

(* It is kept by every step. *)
LEMMA NextInv == IInv /\ [Next]_vars => IInv'
BY InvIsParts, TypeStep, DescriptorStep, WaitStep
   DEF IInv, DescriptorInv, WaitInv

(* In every behaviour of the socket layer IInv holds. *)
THEOREM InvHolds == Spec => []IInv
<1>1. Init => IInv
  BY InitInv
<1>2. IInv /\ [Next]_vars => IInv'
  BY NextInv
<1>3. QED
  BY <1>1, <1>2, PTL DEF Spec

(* Every variable has its type. *)
THEOREM TypeCorrect == Spec => []TypeOK
<1>1. IInv => TypeOK
  BY DEF IInv
<1>2. QED
  BY <1>1, InvHolds, PTL

(* The pointer libcurl hands back to socket_cb is the state sockets_ owns. *)
THEOREM PointersAreOwned == Spec => []PointersDoNotDangle
<1>1. IInv => PointersDoNotDangle
  BY DEF IInv, PointersFollow, PointersDoNotDangle
<1>2. QED
  BY <1>1, InvHolds, PTL

(* A state in sockets_ is of the descriptor curl has under that number. *)
THEOREM EventsAreCurrent == Spec => []EventsAreNotStale
<1>1. IInv => EventsAreNotStale
  BY DEF IInv, OwnersFit, StateFits, EventsAreNotStale
<1>2. QED
  BY <1>1, InvHolds, PTL

(* What curl wants to know of is waited for, and arm() waits for it once,  *)
(* however completions, callbacks, handlers and closes interleave.         *)
THEOREM InterestStaysWatched == Spec => []InterestIsWatched
<1>1. IInv => InterestIsWatched
  <2> SUFFICES ASSUME IInv, phase = "running",
                      NEW fd \in hash, socketp[fd] \in States \ ({held} \union deserted),
                      NEW flag \in obj[socketp[fd]].watch
               PROVE  OnItsWay(socketp[fd], flag)
    BY DEF InterestIsWatched, OnItsWay
  <2> DEFINE st == socketp[fd]
  <2>1. fd \in Fds /\ flag \in Flags
    BY DEF IInv, TypeOK
  <2>2. st = sockets[fd] /\ st # None
    BY <2>1, StatesAssumption DEF IInv, PointersFollow
  <2>3. obj[st].open
    BY <2>1, <2>2 DEF IInv, OwnersFit, StateFits
  <2>4. flag \in obj[st].armed
    BY <2>3 DEF IInv, WatchedIsArmed
  <2>5. QED
    BY <2>1, <2>3, <2>4 DEF IInv, ArmedIsExact
<1>2. QED
  BY <1>1, InvHolds, PTL

(* A state has one wait of each kind at most, pending or completed. *)
THEOREM OneWaitAtMost == Spec => []OneWaitPerFlag
<1>1. IInv => OneWaitPerFlag
  BY DEF IInv
<1>2. QED
  BY <1>1, InvHolds, PTL

(* No step but the program's own closes a descriptor it opened, those of   *)
(* the destructor included.                                                *)
THEOREM OthersKeepTheirs == Spec => OthersAreLeftAlone
<1> DEFINE Spared == \A fd \in Fds :
                       os[fd] = "others" /\ os'[fd] # "others" => OthersClose(fd)
<1>1. IInv /\ [Next]_vars => Spared
  <2> SUFFICES ASSUME IInv, [Next]_vars, NEW fd \in Fds,
                      os[fd] = "others", os'[fd] # "others"
               PROVE  OthersClose(fd)
    OBVIOUS
  <2>1. /\ conn[fd] \in {"curls", "hooks"} => FALSE
        /\ conn[fd] = "ours" => phase # "running"
    BY DEF IInv, ConnectionsFit
  <2>2. None # "others" /\ conn[fd] \in Origins \union {None}
    BY OriginsAssumption DEF IInv, TypeOK
  <2>3. os \in [Fds -> Origins \union {"others", None}]
    BY DEF IInv, TypeOK
  <2> USE DEF objects, told, pending, history
  <2>4. ASSUME NEW g \in Fds, NEW st \in States, OpenSocket(g, st)
        PROVE  OthersClose(fd)
    BY <2>2, <2>3, <2>4 DEF OpenSocket
  <2>5. ASSUME NEW g \in Fds, NEW origin, CreateByOther(g, origin)
        PROVE  OthersClose(fd)
    BY <2>2, <2>3, <2>5 DEF CreateByOther
  <2>6. ASSUME NEW g \in Fds, CloseSocket(g)
        PROVE  OthersClose(fd)
    <3>1. g = fd /\ ClosesNumber(fd)
      BY <2>3, <2>6 DEF CloseSocket, Free
    <3>2. conn[fd] = "ours" /\ phase # "running"
      BY <2>1, <2>6, <3>1 DEF CloseSocket
    <3>3. sockets[fd] # None /\ ~obj[sockets[fd]].borrowed
      BY <3>2 DEF IInv, ConnectionsFit, OwnersFit, StateFits
    <3>4. phase = "severed" /\ ~obj[sockets[fd]].open
      BY <2>6, <3>2, <3>3 DEF CloseSocket, InCurl, IInv, TypeOK, OwnersFit, StateFits
    <3>5. QED
      BY <3>1, <3>3, <3>4 DEF ClosesNumber
  <2>7. ASSUME NEW g \in Fds, CloseOwn(g)
        PROVE  OthersClose(fd)
    BY <2>1, <2>3, <2>7 DEF CloseOwn, Free
  <2>8. ASSUME NEW g \in Fds, OthersOpen(g)
        PROVE  OthersClose(fd)
    BY <2>2, <2>3, <2>8 DEF OthersOpen
  <2>9. ASSUME NEW g \in Fds, OthersClose(g)
        PROVE  OthersClose(fd)
    <3>1. g = fd
      BY <2>3, <2>9 DEF OthersClose
    <3>2. QED
      BY <2>9, <3>1
  <2>10. CASE Sever
    <3>1. sockets[fd] # None /\ ~obj[sockets[fd]].borrowed /\ phase = "running"
      BY <2>3, <2>10 DEF Sever
    <3>2. conn[fd] = "ours"
      BY <3>1 DEF IInv, OwnersFit, StateFits
    <3>3. QED
      BY <2>1, <3>1, <3>2
  <2>11. ASSUME UNCHANGED os
         PROVE  OthersClose(fd)
    BY <2>11
  <2>12. QED
    BY <2>4, <2>5, <2>6, <2>7, <2>8, <2>9, <2>10, <2>11
       DEF Next, vars, Watch, Remove, BecomeReady, Complete, RunCompletion,
           FinishEvent, EventThrows, Die
<1>2. QED
  BY <1>1, InvHolds, PTL DEF Spec, OthersAreLeftAlone

=============================================================================
