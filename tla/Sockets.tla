------------------------------- MODULE Sockets ------------------------------
(***************************************************************************)
(* The socket layer of cofetch::Client (include/cofetch.h): how the        *)
(* descriptors libcurl uses are watched by ASIO.                           *)
(*                                                                         *)
(* libcurl opens a descriptor through open_socket_cb, creates one of its   *)
(* own (the resolver's wake-up pipe) or gets one from a Request::curl hook *)
(* that replaced CURLOPT_OPENSOCKETFUNCTION; it tells its interest to      *)
(* socket_cb and closes through close_socket_cb.  The client keeps one     *)
(* SocketState per descriptor it watches, in sockets_ under the number     *)
(* curl knows; a state watches its own socket, or a dup of a descriptor    *)
(* that is curl's ("borrowed").  The operating system gives the number of  *)
(* a closed descriptor to the next one that is opened, here or on another  *)
(* thread of the program, while waits and completions of the old one are   *)
(* still around: they hold a weak_ptr to its state, and curl a raw pointer.*)
(*                                                                         *)
(* A SocketState object is named by an element of States, reused when      *)
(* nothing refers to the object any more.  The callbacks run inside calls  *)
(* the client makes to curl: between two completions, or while on_event()  *)
(* holds the state whose event it reports (held).                          *)
(*                                                                         *)
(* Definitions named Mut... are plausible bugs, each a changed form of the *)
(* definition it precedes; no part of the specification uses them.         *)
(***************************************************************************)
EXTENDS FiniteSets

CONSTANTS
  Fds,      \* descriptor numbers
  States,   \* SocketState objects
  Flags,    \* what can be waited for: reading and writing
  None

ASSUME FdsAssumption    == IsFiniteSet(Fds) /\ None \notin Fds
ASSUME StatesAssumption == IsFiniteSet(States) /\ None \notin States

(* Whose a descriptor that curl has is. *)
Origins == {"ours", "curls", "hooks"}

ASSUME OriginsAssumption == None \notin Origins \union {"others"}

VARIABLES
  \* the client
  sockets,   \* sockets_: the state of each number, or None
  obj,       \* the fields of each SocketState
  held,      \* the state on_event() keeps alive, or None
  phase,     \* "running", "severed" within ~Client, "gone"
  deserted,  \* history: states that an exception kept on_event() from arming
  doubled,   \* history: waits started while the same one was pending
  \* libcurl
  conn,      \* the descriptors it has, by origin
  hash,      \* the ones it told socket_cb about
  socketp,   \* the pointer curl_multi_assign attached to them
  \* ASIO and the operating system
  os,        \* whose descriptor each number is
  ready,     \* what has become readable or writable
  waits,     \* pending async_waits
  queue      \* completions that wait to run

objects == <<sockets, obj>>
told    == <<hash, socketp>>
history == <<deserted, doubled>>
pending == <<waits, queue>>
vars    == <<objects, held, phase, history, conn, told, os, ready, pending>>

Unused == [fd |-> None, borrowed |-> FALSE, watch |-> {}, armed |-> {},
           open |-> FALSE]

TypeOK ==
  /\ sockets \in [Fds -> States \union {None}]
  /\ obj \in [States -> [fd : Fds \union {None}, borrowed : BOOLEAN,
                         watch : SUBSET Flags, armed : SUBSET Flags,
                         open : BOOLEAN]]
  /\ held \in States \union {None}
  /\ phase \in {"running", "severed", "gone"}
  /\ deserted \subseteq States
  /\ doubled \subseteq States \X Flags
  /\ conn \in [Fds -> Origins \union {None}]
  /\ hash \subseteq Fds
  /\ socketp \in [Fds -> States \union {None}]
  /\ os \in [Fds -> Origins \union {"others", None}]
  /\ ready \subseteq Fds \X Flags
  /\ waits \subseteq States \X Flags
  /\ queue \subseteq [st : States, flag : Flags, aborted : BOOLEAN]

Init ==
  /\ sockets = [fd \in Fds |-> None]
  /\ obj = [st \in States |-> Unused]
  /\ held = None
  /\ phase = "running"
  /\ deserted = {}
  /\ doubled = {}
  /\ conn = [fd \in Fds |-> None]
  /\ hash = {}
  /\ socketp = [fd \in Fds |-> None]
  /\ os = [fd \in Fds |-> None]
  /\ ready = {}
  /\ waits = {}
  /\ queue = {}

-----------------------------------------------------------------------------

(* A weak_ptr can be locked while sockets_ or on_event() owns the state. *)
Live(st) == st = held \/ \E fd \in Fds : sockets[fd] = st

(* The object's memory can serve a new state. *)
Fresh(st) ==
  /\ ~Live(st)
  /\ \A fd \in Fds : socketp[fd] # st
  /\ \A f \in Flags : <<st, f>> \notin waits
  /\ \A c \in queue : c.st # st

MutSwapped(fd, borrowed) ==
  [fd |-> borrowed, borrowed |-> fd, watch |-> {}, armed |-> {}, open |-> TRUE]

NewState(fd, borrowed) ==
  [fd |-> fd, borrowed |-> borrowed, watch |-> {}, armed |-> {}, open |-> TRUE]

(* Closing a state's socket: its pending waits complete with               *)
(* operation_aborted.  The fields of a state that was erased as well are   *)
(* never looked at again; on_event() finds no interest in one it holds.    *)
WaitsOf(set) == {w \in waits : w[1] \in set}

AbortWaits(set) ==
  /\ waits' = waits \ WaitsOf(set)
  /\ queue' = queue \union
       {[st |-> w[1], flag |-> w[2], aborted |-> TRUE] : w \in WaitsOf(set)}

(* arm(), on a state whose fields are o: start the waits that are missing. *)
MutMissing(o) == o.watch

Missing(o) == IF o.open THEN o.watch \ o.armed ELSE {}

Arm(st, o) ==
  /\ obj' = [obj EXCEPT ![st] = [o EXCEPT !.armed = @ \union Missing(o)]]
  /\ waits' = waits \union ({st} \X Missing(o))
  /\ doubled' = doubled \union (waits \intersect ({st} \X Missing(o)))
  /\ deserted' = deserted \ {st}

(* When curl may call back: the client calls curl all the time, until      *)
(* curl_multi_cleanup returns.                                             *)
InCurl == phase # "gone"

-----------------------------------------------------------------------------
(* open_socket_cb, and the descriptors that do not come from it. *)

OpenSocket(fd, st) ==
  /\ phase = "running"
  /\ os[fd] = None
  /\ Fresh(st)
  /\ os' = [os EXCEPT ![fd] = "ours"]
  /\ conn' = [conn EXCEPT ![fd] = "ours"]
  /\ obj' = [obj EXCEPT ![st] = NewState(fd, FALSE)]
  /\ sockets' = [sockets EXCEPT ![fd] = st]
  /\ UNCHANGED <<held, phase, history, told, ready, pending>>

CreateByOther(fd, origin) ==
  /\ phase = "running"
  /\ os[fd] = None
  /\ os' = [os EXCEPT ![fd] = origin]
  /\ conn' = [conn EXCEPT ![fd] = origin]
  /\ UNCHANGED <<objects, held, phase, history, told, ready, pending>>

-----------------------------------------------------------------------------
(* socket_cb: curl's interest in fd is what, not empty. *)

(* The state curl hands back, the one sockets_ has, or None. *)
Known(fd) == IF socketp[fd] # None THEN socketp[fd] ELSE sockets[fd]

WatchKnown(fd, what) ==
  /\ Known(fd) # None
  /\ socketp' = [socketp EXCEPT ![fd] = Known(fd)]
  /\ Arm(Known(fd), [obj[Known(fd)] EXCEPT !.watch = what])
  /\ UNCHANGED sockets

(* borrow(): a new state over a dup of curl's descriptor. *)
WatchBorrowed(fd, what, st) ==
  /\ Known(fd) = None
  /\ Fresh(st)
  /\ sockets' = [sockets EXCEPT ![fd] = st]
  /\ socketp' = [socketp EXCEPT ![fd] = st]
  /\ Arm(st, [NewState(fd, TRUE) EXCEPT !.watch = what])

(* dup or the registration fails: curl's timer has to notice the events. *)
WatchFails(fd) ==
  /\ Known(fd) = None
  /\ UNCHANGED <<objects, socketp, waits, history>>

Watch(fd, what) ==
  /\ InCurl
  /\ conn[fd] # None
  /\ hash' = hash \union {fd}
  /\ \/ WatchKnown(fd, what)
     \/ \E st \in States : WatchBorrowed(fd, what, st)
     \/ WatchFails(fd)
  /\ UNCHANGED <<held, phase, conn, os, ready, queue>>

(* CURL_POLL_REMOVE: a borrowed state goes with it, one of ours stays for  *)
(* the connection in curl's cache.  curl forgets the pointer.              *)
MutRemoveKeepsBorrowed(fd, st) ==
  /\ obj' = [obj EXCEPT ![st].watch = {}]
  /\ UNCHANGED <<sockets, pending, history>>

RemoveBorrowed(fd, st) ==
  /\ obj' = [obj EXCEPT ![st] = Unused]
  /\ AbortWaits({st})
  /\ sockets' = [sockets EXCEPT ![fd] = None]
  /\ deserted' = deserted \ {st}
  /\ UNCHANGED doubled

RemoveState(fd, st) ==
  IF obj[st].borrowed
    THEN RemoveBorrowed(fd, st)
    ELSE /\ obj' = [obj EXCEPT ![st].watch = {}]
         /\ UNCHANGED <<sockets, pending, history>>

Remove(fd) ==
  /\ InCurl
  /\ fd \in hash
  /\ hash' = hash \ {fd}
  /\ socketp' = [socketp EXCEPT ![fd] = None]
  /\ IF socketp[fd] = None
       THEN UNCHANGED <<objects, pending, history>>
       ELSE RemoveState(fd, socketp[fd])
  /\ ready' = ready \ ({fd} \X Flags)
  /\ UNCHANGED <<held, phase, conn, os>>

-----------------------------------------------------------------------------
(* close_socket_cb, after curl removed the descriptor.  What it closes is  *)
(* the number: the socket of a state of ours if that is still open, and    *)
(* the descriptor itself when it is not backed by such a socket.           *)

MutClosesNumber(fd) == TRUE

ClosesNumber(fd) ==
  \/ sockets[fd] = None
  \/ obj[sockets[fd]].borrowed
  \/ obj[sockets[fd]].open

(* What was ready is not of the next descriptor with this number. *)
Free(fd) ==
  /\ os' = [os EXCEPT ![fd] = None]
  /\ ready' = ready \ ({fd} \X Flags)

ForgetState(fd, st) ==
  /\ obj' = [obj EXCEPT ![st] = Unused]
  /\ AbortWaits({st})
  /\ sockets' = [sockets EXCEPT ![fd] = None]
  /\ deserted' = deserted \ {st}
  /\ UNCHANGED doubled

CloseSocket(fd) ==
  /\ InCurl
  /\ conn[fd] \in {"ours", "hooks"}
  /\ fd \notin hash
  /\ conn' = [conn EXCEPT ![fd] = None]
  /\ IF sockets[fd] = None
       THEN UNCHANGED <<objects, pending, history>>
       ELSE ForgetState(fd, sockets[fd])
  /\ IF ClosesNumber(fd) THEN Free(fd) ELSE UNCHANGED <<os, ready>>
  /\ UNCHANGED <<held, phase, told>>

(* curl closes a descriptor of its own without a callback. *)
CloseOwn(fd) ==
  /\ InCurl
  /\ conn[fd] = "curls"
  /\ fd \notin hash
  /\ conn' = [conn EXCEPT ![fd] = None]
  /\ Free(fd)
  /\ UNCHANGED <<objects, held, phase, history, told, pending>>

-----------------------------------------------------------------------------
(* Events *)

(* async_wait is level-triggered. *)
Complete(st, flag) ==
  /\ <<st, flag>> \in waits
  /\ <<obj[st].fd, flag>> \in ready
  /\ waits' = waits \ {<<st, flag>>}
  /\ queue' = queue \union {[st |-> st, flag |-> flag, aborted |-> FALSE]}
  /\ UNCHANGED <<objects, held, phase, history, conn, told, os, ready>>

(* A completion runs: the lambda locks the state, on_event() clears the    *)
(* armed flag and reports the event to curl, which consumes it.            *)
MutArmedAfter(c) == obj[c.st].armed

ArmedAfter(c) == obj[c.st].armed \ {c.flag}

RunCompletion(c) ==
  /\ held = None
  /\ phase # "severed"
  /\ c \in queue
  /\ queue' = queue \ {c}
  /\ IF Live(c.st)
       THEN obj' = [obj EXCEPT ![c.st].armed = ArmedAfter(c)]
       ELSE UNCHANGED obj
  /\ IF Live(c.st) /\ ~c.aborted
       THEN /\ held' = c.st
            /\ ready' = ready \ {<<obj[c.st].fd, c.flag>>}
       ELSE UNCHANGED <<held, ready>>
  /\ UNCHANGED <<sockets, phase, history, conn, told, os, waits>>

(* on_event() is over: arm again what curl still wants. *)
MutRearm(st) == UNCHANGED <<obj, waits, history>>

Rearm(st) == Arm(st, obj[st])

MutFinishErases ==
  /\ held # None
  /\ held' = None
  /\ sockets' = [fd \in Fds |-> IF sockets[fd] = held THEN None ELSE sockets[fd]]
  /\ UNCHANGED <<obj, phase, history, conn, told, os, ready, pending>>

FinishEvent ==
  /\ held # None
  /\ held' = None
  /\ Rearm(held)
  /\ UNCHANGED <<sockets, phase, conn, told, os, ready, queue>>

(* A completion handler throws out of on_event(), before it arms.          *)
EventThrows ==
  /\ held # None
  /\ held' = None
  /\ deserted' = IF Missing(obj[held]) = {} THEN deserted ELSE deserted \union {held}
  /\ UNCHANGED <<objects, phase, doubled, conn, told, os, ready, pending>>

(* What arrives while curl has no interest is let arrive when it has.      *)
BecomeReady(fd, flag) ==
  /\ phase = "running"
  /\ fd \in hash
  /\ socketp[fd] # None
  /\ flag \in obj[socketp[fd]].watch
  /\ ready' = ready \union {<<fd, flag>>}
  /\ UNCHANGED <<objects, held, phase, history, conn, told, os, pending>>

-----------------------------------------------------------------------------
(* ~Client: sever every socket, then let curl detach its transfers and     *)
(* close its connections (Remove, CloseSocket, CloseOwn), then die.        *)

Sever ==
  /\ phase = "running"
  /\ held = None
  /\ phase' = "severed"
  /\ LET sts == {st \in States : Live(st)}
         closed == {fd \in Fds : sockets[fd] # None /\ ~obj[sockets[fd]].borrowed}
     IN  /\ obj' = [st \in States |->
                      IF st \in sts
                        THEN [obj[st] EXCEPT !.watch = {}, !.open = FALSE]
                        ELSE obj[st]]
         /\ AbortWaits(sts)
         /\ os' = [fd \in Fds |-> IF fd \in closed THEN None ELSE os[fd]]
  /\ ready' = {}
  /\ UNCHANGED <<sockets, held, history, conn, told>>

Die ==
  /\ phase = "severed"
  /\ \A fd \in Fds : conn[fd] = None
  /\ phase' = "gone"
  /\ sockets' = [fd \in Fds |-> None]
  /\ UNCHANGED <<obj, held, history, conn, told, os, ready, pending>>

-----------------------------------------------------------------------------
(* The rest of the program opens and closes descriptors of its own. *)

OthersOpen(fd) ==
  /\ os[fd] = None
  /\ os' = [os EXCEPT ![fd] = "others"]
  /\ UNCHANGED <<objects, held, phase, history, conn, told, ready, pending>>

OthersClose(fd) ==
  /\ os[fd] = "others"
  /\ os' = [os EXCEPT ![fd] = None]
  /\ UNCHANGED <<objects, held, phase, history, conn, told, ready, pending>>

-----------------------------------------------------------------------------

Next ==
  \/ \E fd \in Fds :
       \/ \E st \in States : OpenSocket(fd, st)
       \/ CreateByOther(fd, "curls")
       \/ CreateByOther(fd, "hooks")
       \/ \E what \in SUBSET Flags \ {{}} : Watch(fd, what)
       \/ Remove(fd)
       \/ CloseSocket(fd)
       \/ CloseOwn(fd)
       \/ \E flag \in Flags : BecomeReady(fd, flag)
       \/ OthersOpen(fd)
       \/ OthersClose(fd)
  \/ \E st \in States, flag \in Flags : Complete(st, flag)
  \/ \E c \in queue : RunCompletion(c)
  \/ FinishEvent
  \/ EventThrows
  \/ Sever
  \/ Die

(* The reactor completes waits and the io_context runs completions; calls  *)
(* return.  curl owes the client nothing here.                             *)
Fairness ==
  /\ \A st \in States, flag \in Flags : WF_vars(Complete(st, flag))
  /\ \A st \in States, flag \in Flags :
       SF_vars(RunCompletion([st |-> st, flag |-> flag, aborted |-> FALSE]))
  /\ WF_vars(FinishEvent)

Spec == Init /\ [][Next]_vars /\ Fairness

-----------------------------------------------------------------------------

(* The raw pointer curl hands back to socket_cb is the state sockets_      *)
(* owns: it never dangles, though states are erased while curl runs.       *)
PointersDoNotDangle ==
  \A fd \in Fds : socketp[fd] # None => socketp[fd] = sockets[fd]

(* An event is about the descriptor it was armed for: a state whose        *)
(* completion can still be locked has not outlived its descriptor, even if *)
(* the number serves another connection by now.                            *)
EventsAreNotStale ==
  \A fd \in Fds : phase = "running" /\ sockets[fd] # None =>
    LET o == obj[sockets[fd]]
    IN  /\ o.fd = fd
        /\ o.open
        /\ conn[fd] # None
        /\ o.borrowed <=> conn[fd] # "ours"

(* curl's interest is always watched: each flag it asked for has a wait    *)
(* pending or a completion queued, unless on_event() is about to arm it, or *)
(* an exception kept it from that and curl has not asked again since.      *)
(* Excepted is a descriptor of curl's or a hook's that could not be        *)
(* duplicated (WatchFails: it has no state, and no pointer to one).        *)
InterestIsWatched ==
  phase = "running" =>
    \A fd \in hash :
      socketp[fd] \in States \ ({held} \union deserted) =>
        \A flag \in obj[socketp[fd]].watch :
          \/ <<socketp[fd], flag>> \in waits
          \/ [st |-> socketp[fd], flag |-> flag, aborted |-> FALSE] \in queue

(* A state has one wait of each kind at most, pending or completed: what   *)
(* read_armed and write_armed are for.  None was ever started beside a     *)
(* pending one, from whichever of on_event() and socket_cb.                *)
OneWaitPerFlag ==
  /\ doubled = {}
  /\ \A st \in States, flag \in Flags :
       ~(/\ <<st, flag>> \in waits
         /\ \E c \in queue : c.st = st /\ c.flag = flag)

(* Nothing the client does closes a descriptor the rest of the program     *)
(* opened, in the destructor neither, where the numbers of its own sockets *)
(* are free while curl still closes them.                                  *)
OthersAreLeftAlone ==
  [][\A fd \in Fds : os[fd] = "others" /\ os'[fd] # "others"
                       => OthersClose(fd)]_vars

(* What becomes ready on a descriptor curl is interested in is reported to *)
(* curl, unless curl loses interest, the client goes, or an exception kept *)
(* on_event() from arming: no other event waits for ever.                  *)
Awaited(fd, flag) ==
  /\ phase = "running"
  /\ <<fd, flag>> \in ready
  /\ socketp[fd] # None
  /\ flag \in obj[socketp[fd]].watch
  /\ socketp[fd] \notin deserted

EventsReachCurl ==
  \A fd \in Fds, flag \in Flags : []<>~Awaited(fd, flag)

-----------------------------------------------------------------------------
(* Why they hold.  IInv is inductive; module SocketsProofs proves it.      *)

(* curl's pointer and sockets_ agree while curl is interested, and curl    *)
(* has no pointer to a descriptor it is not interested in.                 *)
PointersFollow ==
  \A fd \in Fds : socketp[fd] = IF fd \in hash THEN sockets[fd] ELSE None

(* No two descriptors share a state. *)
OneOwner ==
  \A fd1, fd2 \in Fds :
    sockets[fd1] # None /\ sockets[fd1] = sockets[fd2] => fd1 = fd2

(* A state is of the descriptor curl has under its number, a borrowed one  *)
(* only while curl is interested; the destructor severs those of ours.     *)
StateFits(fd) ==
  LET o == obj[sockets[fd]]
  IN  /\ o.fd = fd
      /\ conn[fd] # None
      /\ o.borrowed <=> conn[fd] # "ours"
      /\ o.borrowed => fd \in hash
      /\ phase = "running" => o.open
      /\ phase = "severed" /\ o.open => o.borrowed

OwnersFit == \A fd \in Fds : sockets[fd] # None => StateFits(fd)

(* A socket is open only in a state that sockets_ owns. *)
OpenIsOwned ==
  \A st \in States : obj[st].open => \E fd \in Fds : sockets[fd] = st

(* What curl has is open, but for the sockets that the destructor closed.  *)
ConnectionsFit ==
  \A fd \in Fds :
    /\ fd \in hash => conn[fd] # None
    /\ conn[fd] = "ours" => sockets[fd] # None
    /\ conn[fd] \in {"curls", "hooks"} => os[fd] = conn[fd]
    /\ conn[fd] = "ours" /\ phase = "running" => os[fd] = "ours"
    /\ conn[fd] # None => phase # "gone"

HeldInv == held # None => phase = "running"

(* An armed flag is a wait that is pending or has completed. *)
OnItsWay(st, flag) ==
  <<st, flag>> \in waits \/ [st |-> st, flag |-> flag, aborted |-> FALSE] \in queue

ArmedIsExact ==
  \A st \in States : obj[st].open =>
    /\ \A flag \in Flags : flag \in obj[st].armed <=> OnItsWay(st, flag)
    /\ \A c \in queue : c.st = st => ~c.aborted

(* A state that neither on_event() holds nor an exception deserted is      *)
(* armed for all that curl wants of it.                                    *)
WatchedIsArmed ==
  \A st \in States \ ({held} \union deserted) :
    obj[st].open => obj[st].watch \subseteq obj[st].armed

IInv ==
  /\ TypeOK
  /\ PointersFollow
  /\ OneOwner
  /\ OwnersFit
  /\ OpenIsOwned
  /\ ConnectionsFit
  /\ HeldInv
  /\ ArmedIsExact
  /\ OneWaitPerFlag
  /\ WatchedIsArmed

-----------------------------------------------------------------------------
(* ~Client severs its sockets first so that "curl's shutdown attempts      *)
(* below fail at once": they do not when another thread has been given the *)
(* number of a severed socket, which curl still has for its connection.    *)
ShutdownFailsAtOnce ==
  phase = "severed" => \A fd \in Fds : conn[fd] = "ours" => os[fd] = None

=============================================================================
