----------------------------- MODULE GlobalInit -----------------------------
(***************************************************************************)
(* Clients that several threads construct and destroy at once              *)
(* (include/cofetch.h 290-305, 334-337, 945-948).  Each constructor calls  *)
(* curl_global_init and each destructor curl_global_cleanup, with the      *)
(* process-wide global_mutex held; the rest of a client's life is outside  *)
(* of the lock.                                                            *)
(*                                                                         *)
(* libcurl sets itself up when the first user comes and tears itself down  *)
(* when the last one goes.  Before 7.84 its count of users is a plain      *)
(* integer, read and written in two steps that another thread may come     *)
(* between; this module is about that libcurl.  A thread has one client at *)
(* a time: two of one thread never contend.                                *)
(***************************************************************************)
EXTENDS Integers, FiniteSets

CONSTANTS
  Threads,
  None

ASSUME ThreadsAssumption == IsFiniteSet(Threads) /\ None \notin Threads

VARIABLES
  lock,    \* the thread that holds global_mutex, or None
  at,      \* where each thread is in the life of its client
  seen,    \* libcurl: the count a call read
  users,   \* libcurl: the count
  up       \* libcurl is set up

libraryVars == <<lock, at, seen, users, up>>

(* outside -> entering -> counting_in -> inside -> leaving -> counting_out *)
Stations == {"outside", "entering", "counting_in",
             "inside", "leaving", "counting_out"}

Locked == {"entering", "counting_in", "leaving", "counting_out"}

LibraryTypeOK ==
  /\ lock \in Threads \union {None}
  /\ at \in [Threads -> Stations]
  /\ seen \in [Threads -> Nat]
  /\ users \in Nat
  /\ up \in BOOLEAN

LibraryInit ==
  /\ lock = None
  /\ at = [t \in Threads |-> "outside"]
  /\ seen = [t \in Threads |-> 0]
  /\ users = 0
  /\ up = FALSE

Go(t, from, to) == at[t] = from /\ at' = [at EXCEPT ![t] = to]

MutTake(t) == lock' = t

(* std::lock_guard: taken here, released at the end of the scope. *)
Take(t) == lock = None /\ lock' = t

(* The constructor, and the destructor once its multi handle is gone.      *)
Construct(t) ==
  /\ Go(t, "outside", "entering")
  /\ Take(t)
  /\ UNCHANGED <<seen, users, up>>

Destruct(t) ==
  /\ Go(t, "inside", "leaving")
  /\ Take(t)
  /\ UNCHANGED <<seen, users, up>>

(* curl_global_init and curl_global_cleanup read the count ...             *)
ReadCount(t) ==
  /\ Go(t, "entering", "counting_in") \/ Go(t, "leaving", "counting_out")
  /\ seen' = [seen EXCEPT ![t] = users]
  /\ UNCHANGED <<lock, users, up>>

(* ... write it, and set libcurl up or tear it down; the scope ends.       *)
CountIn(t) ==
  /\ Go(t, "counting_in", "inside")
  /\ users' = seen[t] + 1
  /\ up' = (up \/ seen[t] = 0)
  /\ lock' = None
  /\ UNCHANGED seen

CountOut(t) ==
  /\ Go(t, "counting_out", "outside")
  /\ users' = IF seen[t] = 0 THEN 0 ELSE seen[t] - 1
  /\ up' = (up /\ seen[t] # 1)
  /\ lock' = None
  /\ UNCHANGED seen

LibraryStep(t) == ReadCount(t) \/ CountIn(t) \/ CountOut(t)

LibraryNext == \E t \in Threads : Construct(t) \/ Destruct(t) \/ LibraryStep(t)

LibrarySpec == LibraryInit /\ [][LibraryNext]_libraryVars

-----------------------------------------------------------------------------

(* The threads whose client exists. *)
Using == {t \in Threads : at[t] \in {"inside", "leaving", "counting_out"}}

(* libcurl is set up while any client exists, whatever the other threads   *)
(* construct and destroy meanwhile, and torn down with the last one.       *)
LibraryUp == up <=> Using # {}

(* Why: who counts holds the lock, so what it read is still the count, and *)
(* the count is the number of clients.                                     *)
OwnerCounts == \A t \in Threads : at[t] \in Locked <=> lock = t

CountIsFresh ==
  \A t \in Threads : at[t] \in {"counting_in", "counting_out"} => seen[t] = users

UsersCounted == users = Cardinality(Using)

LibraryInv ==
  LibraryTypeOK /\ OwnerCounts /\ CountIsFresh /\ UsersCounted /\ LibraryUp

=============================================================================
