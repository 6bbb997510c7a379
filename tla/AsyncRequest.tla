---------------------------- MODULE AsyncRequest ----------------------------
(***************************************************************************)
(* What Client::async_perform promises of each request, and nothing of how *)
(* the client keeps the promise: a request that was started is finished    *)
(* by its transfer, refused or aborted, and its completion handler runs    *)
(* once with that outcome; closing the client drops the requests that are  *)
(* still in flight, whose handlers never run.                              *)
(*                                                                         *)
(* A request that is refused or aborted is first *owed* its completion: it *)
(* is delivered by a later step, never by the step that started the        *)
(* request or emitted the cancellation.  Module Client implements this     *)
(* specification.                                                          *)
(***************************************************************************)
CONSTANT Requests   \* every request the program ever starts

VARIABLES
  state,   \* what has become of each request
  open     \* the client exists

vars == <<state, open>>

Owed      == {"refused", "aborted"}
Completed == {"finished", "told_refused", "told_aborted"}
Settled   == Completed \union {"dropped"}

TypeOK ==
  /\ state \in [Requests -> {"idle", "in_flight"} \union Owed \union Settled]
  /\ open \in BOOLEAN

Init ==
  /\ state = [r \in Requests |-> "idle"]
  /\ open = TRUE

Move(r, from, to) ==
  /\ state[r] = from
  /\ state' = [state EXCEPT ![r] = to]
  /\ UNCHANGED open

Submit(r) == open /\ Move(r, "idle", "in_flight")
Refuse(r) == open /\ Move(r, "idle", "refused")
Abort(r)  == open /\ Move(r, "in_flight", "aborted")
Finish(r) == open /\ Move(r, "in_flight", "finished")

(* An owed completion outlives the client. *)
Deliver(r) ==
  \/ Move(r, "refused", "told_refused")
  \/ Move(r, "aborted", "told_aborted")

Close ==
  /\ open
  /\ open' = FALSE
  /\ state' = [r \in Requests |->
                 IF state[r] = "in_flight" THEN "dropped" ELSE state[r]]

Next ==
  \/ \E r \in Requests :
       Submit(r) \/ Refuse(r) \/ Abort(r) \/ Finish(r) \/ Deliver(r)
  \/ Close

Fairness ==
  \A r \in Requests : WF_vars(Finish(r)) /\ WF_vars(Deliver(r))

Spec == Init /\ [][Next]_vars /\ Fairness

=============================================================================
