------------------------------- MODULE Bench --------------------------------
(***************************************************************************)
(* The benchmark drivers (bench/): threads that make a number of requests  *)
(* with a number of them in flight, and report how many failed.            *)
(*                                                                         *)
(*   refill      bench_cofetch and bench_epoll, throughput: each event     *)
(*               loop refills its window from the completion handlers      *)
(*   callbacks   bench_cofetch, chain: each handler makes the next request *)
(*   coroutine   the same with co_await                                    *)
(*   pool        bench_cpr and bench_httplib: threads that take a number   *)
(*               and make a request each, synchronously; a pool of one is  *)
(*               their chain, and bench_epoll's                            *)
(*                                                                         *)
(* A request is what AsyncRequest promises: it is answered, later, from    *)
(* the event loop.  The event loops of refill, callbacks and coroutine own *)
(* a client each, whose construction and destruction is GlobalInit's.      *)
(* What is measured, time, is left out.                                    *)
(***************************************************************************)
EXTENDS GlobalInit, FiniteSetsExt, Functions

CONSTANTS
  Totals, Concurrencies   \* command line arguments

ASSUME ArgumentsAssumption ==
  /\ Threads = 1..Cardinality(Threads)
  /\ Totals \subseteq Nat
  /\ Concurrencies \subseteq Nat

VARIABLES
  args,        \* the scenario, its arguments and COFETCH_BENCH_LOOPS, _POLL
  stage,       \* where each thread is
  in_flight, launched, done, failed_here,  \* run_throughput's
  next, failed,                            \* the atomics that threads share
  report,      \* the failures reported, or None
  answers      \* history: how many answers of each kind there were

workVars == <<args, stage, in_flight, launched, done, failed_here,
              next, failed, report, answers>>
vars == <<libraryVars, workVars>>

Scenarios == {"refill", "callbacks", "coroutine", "pool"}
Answers == {"ok", "status", "error"}

Args == {a \in [scenario : Scenarios, total : Totals,
                concurrency : Concurrencies, loops : Threads, poll : BOOLEAN] :
           /\ a.scenario # "refill" => a.loops = 1
           /\ a.scenario = "pool" => a.concurrency \in Threads
           /\ a.scenario \in {"callbacks", "coroutine"} => a.concurrency = 1
           /\ a.poll => a.scenario \in {"refill", "callbacks"}}

Active == 1..(IF args.scenario = "pool" THEN args.concurrency ELSE args.loops)

TypeOK ==
  /\ LibraryTypeOK
  /\ args \in Args
  /\ stage \in [Threads -> {"new", "running", "returned", "over"}]
  /\ \A counter \in {in_flight, launched, done, failed_here} :
       counter \in [Threads -> Nat]
  /\ next \in Nat /\ failed \in Nat
  /\ report \in Nat \union {None}
  /\ answers \in [Answers -> Nat]

Init ==
  /\ LibraryInit
  /\ args \in Args
  /\ stage = [t \in Threads |-> IF t \in Active THEN "new" ELSE "over"]
  /\ in_flight = [t \in Threads |-> 0]
  /\ launched = [t \in Threads |-> 0]
  /\ done = [t \in Threads |-> 0]
  /\ failed_here = [t \in Threads |-> 0]
  /\ next = 0
  /\ failed = 0
  /\ report = None
  /\ answers = [a \in Answers |-> 0]

-----------------------------------------------------------------------------

Pooled == args.scenario = "pool"

Become(t, from, to) == stage[t] = from /\ stage' = [stage EXCEPT ![t] = to]

(* The part of the requests that loop t makes, and of the concurrency.     *)
MutShare(t) == args.total \div args.loops

Share(t) ==
  args.total \div args.loops + (IF t - 1 < args.total % args.loops THEN 1 ELSE 0)

MutWindow == args.concurrency

Window == IF args.loops > 1 THEN args.concurrency \div args.loops
                            ELSE args.concurrency

(* How many requests loop t makes when pending of its own are in flight    *)
(* and answered are done: refill(), or the next one of the chain.          *)
MutRefill(t, pending, answered) ==
  IF answered < Share(t) THEN Max({0, Window - pending}) ELSE 0

MutRefillShort(t, pending, answered) ==
  Max({0, Min({Window - pending - 1, Share(t) - launched[t]})})

Refill(t, pending, answered) ==
  IF args.scenario = "refill"
    THEN Max({0, Min({Window - pending, Share(t) - launched[t]})})
    ELSE IF answered < args.total THEN 1 ELSE 0

(* The chain of callbacks makes its first request before it counts.        *)
FirstRefill(t) ==
  IF args.scenario = "callbacks" THEN 1 ELSE Refill(t, 0, 0)

Opens(t) ==
  /\ ~Pooled /\ at[t] = "inside"
  /\ Become(t, "new", "running")
  /\ in_flight' = [in_flight EXCEPT ![t] = FirstRefill(t)]
  /\ launched' = [launched EXCEPT ![t] = FirstRefill(t)]
  /\ UNCHANGED <<libraryVars, args, done, failed_here, next, failed,
                 report, answers>>

(* A completion handler, that a busy loop with enough done calls no more.  *)
(* An error ends the coroutine: co_await throws, and asio::detached        *)
(* ignores what it throws.                                                 *)
Ends(a) == args.scenario = "coroutine" /\ a = "error"

Handler(t, a) ==
  LET more == IF Ends(a) THEN 0 ELSE Refill(t, in_flight[t] - 1, done[t] + 1)
  IN  /\ ~Pooled /\ stage[t] = "running"
      /\ in_flight[t] > 0
      /\ args.poll => done[t] < Share(t)
      /\ in_flight' = [in_flight EXCEPT ![t] = @ - 1 + more]
      /\ launched' = [launched EXCEPT ![t] = @ + more]
      /\ done' = [done EXCEPT ![t] = @ + 1]
      /\ failed_here' = [failed_here EXCEPT
                           ![t] = IF a = "ok" \/ Ends(a) THEN @ ELSE @ + 1]
      /\ answers' = [answers EXCEPT ![a] = @ + 1]
      /\ UNCHANGED <<libraryVars, args, stage, next, failed, report>>

(* io.run() returns when no request is left; the busy loop when enough are *)
(* done, and ~Client drops the others.                                     *)
LoopEnds(t) == IF args.poll THEN done[t] >= Share(t) ELSE in_flight[t] = 0

Returns(t) ==
  /\ ~Pooled /\ LoopEnds(t)
  /\ Become(t, "running", "returned")
  /\ in_flight' = [in_flight EXCEPT ![t] = 0]
  /\ UNCHANGED <<libraryVars, args, launched, done, failed_here, next, failed,
                 report, answers>>

(* failed += what run_throughput() returned, its client destroyed.         *)
MutSubtract(n) == failed' = failed - n

Add(n) == failed' = failed + n

Adds(t) ==
  /\ ~Pooled /\ at[t] = "outside"
  /\ Become(t, "returned", "over")
  /\ Add(failed_here[t])
  /\ UNCHANGED <<libraryVars, args, in_flight, launched, done, failed_here, next,
                 report, answers>>

-----------------------------------------------------------------------------
(* A thread of a pool: while (next.fetch_add(1) < total) it makes a        *)
(* request.                                                                *)

TakesNumber(t) ==
  /\ Pooled /\ in_flight[t] = 0
  /\ next' = next + 1
  /\ IF next < args.total
       THEN /\ stage[t] \in {"new", "running"}
            /\ stage' = [stage EXCEPT ![t] = "running"]
            /\ in_flight' = [in_flight EXCEPT ![t] = 1]
            /\ launched' = [launched EXCEPT ![t] = @ + 1]
       ELSE /\ Become(t, "new", "over") \/ Become(t, "running", "over")
            /\ UNCHANGED <<in_flight, launched>>
  /\ UNCHANGED <<libraryVars, args, done, failed_here, failed, report, answers>>

Answered(t, a) ==
  /\ Pooled /\ in_flight[t] = 1
  /\ in_flight' = [in_flight EXCEPT ![t] = 0]
  /\ done' = [done EXCEPT ![t] = @ + 1]
  /\ Add(IF a = "ok" THEN 0 ELSE 1)
  /\ answers' = [answers EXCEPT ![a] = @ + 1]
  /\ UNCHANGED <<libraryVars, args, stage, launched, failed_here, next, report>>

-----------------------------------------------------------------------------

(* The life of a loop's client.                                            *)
Lives(t) ==
  /\ ~Pooled
  /\ \/ stage[t] = "new" /\ Construct(t)
     \/ stage[t] = "returned" /\ Destruct(t)
     \/ LibraryStep(t)
  /\ UNCHANGED workVars

(* main() joined the threads. *)
Reports ==
  /\ report = None
  /\ \A t \in Threads : stage[t] = "over"
  /\ report' = failed
  /\ UNCHANGED <<libraryVars, args, stage, in_flight, launched, done, failed_here,
                 next, failed, answers>>

Works(t) ==
  \/ Opens(t) \/ Returns(t) \/ Adds(t) \/ Lives(t) \/ TakesNumber(t)
  \/ \E a \in Answers : Handler(t, a) \/ Answered(t, a)

Next == (\E t \in Threads : Works(t)) \/ Reports

(* Threads run, requests are answered (EveryRequestSettles).  A thread     *)
(* that waits for the mutex gets it: the others hold it once each.         *)
Fairness == (\A t \in Threads : WF_vars(Works(t))) /\ WF_vars(Reports)

Spec == Init /\ [][Next]_vars /\ Fairness

-----------------------------------------------------------------------------

(* COFETCH_BENCH_LOOPS exceeds the concurrency: no loop makes a request.   *)
NoWindow == args.scenario = "refill" /\ Window = 0 /\ args.total > 0

(* A coroutine met an error: co_await threw, and it is no more.            *)
Stopped == args.scenario = "coroutine" /\ answers["error"] > 0

(* The requests made: the total asked for, but none without a window, and  *)
(* one by a chain of callbacks of length 0 that is not polled.             *)
Made ==
  IF NoWindow THEN 0
  ELSE IF args.scenario = "callbacks" /\ ~args.poll THEN Max({1, args.total})
  ELSE args.total

(* The errors that count as failures: not the one that ends a coroutine.   *)
ErrorsCounted == IF args.scenario = "coroutine" THEN 0 ELSE answers["error"]

(* Each request is made and answered once, and the failures reported are   *)
(* those the threads met, however the requests are split between threads   *)
(* and however these interleave.  A coroutine is cut short by its first    *)
(* error, which the report leaves out, though bench/run_bench.sh:27 heads  *)
(* its last column "failed".                                               *)
ReportAddsUp ==
  LET answered == answers["ok"] + answers["status"] + answers["error"]
  IN  report # None =>
        /\ ~Stopped => answered = Made
        /\ Stopped => answered <= args.total /\ answers["error"] = 1
        /\ report = answers["status"] + ErrorsCounted

(* The window of each loop is full while it has requests left to make, and *)
(* never fuller, though it is refilled one answer at a time and from       *)
(* inside handlers.                                                        *)
WindowsFull ==
  args.scenario = "refill" =>
    \A t \in Threads : stage[t] = "running" =>
      in_flight[t] = Min({Window, Share(t) - done[t]})

(* Every loop runs and has requests left to make.                          *)
AllBusy == \A t \in Active : stage[t] = "running" /\ launched[t] < Share(t)

(* What the division of the concurrency between loops leaves of it:        *)
(* windows are full, all together they do not exceed it, and while every   *)
(* loop is busy they are short of it by the remainder of the division (by  *)
(* all of it, when there are more loops than that).  bench/README.md:53    *)
(* says "`total` GETs with `concurrency` kept in flight".                  *)
ConcurrencyDivided ==
  /\ WindowsFull
  /\ args.scenario = "refill" =>
       /\ SumFunction(in_flight) <= args.concurrency
       /\ AllBusy => SumFunction(in_flight)
                       = args.concurrency - (args.concurrency % args.loops)

(* Why windows stay full: what a loop launched is in flight or done, from  *)
(* the first refill, which starts from nothing.                            *)
FreshInv ==
  \A t \in Threads : stage[t] = "new" =>
    in_flight[t] = 0 /\ launched[t] = 0 /\ done[t] = 0

LaunchedInv ==
  \A t \in Threads : stage[t] = "running" =>
    launched[t] = done[t] + in_flight[t]

WindowInv == TypeOK /\ FreshInv /\ LaunchedInv /\ WindowsFull

(* Why reports add up: a thread that does not run has nothing in flight,   *)
(* one that the arguments do not ask for does nothing, and without a       *)
(* window none does.                                                       *)
IdleInv ==
  \A t \in Threads :
    /\ stage[t] # "running" => in_flight[t] = 0
    /\ t \notin Active => stage[t] = "over" /\ done[t] = 0
    /\ NoWindow => done[t] = 0

(* The length of a chain, and the answers loop t has when it returns.      *)
Chain == IF args.scenario = "callbacks" THEN Max({1, args.total}) ELSE args.total

Goal(t) ==
  IF NoWindow THEN 0
  ELSE IF args.scenario = "callbacks" /\ ~args.poll THEN Chain
  ELSE Share(t)

(* A chain has one request in flight until it has made them all, or met    *)
(* the error that stops it.                                                *)
ChainInv ==
  args.scenario \in {"callbacks", "coroutine"} =>
    \A t \in Threads : stage[t] = "running" =>
      /\ done[t] <= Goal(t)
      /\ in_flight[t] = IF ~Stopped /\ done[t] < Chain THEN 1 ELSE 0

(* A loop that returned made its share, unless an error stopped it.        *)
FinishedInv ==
  ~Pooled =>
    \A t \in Active : stage[t] \in {"returned", "over"} =>
      /\ done[t] <= Goal(t)
      /\ ~Stopped => done[t] = Goal(t)

(* The threads of a pool took the numbers below next, and stop when there  *)
(* are no more.                                                            *)
PoolInv ==
  Pooled =>
    /\ SumFunction(launched) = Min({next, args.total})
    /\ \A t \in Threads : launched[t] = done[t] + in_flight[t] /\ failed_here[t] = 0
    /\ \A t \in Active : stage[t] = "over" => next >= args.total

(* Every answer was counted by the thread that met it, and every failure   *)
(* was added to the atomic or is still to be.                              *)
Unreported == [t \in Threads |-> IF stage[t] = "over" THEN 0 ELSE failed_here[t]]

CountsInv ==
  /\ SumFunction(done) = answers["ok"] + answers["status"] + answers["error"]
  /\ failed + SumFunction(Unreported) = answers["status"] + ErrorsCounted
  /\ args.scenario = "coroutine" => answers["error"] <= 1
  /\ report # None => report = failed /\ \A t \in Threads : stage[t] = "over"

IInv == WindowInv /\ IdleInv /\ ChainInv /\ FinishedInv /\ PoolInv /\ CountsInv

(* The benchmark ends, unless busy loops wait for requests that nobody     *)
(* makes.                                                                  *)
BenchmarkEnds == <>(report # None \/ (NoWindow /\ args.poll))

=============================================================================
