----------------------------- MODULE WriteQueue -----------------------------
(***************************************************************************)
(* The paced write queue of packages/backend/src/write/queue.ts.           *)
(*                                                                         *)
(* Every write to an interface goes through one queue per interface; at    *)
(* most one write of an interface is on the wire and two writes start at   *)
(* least the interface's pace apart.  A task is a write the backend        *)
(* enqueues once; its promise settles with the write or is rejected by     *)
(* cancel().  Time is counted from the last start of an interface and      *)
(* never beyond its pace, which is all the code compares it with.          *)
(***************************************************************************)
EXTENDS Integers, Sequences

CONSTANTS
    Interfaces,     \* the configured interfaces
    Tasks,          \* the writes that may be enqueued
    Pace            \* options.paceFor: the pause an interface needs

ASSUME PaceAssumption == Pace \in [Interfaces -> Nat]

VARIABLES
    pending,        \* #pending: the queue of each interface
    held,           \* shifted off #pending, waiting for the pace timer
    running,        \* #running: the interfaces that have a task under way
    started,        \* the tasks whose run() was called and has not settled
    timer,          \* what is left of the pace timer of an interface
    since,          \* #now() - #lastStart, counted up to the pace
    promise         \* the promise enqueue() returned for a task

vars == <<pending, held, running, started, timer, since, promise>>

PromiseStates == {"none", "open", "resolved", "rejected", "cancelled"}

TypeOK ==
    /\ pending \in [Interfaces -> Seq(Tasks)]
    /\ held \in [Interfaces -> SUBSET Tasks]
    /\ running \subseteq Interfaces
    /\ started \in [Interfaces -> SUBSET Tasks]
    /\ timer \in [Interfaces -> Nat]
    /\ since \in [Interfaces -> Nat]
    /\ \A i \in Interfaces : since[i] <= Pace[i]
    /\ promise \in [Tasks -> PromiseStates]

(* No write was ever started: #lastStart has no entry, so the code's       *)
(* `since` is infinite, which is the pace or more.                         *)
Init ==
    /\ pending = [i \in Interfaces |-> <<>>]
    /\ held = [i \in Interfaces |-> {}]
    /\ running = {}
    /\ started = [i \in Interfaces |-> {}]
    /\ timer = [i \in Interfaces |-> 0]
    /\ since = Pace
    /\ promise = [t \in Tasks |-> "none"]

(* run(): #lastStart is now, and the task is on the wire.                  *)
Run(i, t, alive) ==
    /\ started' = [started EXCEPT ![i] = alive \union {t}]
    /\ since' = [since EXCEPT ![i] = 0]

(* Math.max(0, pace - since): a write before its pace has to wait.         *)
WaitForSwapped(i) == IF since[i] > Pace[i] THEN since[i] - Pace[i] ELSE 0

WaitFor(i) == IF since[i] >= Pace[i] THEN 0 ELSE Pace[i] - since[i]

(* #drain() starts nothing: a task of i is under way, or none waits.       *)
NothingToStartUnguarded(i, q, busy) == q = <<>>

NothingToStart(i, q, busy) == i \in busy \/ q = <<>>

(* #drain(i) over the queue q, with `busy` the set #running has at that    *)
(* moment and `alive` the started tasks of i that have not settled.        *)
Drain(i, q, busy, alive) ==
    IF NothingToStart(i, q, busy) THEN
        /\ pending' = [pending EXCEPT ![i] = q]
        /\ running' = busy
        /\ started' = [started EXCEPT ![i] = alive]
        /\ UNCHANGED <<held, timer, since>>
    ELSE
        /\ pending' = [pending EXCEPT ![i] = Tail(q)]
        /\ running' = busy \union {i}
        /\ IF WaitFor(i) = 0 THEN
               /\ Run(i, Head(q), alive)
               /\ UNCHANGED <<held, timer>>
           ELSE
               /\ held' = [held EXCEPT ![i] = @ \union {Head(q)}]
               /\ timer' = [timer EXCEPT ![i] = WaitFor(i)]
               /\ started' = [started EXCEPT ![i] = alive]
               /\ UNCHANGED since

Enqueue(i, t) ==
    /\ promise[t] = "none"
    /\ promise' = [promise EXCEPT ![t] = "open"]
    /\ Drain(i, Append(pending[i], t), running, started[i])

(* The callback of #schedule: it runs the task it was made for.            *)
TimerFires(i) ==
    \E t \in held[i] :
        /\ timer[i] = 0
        /\ held' = [held EXCEPT ![i] = @ \ {t}]
        /\ Run(i, t, started[i])
        /\ UNCHANGED <<pending, running, timer, promise>>

(* Two slips in #finish(): the next write is not started, or a write that  *)
(* failed does not get there.                                              *)
SettleWithoutDrain(i, outcome) ==
    \E t \in started[i] :
        /\ promise' = [promise EXCEPT ![t] = outcome]
        /\ running' = running \ {i}
        /\ started' = [started EXCEPT ![i] = @ \ {t}]
        /\ UNCHANGED <<pending, held, timer, since>>

SettleRejectedUnfinished(i, outcome) ==
    \E t \in started[i] :
        /\ promise' = [promise EXCEPT ![t] = outcome]
        /\ Drain(i, pending[i],
                 IF outcome = "resolved" THEN running \ {i} ELSE running,
                 started[i] \ {t})

(* The write ended: #finish() frees the interface and starts the next one, *)
(* then the caller's promise settles.                                      *)
Settle(i, outcome) ==
    \E t \in started[i] :
        /\ promise' = [promise EXCEPT ![t] = outcome]
        /\ Drain(i, pending[i], running \ {i}, started[i] \ {t})

(* What cancel() rejects in one interface: everything in its #pending.     *)
CancelledIn(i) == {pending[i][k] : k \in DOMAIN pending[i]}

(* A slip: the rejected tasks stay in the queue.                           *)
CancelKeepsQueue(names) ==
    /\ promise' = [t \in Tasks |->
                      IF \E i \in names : t \in CancelledIn(i) THEN "cancelled"
                                                               ELSE promise[t]]
    /\ UNCHANGED <<pending, held, running, started, timer, since>>

(* cancel(): of one interface, or of all of them.                          *)
Cancel(names) ==
    /\ pending' = [i \in Interfaces |-> IF i \in names THEN <<>> ELSE pending[i]]
    /\ promise' = [t \in Tasks |->
                      IF \E i \in names : t \in CancelledIn(i) THEN "cancelled"
                                                               ELSE promise[t]]
    /\ UNCHANGED <<held, running, started, timer, since>>

(* Time passes for every interface at once.                                *)
Tick ==
    /\ \E i \in Interfaces : timer[i] > 0 \/ since[i] < Pace[i]
    /\ timer' = [i \in Interfaces |-> IF timer[i] > 0 THEN timer[i] - 1 ELSE 0]
    /\ since' = [i \in Interfaces |->
                    IF since[i] < Pace[i] THEN since[i] + 1 ELSE since[i]]
    /\ UNCHANGED <<pending, held, running, started, promise>>

Next ==
    \/ \E i \in Interfaces, t \in Tasks : Enqueue(i, t)
    \/ \E i \in Interfaces : TimerFires(i)
    \/ \E i \in Interfaces, outcome \in {"resolved", "rejected"} : Settle(i, outcome)
    \/ \E i \in Interfaces : Cancel({i})
    \/ Cancel(Interfaces)
    \/ Tick

(* Timers run, and every RPC of a write ends because RpcClient.call() has  *)
(* a timeout.                                                              *)
Fairness ==
    /\ WF_vars(Tick)
    /\ \A i \in Interfaces :
        /\ WF_vars(TimerFires(i))
        /\ WF_vars(\E outcome \in {"resolved", "rejected"} : Settle(i, outcome))

Spec == Init /\ [][Next]_vars

FairSpec == Spec /\ Fairness

-----------------------------------------------------------------------------
(* At most one write of an interface is under way, on the wire or waiting  *)
(* for its pace: a second one would interleave with it on the radio.       *)
OneAtATime ==
    \A i \in Interfaces :
        /\ \A t, u \in started[i] \union held[i] : t = u
        /\ ~(started[i] # {} /\ held[i] # {})

(* A write never starts before the pace of its interface has passed since  *)
(* the previous start, through whichever of the three ways it starts: at   *)
(* enqueue, by the timer, or when the write before it ends.                *)
PaceKept ==
    [][\A i \in Interfaces :
          started'[i] \ started[i] # {} => since[i] >= Pace[i]]_vars

(* A promise that has settled stays as it settled: a cancelled write is    *)
(* never sent, and a write that was sent is never reported as cancelled.   *)
SettledForGood ==
    [][\A t \in Tasks :
          promise[t] \in {"resolved", "rejected", "cancelled"}
              => /\ promise'[t] = promise[t]
                 /\ \A i \in Interfaces : t \notin started'[i]]_vars

(* The interface is free exactly when nothing of it is under way: a queue  *)
(* that is never freed, or work waiting behind an idle interface, would    *)
(* hang every later write.                                                 *)
NeverStuck ==
    \A i \in Interfaces :
        /\ i \in running <=> started[i] \union held[i] # {}
        /\ i \notin running => pending[i] = <<>>

(* Every write that is enqueued is answered, as long as writes end.        *)
EveryWriteSettles ==
    \A t \in Tasks : promise[t] = "open" ~> promise[t] \notin {"none", "open"}
=============================================================================
