-------------------------- MODULE WriteQueueProofs --------------------------
(***************************************************************************)
(* What WriteQueue keeps for every set of interfaces and of writes and for *)
(* every pace: at most one write under way, nothing stuck, the pace kept,  *)
(* promises that settle once, and no write whose caller waits lost.        *)
(*                                                                         *)
(* A step of the queue that frees or fills an interface ends in #drain(),  *)
(* so the argument is made once for Drain: what is true of the queue it is *)
(* given (Kept, with the arguments of Drain in the place of the variables) *)
(* is true of the queue it leaves, and that queue is not stuck.            *)
(***************************************************************************)
EXTENDS WriteQueue, SequenceTheorems, TLAPS

(* Every task is in one place only: P are the queues, H the tasks that     *)
(* wait for their pace and S those that run.                               *)
EachOnce(P, H, S) ==
    /\ \A i \in Interfaces : \A k, l \in 1..Len(P[i]) : P[i][k] = P[i][l] => k = l
    /\ \A i, j \in Interfaces : i # j =>
          \A k \in 1..Len(P[i]), l \in 1..Len(P[j]) : P[i][k] # P[j][l]
    /\ \A i, j \in Interfaces : \A k \in 1..Len(P[i]) : P[i][k] \notin H[j] \union S[j]
    /\ \A i, j \in Interfaces : i # j =>
          \A t \in H[i] \union S[i] : t \notin H[j] \union S[j]

(* The promise of a task that is in some place is open.                    *)
EachOpen(P, H, S, pr) ==
    \A i \in Interfaces :
        /\ \A k \in 1..Len(P[i]) : pr[P[i][k]] = "open"
        /\ \A t \in H[i] \union S[i] : pr[t] = "open"

(* One task of an interface is under way, and R says of which interface.   *)
Marked(H, S, R) ==
    \A i \in Interfaces :
        /\ \A t, u \in S[i] \union H[i] : t = u
        /\ ~(S[i] # {} /\ H[i] # {})
        /\ i \in R <=> S[i] \union H[i] # {}

(* The timer covers what is missing of the pace.                           *)
Covered(H, tm, si) ==
    \A i \in Interfaces : H[i] # {} => tm[i] + si[i] >= Pace[i]

Typed(P, H, S, R, pr) ==
    /\ P \in [Interfaces -> Seq(Tasks)]
    /\ H \in [Interfaces -> SUBSET Tasks]
    /\ S \in [Interfaces -> SUBSET Tasks]
    /\ R \subseteq Interfaces
    /\ pr \in [Tasks -> PromiseStates]

Kept(P, H, S, R, pr) ==
    /\ Typed(P, H, S, R, pr)
    /\ EachOnce(P, H, S)
    /\ EachOpen(P, H, S, pr)
    /\ Marked(H, S, R)

Clocks(tm, si) ==
    /\ tm \in [Interfaces -> Nat]
    /\ si \in [Interfaces -> Nat]
    /\ \A i \in Interfaces : si[i] <= Pace[i]

(* The inductive invariant.                                                *)
IInv ==
    /\ Kept(pending, held, started, running, promise)
    /\ Clocks(timer, since)
    /\ Covered(held, timer, since)
    /\ \A i \in Interfaces : i \notin running => pending[i] = <<>>

-----------------------------------------------------------------------------
(* Taking the first task off a queue leaves the others where they are.     *)
LEMMA TailElements ==
    ASSUME NEW S, NEW q \in Seq(S), q # <<>>
    PROVE  /\ Tail(q) \in Seq(S)
           /\ Head(q) \in S
           /\ Head(q) = q[1]
           /\ Len(q) \in Nat /\ Len(q) > 0
           /\ Len(Tail(q)) = Len(q) - 1
           /\ \A k \in 1..Len(Tail(q)) : k + 1 \in 1..Len(q) /\ Tail(q)[k] = q[k + 1]
  OBVIOUS

(* #drain() on the queue P, with R and S as they are after the task before *)
(* has left: the first task starts or waits for its pace, nothing is lost, *)
(* doubled or left behind a free interface.                                *)
LEMMA DrainKeeps ==
    ASSUME NEW i \in Interfaces, NEW q, NEW busy, NEW alive, NEW P, NEW S,
           P = [pending EXCEPT ![i] = q],
           S = [started EXCEPT ![i] = alive],
           Kept(P, held, S, busy, promise'),
           pending \in [Interfaces -> Seq(Tasks)],
           started \in [Interfaces -> SUBSET Tasks],
           Clocks(timer, since),
           Covered(held, timer, since),
           \A j \in Interfaces \ {i} : j \notin busy => pending[j] = <<>>,
           Drain(i, q, busy, alive)
    PROVE  IInv'
<1>1. /\ P[i] = q /\ \A j \in Interfaces \ {i} : P[j] = pending[j]
      /\ S[i] = alive /\ \A j \in Interfaces \ {i} : S[j] = started[j]
  OBVIOUS
<1>2. /\ q \in Seq(Tasks) /\ alive \in SUBSET Tasks /\ busy \subseteq Interfaces
      /\ held \in [Interfaces -> SUBSET Tasks]
  BY <1>1 DEF Kept, Typed
<1>3. EachOnce(P, held, S) /\ EachOpen(P, held, S, promise') /\ Marked(held, S, busy)
  BY DEF Kept
<1>4. CASE NothingToStart(i, q, busy)
  <2>1. /\ pending' = P /\ started' = S /\ running' = busy
        /\ UNCHANGED <<held, timer, since>>
    BY <1>4 DEF Drain
  <2>2. \A j \in Interfaces : j \notin running' => pending'[j] = <<>>
    BY <1>4, <2>1 DEF NothingToStart
  <2> QED
    BY <2>1, <2>2 DEF IInv
<1>5. CASE ~NothingToStart(i, q, busy)
  <2>1. q # <<>> /\ i \notin busy
    BY <1>5 DEF NothingToStart
  <2>2. PICK r \in Seq(Tasks), t \in Tasks :
           /\ r = Tail(q) /\ t = Head(q) /\ t = q[1]
           /\ Len(q) \in Nat /\ Len(q) > 0 /\ Len(r) \in Nat
           /\ \A k \in 1..Len(r) : k + 1 \in 1..Len(q) /\ r[k] = q[k + 1]
    BY <1>2, <2>1, TailElements
  <2>3. /\ pending' = [pending EXCEPT ![i] = r]
        /\ running' = busy \union {i}
    BY <1>5, <2>2 DEF Drain
  <2>4. held[i] = {} /\ alive = {}
    BY <1>1, <1>3, <2>1 DEF Marked
  <2>5. \/ /\ since[i] >= Pace[i]
           /\ started' = [started EXCEPT ![i] = {t}]
           /\ since' = [since EXCEPT ![i] = 0]
           /\ held' = held /\ timer' = timer
        \/ /\ since[i] < Pace[i]
           /\ held' = [held EXCEPT ![i] = {t}]
           /\ timer' = [timer EXCEPT ![i] = Pace[i] - since[i]]
           /\ started' = [started EXCEPT ![i] = {}]
           /\ since' = since
    <3>1. since[i] \in Nat /\ Pace[i] \in Nat
      BY PaceAssumption DEF Clocks
    <3>2. alive \union {t} = {t} /\ held[i] \union {t} = {t}
      BY <2>4
    <3>3. CASE since[i] >= Pace[i]
      <4>1. WaitFor(i) = 0
        BY <3>3 DEF WaitFor
      <4>2. Run(i, Head(q), alive) /\ UNCHANGED <<held, timer>>
        BY <1>5, <4>1 DEF Drain
      <4> QED
        BY <2>2, <3>2, <3>3, <4>2 DEF Run
    <3>4. CASE ~(since[i] >= Pace[i])
      <4>1. WaitFor(i) = Pace[i] - since[i] /\ WaitFor(i) # 0 /\ since[i] < Pace[i]
        BY <3>1, <3>4 DEF WaitFor
      <4>2. /\ held' = [held EXCEPT ![i] = held[i] \union {Head(q)}]
            /\ timer' = [timer EXCEPT ![i] = WaitFor(i)]
            /\ started' = [started EXCEPT ![i] = alive]
            /\ since' = since
        BY <1>5, <4>1 DEF Drain
      <4>3. /\ held' = [held EXCEPT ![i] = {t}]
            /\ started' = [started EXCEPT ![i] = {}]
        BY <2>2, <2>4, <3>2, <4>2
      <4> QED
        BY <4>1, <4>2, <4>3
    <3> QED
      BY <3>3, <3>4
  <2>6. /\ held' \in [Interfaces -> SUBSET Tasks]
        /\ started' \in [Interfaces -> SUBSET Tasks]
        /\ \A j \in Interfaces \ {i} : held'[j] = held[j] /\ started'[j] = S[j]
        /\ \/ started'[i] = {t} /\ held'[i] = {}
           \/ started'[i] = {} /\ held'[i] = {t}
    <3>1. {t} \in SUBSET Tasks /\ {} \in SUBSET Tasks
      OBVIOUS
    <3>2. CASE held' = held /\ started' = [started EXCEPT ![i] = {t}]
      BY <1>1, <1>2, <2>4, <3>1, <3>2
    <3>3. CASE held' = [held EXCEPT ![i] = {t}] /\ started' = [started EXCEPT ![i] = {}]
      BY <1>1, <1>2, <3>1, <3>3
    <3> QED
      BY <2>5, <3>2, <3>3
  <2>7. /\ pending' \in [Interfaces -> Seq(Tasks)]
        /\ pending'[i] = r
        /\ \A j \in Interfaces \ {i} : pending'[j] = P[j]
    BY <1>1, <2>3
  <2>8. Typed(pending', held', started', running', promise')
    BY <1>2, <2>3, <2>6, <2>7 DEF Kept, Typed
  <2>9. ASSUME NEW j \in Interfaces, NEW k \in 1..Len(pending'[j])
        PROVE  /\ j = i => k + 1 \in 1..Len(P[j]) /\ pending'[j][k] = P[j][k + 1]
               /\ j # i => k \in 1..Len(P[j]) /\ pending'[j][k] = P[j][k]
               /\ pending'[j] \in Seq(Tasks)
    <3>1. CASE j = i
      BY <1>1, <2>2, <2>7, <3>1
    <3>2. CASE j # i
      BY <2>7, <3>2
    <3> QED
      BY <3>1, <3>2
  <2>10. \A j \in Interfaces : \A k \in 1..Len(pending'[j]) :
            \E l \in 1..Len(P[j]) : pending'[j][k] = P[j][l]
    BY <2>9
  <2>11. 1 \in 1..Len(P[i]) /\ P[i][1] = t
    BY <1>1, <2>2
  <2>12. \A j \in Interfaces :
            held'[j] \union started'[j]
                \subseteq held[j] \union S[j] \union (IF j = i THEN {t} ELSE {})
    BY <2>6
  <2>13. EachOnce(pending', held', started')
    <3>1. ASSUME NEW j \in Interfaces, NEW k \in 1..Len(pending'[j])
          PROVE  pending'[j][k] # t
      <4>1. CASE j = i
        <5>1. k + 1 \in 1..Len(P[i]) /\ k + 1 # 1 /\ pending'[j][k] = P[i][k + 1]
          BY <2>2, <2>7, <2>9, <4>1
        <5> QED
          BY <1>3, <2>11, <5>1 DEF EachOnce
      <4>2. CASE j # i
        BY <1>3, <2>9, <2>11, <4>2 DEF EachOnce
      <4> QED
        BY <4>1, <4>2
    <3>2. \A j \in Interfaces : t \notin held[j] \union S[j]
      BY <1>3, <2>11 DEF EachOnce
    <3>3. ASSUME NEW j \in Interfaces, NEW k \in 1..Len(pending'[j]),
                 NEW l \in 1..Len(pending'[j]), pending'[j][k] = pending'[j][l]
          PROVE  k = l
      <4>1. CASE j = i
        <5>1. /\ k + 1 \in 1..Len(P[i]) /\ l + 1 \in 1..Len(P[i])
              /\ P[i][k + 1] = P[i][l + 1]
          BY <2>9, <3>3, <4>1
        <5>2. k + 1 = l + 1
          BY <1>3, <5>1 DEF EachOnce
        <5> QED
          BY <5>2
      <4>2. CASE j # i
        BY <1>3, <2>9, <3>3, <4>2 DEF EachOnce
      <4> QED
        BY <4>1, <4>2
    <3>4. \A j, m \in Interfaces : j # m =>
             \A k \in 1..Len(pending'[j]), l \in 1..Len(pending'[m]) :
                pending'[j][k] # pending'[m][l]
      <4>1. \A j, m \in Interfaces : j # m =>
               \A k \in 1..Len(P[j]), l \in 1..Len(P[m]) : P[j][k] # P[m][l]
        BY <1>3 DEF EachOnce
      <4> QED
        BY <2>10, <4>1
    <3>5. ASSUME NEW j \in Interfaces, NEW m \in Interfaces, NEW k \in 1..Len(pending'[j])
          PROVE  pending'[j][k] \notin held'[m] \union started'[m]
      <4>1. PICK l \in 1..Len(P[j]) : pending'[j][k] = P[j][l]
        BY <2>10
      <4>2. P[j][l] \notin held[m] \union S[m]
        BY <1>3 DEF EachOnce
      <4>3. pending'[j][k] # t
        BY <3>1
      <4> QED
        BY <2>12, <4>1, <4>2, <4>3
    <3>6. ASSUME NEW j \in Interfaces, NEW m \in Interfaces, j # m,
                 NEW u \in held'[j] \union started'[j]
          PROVE  u \notin held'[m] \union started'[m]
      <4>1. \A v \in held[j] \union S[j] : v \notin held[m] \union S[m]
        BY <1>3, <3>6 DEF EachOnce
      <4>2. CASE u \in held[j] \union S[j]
        <5>1. m = i => u # t
          BY <3>2, <4>2
        <5> QED
          BY <2>12, <4>1, <4>2, <5>1
      <4>3. CASE u \notin held[j] \union S[j]
        <5>1. u = t /\ j = i
          BY <2>12, <3>6, <4>3
        <5> QED
          BY <2>12, <3>2, <3>6, <5>1
      <4> QED
        BY <4>2, <4>3
    <3> QED
      BY <3>3, <3>4, <3>5, <3>6 DEF EachOnce
  <2>14. EachOpen(pending', held', started', promise')
    <3>1. promise'[t] = "open"
      BY <1>3, <2>11 DEF EachOpen
    <3>2. ASSUME NEW j \in Interfaces, NEW k \in 1..Len(pending'[j])
          PROVE  promise'[pending'[j][k]] = "open"
      BY <1>3, <2>10 DEF EachOpen
    <3>3. ASSUME NEW j \in Interfaces, NEW u \in held'[j] \union started'[j]
          PROVE  promise'[u] = "open"
      BY <1>3, <2>12, <3>1 DEF EachOpen
    <3> QED
      BY <3>2, <3>3 DEF EachOpen
  <2>15. Marked(held', started', running')
    <3>1. ASSUME NEW j \in Interfaces
          PROVE  /\ \A u, v \in started'[j] \union held'[j] : u = v
                 /\ ~(started'[j] # {} /\ held'[j] # {})
                 /\ j \in running' <=> started'[j] \union held'[j] # {}
      <4>1. CASE j = i
        BY <2>3, <2>6, <4>1
      <4>2. CASE j # i
        BY <1>3, <2>3, <2>6, <4>2 DEF Marked
      <4> QED
        BY <4>1, <4>2
    <3> QED
      BY <3>1 DEF Marked
  <2>16. Clocks(timer', since') /\ Covered(held', timer', since')
    <3>1. ASSUME NEW j \in Interfaces
          PROVE  /\ Pace[j] \in Nat /\ since[j] \in Nat /\ timer[j] \in Nat
                 /\ since[j] <= Pace[j]
                 /\ held[j] # {} => timer[j] + since[j] >= Pace[j]
      BY PaceAssumption DEF Clocks, Covered
    <3>2. /\ timer' \in [Interfaces -> Nat] /\ since' \in [Interfaces -> Nat]
          /\ \A j \in Interfaces \ {i} : timer'[j] = timer[j] /\ since'[j] = since[j]
      <4>1. 0 \in Nat /\ (since[i] < Pace[i] => Pace[i] - since[i] \in Nat)
        BY <3>1
      <4>2. CASE since' = [since EXCEPT ![i] = 0] /\ timer' = timer
        BY <4>1, <4>2 DEF Clocks
      <4>3. CASE /\ since[i] < Pace[i] /\ since' = since
                 /\ timer' = [timer EXCEPT ![i] = Pace[i] - since[i]]
        BY <4>1, <4>3 DEF Clocks
      <4> QED
        BY <2>5, <4>2, <4>3
    <3>3. since'[i] <= Pace[i]
      BY <2>5, <3>1 DEF Clocks
    <3>4. held'[i] # {} => timer'[i] + since'[i] >= Pace[i]
      <4>1. held'[i] # {} => timer'[i] = Pace[i] - since[i] /\ since'[i] = since[i]
        BY <1>2, <2>4, <2>5 DEF Clocks
      <4> QED
        BY <3>1, <4>1
    <3> QED
      BY <2>6, <3>1, <3>2, <3>3, <3>4 DEF Clocks, Covered
  <2>17. \A j \in Interfaces : j \notin running' => pending'[j] = <<>>
    BY <1>1, <2>3, <2>7
  <2> QED
    BY <2>8, <2>13, <2>14, <2>15, <2>16, <2>17 DEF IInv, Kept
<1> QED
  BY <1>4, <1>5

-----------------------------------------------------------------------------
LEMMA InitKeeps == Init => IInv
  BY PaceAssumption
     DEF Init, IInv, Kept, Typed, EachOnce, EachOpen, Marked, Clocks, Covered,
         PromiseStates

(* A write that is enqueued is in no place before: its promise is not open.*)
LEMMA EnqueueKeeps ==
    ASSUME NEW i \in Interfaces, NEW t \in Tasks, IInv, Enqueue(i, t)
    PROVE  IInv'
<1> DEFINE q == Append(pending[i], t)
           P == [pending EXCEPT ![i] = q]
           S == [started EXCEPT ![i] = started[i]]
<1>1. /\ Kept(pending, held, started, running, promise)
      /\ Clocks(timer, since) /\ Covered(held, timer, since)
      /\ \A j \in Interfaces : j \notin running => pending[j] = <<>>
      /\ pending \in [Interfaces -> Seq(Tasks)]
      /\ started \in [Interfaces -> SUBSET Tasks]
  BY DEF IInv, Kept, Typed
<1>2. /\ promise[t] = "none" /\ promise' = [promise EXCEPT ![t] = "open"]
      /\ Drain(i, q, running, started[i])
  BY DEF Enqueue
<1>3. S = started
  BY <1>1
<1>4. /\ q \in Seq(Tasks) /\ Len(pending[i]) \in Nat /\ Len(q) = Len(pending[i]) + 1
      /\ q[Len(q)] = t
      /\ \A k \in 1..Len(pending[i]) : q[k] = pending[i][k]
  BY <1>1
<1>5. /\ P[i] = q /\ P \in [Interfaces -> Seq(Tasks)]
      /\ \A j \in Interfaces \ {i} : P[j] = pending[j]
  BY <1>1, <1>4
<1> HIDE DEF q, P
<1>6. ASSUME NEW j \in Interfaces, NEW k \in 1..Len(P[j])
      PROVE  \/ k \in 1..Len(pending[j]) /\ P[j][k] = pending[j][k]
             \/ j = i /\ k = Len(q) /\ P[j][k] = t
  <2>1. CASE j = i /\ k = Len(q)
    BY <1>4, <1>5, <2>1
  <2>2. CASE j = i /\ k # Len(q)
    BY <1>4, <1>5, <2>2
  <2>3. CASE j # i
    BY <1>5, <2>3
  <2> QED
    BY <2>1, <2>2, <2>3
<1>7. ASSUME NEW j \in Interfaces
      PROVE  /\ t \notin held[j] \union started[j]
             /\ \A k \in 1..Len(pending[j]) : pending[j][k] # t
  BY <1>1, <1>2 DEF Kept, EachOpen
<1>8. Typed(P, held, S, running, promise')
  BY <1>1, <1>2, <1>3, <1>5 DEF Kept, Typed, PromiseStates
<1>9. EachOnce(P, held, S)
  <2>1. ASSUME NEW j \in Interfaces, NEW k \in 1..Len(P[j]), NEW l \in 1..Len(P[j]),
               P[j][k] = P[j][l]
        PROVE  k = l
    BY <1>1, <1>6, <1>7, <2>1 DEF Kept, EachOnce
  <2>2. ASSUME NEW j \in Interfaces, NEW m \in Interfaces, j # m,
               NEW k \in 1..Len(P[j]), NEW l \in 1..Len(P[m])
        PROVE  P[j][k] # P[m][l]
    <3>1. CASE k \in 1..Len(pending[j]) /\ P[j][k] = pending[j][k]
      <4>1. CASE l \in 1..Len(pending[m]) /\ P[m][l] = pending[m][l]
        BY <1>1, <2>2, <3>1, <4>1 DEF Kept, EachOnce
      <4>2. CASE P[m][l] = t
        BY <1>7, <3>1, <4>2
      <4> QED
        BY <1>6, <4>1, <4>2
    <3>2. CASE j = i /\ P[j][k] = t
      BY <1>6, <1>7, <2>2, <3>2
    <3> QED
      BY <1>6, <3>1, <3>2
  <2>3. ASSUME NEW j \in Interfaces, NEW m \in Interfaces, NEW k \in 1..Len(P[j])
        PROVE  P[j][k] \notin held[m] \union S[m]
    BY SMTT(30), <1>1, <1>3, <1>6, <1>7 DEF Kept, EachOnce
  <2>4. ASSUME NEW j \in Interfaces, NEW m \in Interfaces, j # m,
               NEW u \in held[j] \union S[j]
        PROVE  u \notin held[m] \union S[m]
    BY <1>1, <1>3, <2>4 DEF Kept, EachOnce
  <2> QED
    BY <2>1, <2>2, <2>3, <2>4 DEF EachOnce
<1>10. EachOpen(P, held, S, promise')
  <2>1. promise'[t] = "open" /\ \A u : promise[u] = "open" /\ u \in Tasks => promise'[u] = "open"
    BY <1>1, <1>2 DEF Kept, Typed
  <2>2. ASSUME NEW j \in Interfaces, NEW k \in 1..Len(P[j])
        PROVE  promise'[P[j][k]] = "open"
    <3>1. CASE k \in 1..Len(pending[j]) /\ P[j][k] = pending[j][k]
      <4>1. promise[pending[j][k]] = "open" /\ pending[j][k] \in Tasks
        BY <1>1, <3>1 DEF Kept, EachOpen
      <4> QED
        BY <2>1, <3>1, <4>1
    <3>2. CASE P[j][k] = t
      BY <2>1, <3>2
    <3> QED
      BY <1>6, <3>1, <3>2
  <2>3. ASSUME NEW j \in Interfaces, NEW u \in held[j] \union S[j]
        PROVE  promise'[u] = "open"
    BY <1>1, <1>3, <2>1 DEF Kept, EachOpen, Typed
  <2> QED
    BY <2>2, <2>3 DEF EachOpen
<1>11. Kept(P, held, S, running, promise')
  BY <1>1, <1>3, <1>8, <1>9, <1>10 DEF Kept
<1> QED
  BY <1>1, <1>2, <1>11, DrainKeeps DEF P, q

(* The write that ends leaves its place before its promise settles.        *)
LEMMA SettleKeeps ==
    ASSUME NEW i \in Interfaces, NEW outcome \in {"resolved", "rejected"}, IInv,
           Settle(i, outcome)
    PROVE  IInv'
<1>1. /\ Kept(pending, held, started, running, promise)
      /\ Clocks(timer, since) /\ Covered(held, timer, since)
      /\ \A j \in Interfaces : j \notin running => pending[j] = <<>>
      /\ pending \in [Interfaces -> Seq(Tasks)]
      /\ started \in [Interfaces -> SUBSET Tasks]
  BY DEF IInv, Kept, Typed
<1>2. PICK t \in started[i] :
         /\ promise' = [promise EXCEPT ![t] = outcome]
         /\ Drain(i, pending[i], running \ {i}, started[i] \ {t})
  BY DEF Settle
<1> DEFINE P == [pending EXCEPT ![i] = pending[i]]
           S == [started EXCEPT ![i] = started[i] \ {t}]
<1>3. P = pending
  BY <1>1
<1>4. /\ t \in Tasks /\ S[i] = {} /\ held[i] = {}
      /\ S \in [Interfaces -> SUBSET Tasks]
      /\ \A j \in Interfaces \ {i} : S[j] = started[j]
  BY <1>1, <1>2 DEF Kept, Marked
<1> HIDE DEF P, S
<1>5. Typed(P, held, S, running \ {i}, promise')
  BY <1>1, <1>2, <1>3, <1>4 DEF Kept, Typed, PromiseStates
<1>6. EachOnce(P, held, S)
  <2>1. \A j \in Interfaces : S[j] \subseteq started[j]
    BY <1>4
  <2> QED
    BY <1>1, <1>3, <2>1 DEF Kept, EachOnce
<1>7. EachOpen(P, held, S, promise')
  <2>1. \A u \in Tasks : u # t /\ promise[u] = "open" => promise'[u] = "open"
    BY <1>1, <1>2 DEF Kept, Typed
  <2>2. ASSUME NEW j \in Interfaces, NEW k \in 1..Len(P[j])
        PROVE  promise'[P[j][k]] = "open"
    <3>1. P[j][k] # t /\ promise[P[j][k]] = "open"
      BY <1>1, <1>2, <1>3 DEF Kept, EachOnce, EachOpen
    <3>2. P[j][k] \in Tasks
      BY <1>1, <1>3
    <3> QED
      BY <2>1, <3>1, <3>2
  <2>3. ASSUME NEW j \in Interfaces, NEW u \in held[j] \union S[j]
        PROVE  promise'[u] = "open"
    <3>1. u \in held[j] \union started[j] /\ j # i /\ u \in Tasks
      BY <1>1, <1>4 DEF Kept, Typed
    <3>2. u # t /\ promise[u] = "open"
      BY <1>1, <1>2, <3>1 DEF Kept, EachOnce, EachOpen
    <3> QED
      BY <2>1, <3>1, <3>2
  <2> QED
    BY <2>2, <2>3 DEF EachOpen
<1>8. Marked(held, S, running \ {i})
  <2>1. ASSUME NEW j \in Interfaces
        PROVE  /\ \A u, v \in S[j] \union held[j] : u = v
               /\ ~(S[j] # {} /\ held[j] # {})
               /\ j \in running \ {i} <=> S[j] \union held[j] # {}
    <3>1. CASE j = i
      BY <1>4, <3>1
    <3>2. CASE j # i
      BY <1>1, <1>4, <3>2 DEF Kept, Marked
    <3> QED
      BY <3>1, <3>2
  <2> QED
    BY <2>1 DEF Marked
<1>9. Kept(P, held, S, running \ {i}, promise')
  BY <1>5, <1>6, <1>7, <1>8 DEF Kept
<1>10. \A j \in Interfaces \ {i} : j \notin running \ {i} => pending[j] = <<>>
  BY <1>1
<1>11. P = [pending EXCEPT ![i] = pending[i]] /\ S = [started EXCEPT ![i] = started[i] \ {t}]
  BY DEF P, S
<1> QED
  BY <1>1, <1>2, <1>9, <1>10, <1>11, DrainKeeps

LEMMA TimerKeeps ==
    ASSUME NEW i \in Interfaces, IInv, TimerFires(i)
    PROVE  IInv'
<1>1. /\ Kept(pending, held, started, running, promise)
      /\ Clocks(timer, since) /\ Covered(held, timer, since)
      /\ \A j \in Interfaces : j \notin running => pending[j] = <<>>
  BY DEF IInv
<1>2. PICK t \in held[i] :
         /\ held' = [held EXCEPT ![i] = held[i] \ {t}]
         /\ started' = [started EXCEPT ![i] = started[i] \union {t}]
         /\ since' = [since EXCEPT ![i] = 0]
         /\ UNCHANGED <<pending, running, timer, promise>>
  BY DEF TimerFires, Run
<1>3. /\ held \in [Interfaces -> SUBSET Tasks] /\ started \in [Interfaces -> SUBSET Tasks]
      /\ started[i] = {} /\ held[i] = {t} /\ t \in Tasks
  BY <1>1, <1>2 DEF Kept, Typed, Marked
<1>4. /\ held' \in [Interfaces -> SUBSET Tasks] /\ started' \in [Interfaces -> SUBSET Tasks]
      /\ held'[i] = {} /\ started'[i] = {t}
      /\ \A j \in Interfaces \ {i} : held'[j] = held[j] /\ started'[j] = started[j]
  BY <1>2, <1>3
<1>5. \A j \in Interfaces : held'[j] \union started'[j] = held[j] \union started[j]
  BY <1>3, <1>4
<1>6. Typed(pending', held', started', running', promise')
  BY <1>1, <1>2, <1>4 DEF Kept, Typed
<1>7. EachOnce(pending', held', started')
  BY <1>1, <1>2, <1>5 DEF Kept, EachOnce
<1>8. EachOpen(pending', held', started', promise')
  BY <1>1, <1>2, <1>5 DEF Kept, EachOpen
<1>9. Marked(held', started', running')
  BY <1>1, <1>2, <1>3, <1>4 DEF Kept, Marked
<1>10. Clocks(timer', since') /\ Covered(held', timer', since')
  BY <1>1, <1>2, <1>4, PaceAssumption DEF Clocks, Covered
<1> QED
  BY <1>1, <1>2, <1>6, <1>7, <1>8, <1>9, <1>10 DEF IInv, Kept

LEMMA CancelKeeps ==
    ASSUME NEW names \in SUBSET Interfaces, IInv, Cancel(names)
    PROVE  IInv'
<1>1. /\ Kept(pending, held, started, running, promise)
      /\ Clocks(timer, since) /\ Covered(held, timer, since)
      /\ \A j \in Interfaces : j \notin running => pending[j] = <<>>
      /\ pending \in [Interfaces -> Seq(Tasks)]
  BY DEF IInv, Kept, Typed
<1>2. /\ UNCHANGED <<held, running, started, timer, since>>
      /\ pending' = [i \in Interfaces |-> IF i \in names THEN <<>> ELSE pending[i]]
      /\ promise' = [t \in Tasks |->
                       IF \E i \in names : t \in CancelledIn(i) THEN "cancelled"
                                                                ELSE promise[t]]
  BY DEF Cancel
<1>3. pending' \in [Interfaces -> Seq(Tasks)]
  BY <1>1, <1>2
<1>4. \A j \in Interfaces : \A k \in 1..Len(pending'[j]) :
         j \notin names /\ k \in 1..Len(pending[j]) /\ pending'[j][k] = pending[j][k]
  BY <1>2
<1>5. Typed(pending', held', started', running', promise')
  BY <1>1, <1>2, <1>3 DEF Kept, Typed, PromiseStates
<1>6. EachOnce(pending', held', started')
  BY <1>1, <1>2, <1>4 DEF Kept, EachOnce
<1>7. EachOpen(pending', held', started', promise')
  <2>1. ASSUME NEW u \in Tasks, promise[u] = "open",
               \A i \in names : \A k \in 1..Len(pending[i]) : pending[i][k] # u
        PROVE  promise'[u] = "open"
    <3>1. \A i \in names : DOMAIN pending[i] = 1..Len(pending[i])
      BY <1>1
    <3>2. \A i \in names : u \notin CancelledIn(i)
      BY <2>1, <3>1 DEF CancelledIn
    <3> QED
      BY <1>2, <2>1, <3>2
  <2>2. ASSUME NEW j \in Interfaces, NEW k \in 1..Len(pending'[j])
        PROVE  promise'[pending'[j][k]] = "open"
    <3>1. /\ pending[j][k] \in Tasks /\ promise[pending[j][k]] = "open"
          /\ k \in 1..Len(pending[j]) /\ j \notin names /\ pending'[j][k] = pending[j][k]
      BY <1>1, <1>4 DEF Kept, EachOpen
    <3>2. \A i \in names : \A l \in 1..Len(pending[i]) : pending[i][l] # pending[j][k]
      BY <1>1, <3>1 DEF Kept, EachOnce
    <3> QED
      BY <2>1, <3>1, <3>2
  <2>3. ASSUME NEW j \in Interfaces, NEW u \in held'[j] \union started'[j]
        PROVE  promise'[u] = "open"
    <3>1. u \in Tasks /\ u \in held[j] \union started[j] /\ promise[u] = "open"
      BY <1>1, <1>2 DEF Kept, Typed, EachOpen
    <3>2. \A i \in names : \A l \in 1..Len(pending[i]) : pending[i][l] # u
      BY <1>1, <3>1 DEF Kept, EachOnce
    <3> QED
      BY <2>1, <3>1, <3>2
  <2> QED
    BY <2>2, <2>3 DEF EachOpen
<1> QED
  BY <1>1, <1>2, <1>5, <1>6, <1>7 DEF IInv, Kept

LEMMA TickKeeps ==
    ASSUME IInv, Tick
    PROVE  IInv'
<1>1. ASSUME NEW j \in Interfaces
      PROVE  /\ Pace[j] \in Nat /\ since[j] \in Nat /\ timer[j] \in Nat
             /\ since[j] <= Pace[j]
             /\ held[j] # {} => timer[j] + since[j] >= Pace[j]
  BY PaceAssumption DEF IInv, Clocks, Covered
<1>2. UNCHANGED <<pending, held, running, started, promise>>
  BY DEF Tick
<1>3. Clocks(timer', since')
  BY <1>1 DEF Tick, Clocks
<1>4. Covered(held', timer', since')
  BY <1>1, <1>2 DEF Tick, Covered
<1> QED
  BY <1>2, <1>3, <1>4 DEF IInv

LEMMA StutterKeeps == IInv /\ UNCHANGED vars => IInv'
  BY DEF IInv, vars

LEMMA StepKeeps == IInv /\ [Next]_vars => IInv'
<1> SUFFICES ASSUME IInv, [Next]_vars PROVE IInv'
  OBVIOUS
<1>1. ASSUME NEW i \in Interfaces, NEW t \in Tasks, Enqueue(i, t) PROVE IInv'
  BY <1>1, EnqueueKeeps
<1>2. ASSUME NEW i \in Interfaces, TimerFires(i) PROVE IInv'
  BY <1>2, TimerKeeps
<1>3. ASSUME NEW i \in Interfaces, NEW outcome \in {"resolved", "rejected"},
             Settle(i, outcome)
      PROVE  IInv'
  BY <1>3, SettleKeeps
<1>4. ASSUME NEW names \in SUBSET Interfaces, Cancel(names) PROVE IInv'
  BY <1>4, CancelKeeps
<1>5. CASE Tick
  BY <1>5, TickKeeps
<1>6. CASE UNCHANGED vars
  BY <1>6, StutterKeeps
<1> QED
  BY <1>1, <1>2, <1>3, <1>4, <1>5, <1>6 DEF Next

LEMMA AlwaysIInv == Spec => []IInv
  BY InitKeeps, StepKeeps, PTL DEF Spec

-----------------------------------------------------------------------------
(* The variables of the queue keep their types.                            *)
THEOREM TypeCorrect == Spec => []TypeOK
<1>1. IInv => TypeOK
  BY DEF IInv, Kept, Typed, Clocks, TypeOK
<1> QED
  BY <1>1, AlwaysIInv, PTL

(* #running keeps a second write of an interface from being taken off its  *)
(* queue: whatever is enqueued, cancelled or fails, and in whatever order, *)
(* at most one write of an interface is on the wire or waits for its pace. *)
THEOREM WritesDoNotOverlap == Spec => []OneAtATime
<1>1. IInv => OneAtATime
  BY DEF IInv, Kept, Marked, OneAtATime
<1> QED
  BY <1>1, AlwaysIInv, PTL

(* #finish() and #drain() leave no write behind a free interface and no    *)
(* interface marked that has nothing under way.                            *)
THEOREM QueueIsNeverStuck == Spec => []NeverStuck
<1>1. IInv => NeverStuck
  BY DEF IInv, Kept, Marked, NeverStuck
<1> QED
  BY <1>1, AlwaysIInv, PTL

(* Two writes of an interface start at least its pace apart.               *)
THEOREM PaceIsKept == Spec => PaceKept
<1>1. ASSUME IInv, [Next]_vars, NEW i \in Interfaces, started'[i] \ started[i] # {}
      PROVE  since[i] >= Pace[i]
  <2>1. /\ started \in [Interfaces -> SUBSET Tasks]
        /\ Pace[i] \in Nat /\ since[i] \in Nat /\ timer[i] \in Nat
        /\ held[i] # {} => timer[i] + since[i] >= Pace[i]
    BY <1>1, PaceAssumption DEF IInv, Kept, Typed, Clocks, Covered
  <2>2. ASSUME NEW j \in Interfaces, NEW q, NEW busy, NEW alive \in SUBSET started[j],
               Drain(j, q, busy, alive)
        PROVE  since[i] >= Pace[i]
    <3>1. CASE started' = [started EXCEPT ![j] = alive]
      BY <1>1, <2>1, <2>2, <3>1
    <3>2. CASE WaitFor(j) = 0 /\ Run(j, Head(q), alive)
      <4>1. i = j
        BY <1>1, <2>1, <3>2 DEF Run
      <4> QED
        BY <2>1, <3>2, <4>1 DEF WaitFor
    <3> QED
      BY <2>2, <3>1, <3>2 DEF Drain
  <2>3. ASSUME NEW j \in Interfaces, NEW t \in Tasks, Enqueue(j, t)
        PROVE  since[i] >= Pace[i]
    BY <2>2, <2>3 DEF Enqueue
  <2>4. ASSUME NEW j \in Interfaces, NEW outcome, Settle(j, outcome)
        PROVE  since[i] >= Pace[i]
    BY <2>2, <2>4 DEF Settle
  <2>5. ASSUME NEW j \in Interfaces, TimerFires(j)
        PROVE  since[i] >= Pace[i]
    <3>1. PICK t \in held[j] :
             timer[j] = 0 /\ started' = [started EXCEPT ![j] = started[j] \union {t}]
      BY <2>5 DEF TimerFires, Run
    <3>2. i = j
      BY <1>1, <2>1, <3>1
    <3> QED
      BY <2>1, <3>1, <3>2
  <2>6. ASSUME NEW names, Cancel(names) PROVE FALSE
    BY <1>1, <2>6 DEF Cancel
  <2>7. CASE Tick
    BY <1>1, <2>7 DEF Tick
  <2>8. CASE UNCHANGED vars
    BY <1>1, <2>8 DEF vars
  <2> QED
    BY <1>1, <2>3, <2>4, <2>5, <2>6, <2>7, <2>8 DEF Next
<1>2. IInv /\ [Next]_vars =>
         [\A i \in Interfaces : started'[i] \ started[i] # {} => since[i] >= Pace[i]]_vars
  BY <1>1
<1> QED
  BY <1>2, AlwaysIInv, PTL DEF Spec, PaceKept

(* What the caller was told stays true: a rejected write is never sent     *)
(* afterwards, and a promise never settles a second time.                  *)
THEOREM PromisesSettleOnce == Spec => SettledForGood
<1> DEFINE Settled(t) == promise[t] \in {"resolved", "rejected", "cancelled"}
<1>1. ASSUME IInv, [Next]_vars, NEW t \in Tasks, Settled(t)
      PROVE  promise'[t] = promise[t]
  <2>1. /\ promise \in [Tasks -> PromiseStates]
        /\ started \in [Interfaces -> SUBSET Tasks]
        /\ pending \in [Interfaces -> Seq(Tasks)]
        /\ \A i \in Interfaces : t \notin started[i]
        /\ \A i \in Interfaces : \A k \in 1..Len(pending[i]) : pending[i][k] # t
    BY <1>1 DEF IInv, Kept, Typed, EachOpen
  <2>2. ASSUME NEW i \in Interfaces, NEW u \in Tasks, Enqueue(i, u)
        PROVE  promise'[t] = promise[t]
    BY <1>1, <2>1, <2>2 DEF Enqueue
  <2>3. ASSUME NEW i \in Interfaces, NEW outcome, Settle(i, outcome)
        PROVE  promise'[t] = promise[t]
    BY <2>1, <2>3 DEF Settle
  <2>4. ASSUME NEW names \in SUBSET Interfaces, Cancel(names)
        PROVE  promise'[t] = promise[t]
    <3>1. \A i \in names : t \notin CancelledIn(i)
      <4>1. \A i \in names : pending[i] \in Seq(Tasks)
        BY <2>1
      <4>2. \A i \in names : DOMAIN pending[i] = 1..Len(pending[i])
        BY <4>1
      <4> QED
        BY <2>1, <4>2 DEF CancelledIn
    <3> QED
      BY <2>4, <3>1 DEF Cancel
  <2>5. ASSUME NEW i \in Interfaces, TimerFires(i) PROVE promise'[t] = promise[t]
    BY <2>5 DEF TimerFires
  <2>6. CASE Tick
    BY <2>6 DEF Tick
  <2>7. CASE UNCHANGED vars
    BY <2>7 DEF vars
  <2> QED
    BY <1>1, <2>2, <2>3, <2>4, <2>5, <2>6, <2>7 DEF Next
<1>2. ASSUME IInv, [Next]_vars, NEW t \in Tasks, Settled(t), NEW i \in Interfaces
      PROVE  t \notin started'[i]
  <2>1. IInv'
    BY <1>2, StepKeeps
  <2>2. promise'[t] # "open"
    BY <1>1, <1>2
  <2> QED
    BY <2>1, <2>2 DEF IInv, Kept, EachOpen
<1>3. IInv /\ [Next]_vars =>
         [\A t \in Tasks :
             promise[t] \in {"resolved", "rejected", "cancelled"}
                 => /\ promise'[t] = promise[t]
                    /\ \A i \in Interfaces : t \notin started'[i]]_vars
  BY <1>1, <1>2
<1> QED
  BY <1>3, AlwaysIInv, PTL DEF Spec, SettledForGood

-----------------------------------------------------------------------------
(* A task is in a place of one of the interfaces.                          *)
Placed(t, P, H, S) ==
    \E i \in Interfaces :
        \/ t \in H[i] \union S[i]
        \/ \E k \in 1..Len(P[i]) : P[i][k] = t

OpenIsPlaced ==
    \A t \in Tasks : promise[t] = "open" => Placed(t, pending, held, started)

(* #drain() moves the first task of a queue and drops none.                *)
LEMMA DrainLosesNone ==
    ASSUME NEW i \in Interfaces, NEW q \in Seq(Tasks), NEW busy, NEW alive, NEW t,
           pending \in [Interfaces -> Seq(Tasks)],
           held \in [Interfaces -> SUBSET Tasks],
           started \in [Interfaces -> SUBSET Tasks],
           Drain(i, q, busy, alive),
           \/ \E k \in 1..Len(q) : q[k] = t
           \/ t \in alive
           \/ t \in held[i]
           \/ \E j \in Interfaces \ {i} :
                 t \in held[j] \union started[j] \/ \E k \in 1..Len(pending[j]) : pending[j][k] = t
    PROVE  Placed(t, pending', held', started')
<1>1. \A j \in Interfaces \ {i} :
         pending'[j] = pending[j] /\ held'[j] = held[j] /\ started'[j] = started[j]
  BY DEF Drain, Run
<1>2. held[i] \subseteq held'[i] /\ alive \subseteq started'[i]
  BY DEF Drain, Run
<1>3. ASSUME NEW k \in 1..Len(q), q[k] = t
      PROVE  t \in held'[i] \union started'[i] \/ \E l \in 1..Len(pending'[i]) : pending'[i][l] = t
  <2>1. CASE NothingToStart(i, q, busy)
    BY <1>3, <2>1 DEF Drain
  <2>2. CASE ~NothingToStart(i, q, busy)
    <3>1. q # <<>> /\ pending'[i] = Tail(q)
      BY <2>2 DEF NothingToStart, Drain
    <3>2. CASE k = 1
      <4>1. Head(q) = t
        BY <1>3, <3>1, <3>2, TailElements
      <4>2. Head(q) \in held'[i] \/ Head(q) \in started'[i]
        BY <2>2 DEF Drain, Run
      <4>3. QED
        BY <4>1, <4>2
    <3>3. CASE k # 1
      <4>1. Len(q) \in Nat /\ Len(Tail(q)) = Len(q) - 1 /\ q \in Seq(Tasks)
            /\ \A l \in 1..Len(Tail(q)) : Tail(q)[l] = q[l + 1]
        BY <3>1, TailElements
      <4>2. k - 1 \in 1..Len(Tail(q)) /\ Tail(q)[k - 1] = t
        BY <1>3, <3>3, <4>1
      <4>3. QED
        BY <3>1, <4>2
    <3>4. QED
      BY <3>2, <3>3
  <2>3. QED
    BY <2>1, <2>2
<1>4. QED
  BY <1>1, <1>2, <1>3 DEF Placed

LEMMA OpenStaysPlaced ==
    ASSUME IInv, OpenIsPlaced, [Next]_vars
    PROVE  OpenIsPlaced'
<1>0. /\ pending \in [Interfaces -> Seq(Tasks)]
      /\ held \in [Interfaces -> SUBSET Tasks]
      /\ started \in [Interfaces -> SUBSET Tasks]
      /\ promise \in [Tasks -> PromiseStates]
  BY DEF IInv, Kept, Typed
<1>1. ASSUME NEW i \in Interfaces, NEW t \in Tasks, Enqueue(i, t)
      PROVE  OpenIsPlaced'
  <2> DEFINE q == Append(pending[i], t)
  <2>1. /\ q \in Seq(Tasks) /\ pending[i] \in Seq(Tasks) /\ Len(q) \in 1..Len(q) /\ q[Len(q)] = t
        /\ \A k \in 1..Len(pending[i]) : k \in 1..Len(q) /\ q[k] = pending[i][k]
    BY <1>0
  <2>2. Drain(i, q, running, started[i]) /\ promise' = [promise EXCEPT ![t] = "open"]
    BY <1>1 DEF Enqueue
  <2> HIDE DEF q
  <2>3. ASSUME NEW u \in Tasks, promise'[u] = "open"
        PROVE  Placed(u, pending', held', started')
    <3>1. CASE u = t
      BY <1>0, <2>1, <2>2, <3>1, DrainLosesNone
    <3>2. CASE u # t
      <4>1. PICK j \in Interfaces :
               u \in held[j] \union started[j] \/ \E k \in 1..Len(pending[j]) : pending[j][k] = u
        BY <1>0, <2>2, <2>3, <3>2 DEF OpenIsPlaced, Placed
      <4>2. \/ \E k \in 1..Len(q) : q[k] = u
            \/ u \in started[i]
            \/ u \in held[i]
            \/ \E m \in Interfaces \ {i} :
                  u \in held[m] \union started[m] \/ \E k \in 1..Len(pending[m]) : pending[m][k] = u
        BY <2>1, <4>1
      <4>3. QED
        BY <1>0, <2>1, <2>2, <4>2, DrainLosesNone
    <3>3. QED
      BY <3>1, <3>2
  <2>4. QED
    BY <2>3 DEF OpenIsPlaced
<1>2. ASSUME NEW i \in Interfaces, NEW outcome \in {"resolved", "rejected"}, Settle(i, outcome)
      PROVE  OpenIsPlaced'
  <2>1. PICK t \in started[i] :
           /\ promise' = [promise EXCEPT ![t] = outcome]
           /\ Drain(i, pending[i], running \ {i}, started[i] \ {t})
    BY <1>2 DEF Settle
  <2>2. ASSUME NEW u \in Tasks, promise'[u] = "open"
        PROVE  Placed(u, pending', held', started')
    <3>1. u # t /\ promise[u] = "open"
      BY <1>0, <2>1, <2>2
    <3>2. PICK j \in Interfaces :
             u \in held[j] \union started[j] \/ \E k \in 1..Len(pending[j]) : pending[j][k] = u
      BY <3>1 DEF OpenIsPlaced, Placed
    <3>3. \/ \E k \in 1..Len(pending[i]) : pending[i][k] = u
          \/ u \in started[i] \ {t}
          \/ u \in held[i]
          \/ \E m \in Interfaces \ {i} :
                u \in held[m] \union started[m] \/ \E k \in 1..Len(pending[m]) : pending[m][k] = u
      BY <3>1, <3>2
    <3>4. pending[i] \in Seq(Tasks)
      BY <1>0
    <3>5. QED
      BY <1>0, <2>1, <3>3, <3>4, DrainLosesNone
  <2>3. QED
    BY <2>2 DEF OpenIsPlaced
<1>3. ASSUME NEW i \in Interfaces, TimerFires(i) PROVE OpenIsPlaced'
  <2>1. PICK t \in held[i] :
           /\ held' = [held EXCEPT ![i] = held[i] \ {t}]
           /\ started' = [started EXCEPT ![i] = started[i] \union {t}]
           /\ UNCHANGED <<pending, promise>>
    BY <1>3 DEF TimerFires, Run
  <2>2. \A j \in Interfaces : held[j] \union started[j] \subseteq held'[j] \union started'[j]
    BY <1>0, <2>1
  <2>3. QED
    BY <2>1, <2>2 DEF OpenIsPlaced, Placed
<1>4. ASSUME NEW names \in SUBSET Interfaces, Cancel(names) PROVE OpenIsPlaced'
  <2>1. /\ UNCHANGED <<held, started>>
        /\ pending' = [i \in Interfaces |-> IF i \in names THEN <<>> ELSE pending[i]]
        /\ promise' = [t \in Tasks |->
                         IF \E i \in names : t \in CancelledIn(i) THEN "cancelled"
                                                                  ELSE promise[t]]
    BY <1>4 DEF Cancel
  <2>2. ASSUME NEW u \in Tasks, promise'[u] = "open"
        PROVE  Placed(u, pending', held', started')
    <3>1. promise[u] = "open" /\ \A i \in names : u \notin CancelledIn(i)
      BY <2>1, <2>2
    <3>2. \A i \in names : \A k \in 1..Len(pending[i]) : pending[i][k] # u
      <4>1. \A i \in names : DOMAIN pending[i] = 1..Len(pending[i])
        BY <1>0
      <4>2. QED
        BY <3>1, <4>1 DEF CancelledIn
    <3>3. PICK j \in Interfaces :
             u \in held[j] \union started[j] \/ \E k \in 1..Len(pending[j]) : pending[j][k] = u
      BY <3>1 DEF OpenIsPlaced, Placed
    <3>4. j \notin names => pending'[j] = pending[j]
      BY <2>1
    <3>5. QED
      BY <2>1, <3>2, <3>3, <3>4 DEF Placed
  <2>3. QED
    BY <2>2 DEF OpenIsPlaced
<1>5. CASE Tick \/ UNCHANGED vars
  BY <1>5 DEF Tick, vars, OpenIsPlaced
<1>6. QED
  BY <1>1, <1>2, <1>3, <1>4, <1>5 DEF Next

LEMMA AlwaysPlaced == Spec => []OpenIsPlaced
<1>1. Init => OpenIsPlaced
  BY DEF Init, OpenIsPlaced
<1>2. IInv /\ OpenIsPlaced /\ [Next]_vars => OpenIsPlaced'
  BY OpenStaysPlaced
<1>3. QED
  BY <1>1, <1>2, AlwaysIInv, PTL DEF Spec

(* A write whose caller waits is on the wire, waits for the pace with a    *)
(* timer that covers it, or is queued behind such a one.                   *)
WaitsForAWrite ==
    \A t \in Tasks : promise[t] = "open" =>
        \E i \in Interfaces :
            \/ t \in started[i]
            \/ t \in held[i] /\ timer[i] + since[i] >= Pace[i]
            \/ t \in CancelledIn(i) /\ started[i] \union held[i] # {}

(* #drain(), cancel(): no caller is left with a promise that nothing will  *)
(* settle, whatever is enqueued, ends, fails or is cancelled.              *)
THEOREM NoWriteIsLost == Spec => []WaitsForAWrite
<1>1. IInv /\ OpenIsPlaced => WaitsForAWrite
  <2> SUFFICES ASSUME IInv, OpenIsPlaced, NEW t \in Tasks, promise[t] = "open"
               PROVE  \E i \in Interfaces :
                         \/ t \in started[i]
                         \/ t \in held[i] /\ timer[i] + since[i] >= Pace[i]
                         \/ t \in CancelledIn(i) /\ started[i] \union held[i] # {}
    BY DEF WaitsForAWrite
  <2>1. PICK i \in Interfaces :
           t \in held[i] \union started[i] \/ \E k \in 1..Len(pending[i]) : pending[i][k] = t
    BY DEF OpenIsPlaced, Placed
  <2>2. CASE t \in held[i] \union started[i]
    BY <2>2 DEF IInv, Covered
  <2>3. CASE \E k \in 1..Len(pending[i]) : pending[i][k] = t
    <3>1. pending[i] \in Seq(Tasks)
      BY DEF IInv, Kept, Typed
    <3>2. t \in CancelledIn(i) /\ pending[i] # <<>>
      BY <2>3, <3>1 DEF CancelledIn
    <3>3. started[i] \union held[i] # {}
      BY <3>2 DEF IInv, Kept, Marked
    <3>4. QED
      BY <3>2, <3>3
  <2>4. QED
    BY <2>1, <2>2, <2>3
<1>2. QED
  BY <1>1, AlwaysIInv, AlwaysPlaced, PTL
=============================================================================
