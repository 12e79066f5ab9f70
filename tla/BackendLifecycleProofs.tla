----------------------- MODULE BackendLifecycleProofs -----------------------
(***************************************************************************)
(* Proofs about BackendLifecycle for any number of saves and visits.  What *)
(* lives and what stop() leaves is proved for one client that saves at a   *)
(* time: with two the run backend_two_saves refutes it.                    *)
(***************************************************************************)
EXTENDS BackendLifecycle, TLAPS

OneSaver == \A c, d \in Savers : c = d

Live(n) == phase[n] \in {"starting", "up", "stopping"}
NoneLives == \A n \in Connections \ dropped : phase[n] \notin {"starting", "up"}

(* Probing counts as long as nobody else has connected or disconnected.    *)
Probing(c) == At(c, "probing") /\ job[c].seq = seq

(* Between the stop of the old manager and the next connection.            *)
Gone == {"settling", "closing", "saving", "loading", "returned"}
Replacing == {"leaving", "settling", "closing", "saving", "loading"}

NoStore == metaStarting = 0 /\ meta = 0 /\ open = {}

(* Which steps a caller can be at.                                         *)
StepsInv ==
    /\ job["start"].at \in {"ready", "probing", "starting", "asking", "naming", "returned"}
    /\ job["stop"].at \in {"ready", "leaving", "settling", "closing", "returned"}
    /\ \A c \in Savers : job[c].at # "returned"
    /\ stopped <=> ~At("stop", "ready")

SeqInv == \A c \in Callers : At(c, "probing") => job[c].seq <= seq

(* A manager is started by one caller, who has not asked for its names.    *)
HeldInv ==
    \A c \in Callers : job[c].at \in {"starting", "asking"} =>
        job[c].on # 0 /\ phase[job[c].on] # "none" /\ names[job[c].on] = "none"

ApartInv ==
    \A c, d \in Callers :
        /\ job[c].at \in {"starting", "asking"} /\ job[d].at \in {"starting", "asking"}
        /\ job[c].on = job[d].on
        => c = d

(* Nothing is connected before start().                                    *)
StartInv ==
    At("start", "ready") =>
        /\ manager = 0 /\ \A n \in Connections : phase[n] = "none"
        /\ \A c \in Callers \ {"start"} : At(c, "ready")
        /\ NoStore

(* One caller at most connects, and none while another replaces.           *)
OneProbes == \A c, d \in Callers : Probing(c) /\ Probing(d) => c = d
NoneWhileReplacing == \A c \in Savers : job[c].at \in Replacing => \A d \in Callers : ~Probing(d)
ProbesFromNothing == \A c \in Callers : Probing(c) => job[c].for = config /\ manager = 0

(* What a manager that is replaced or stopped leaves.                      *)
LiveHeld == \A n \in Connections \ dropped : Live(n) => n = manager
HeldExists ==
    /\ manager # 0 => phase[manager] # "none"
    /\ \A n \in idle : phase[n] # "none"
DownInv ==
    /\ stopped => NoneLives
    /\ \A c \in Callers : job[c].at \in Replacing => NoneLives
LeavingHeld == \A c \in Callers : At(c, "leaving") => manager \in {0, job[c].on}
GoneInv == \A c \in Callers : c # "start" /\ job[c].at \in Gone => manager = 0

(* The store follows the manager in use.                                   *)
NamesInv == \A n \in Connections : names[n] # "none" => phase[n] # "none"
StoreFollows == \A n \in Connections : store[n] \in {"creating", "starting"} => n = metaStarting
OpensOnce == \A n \in Connections : store[n] = "creating" => open = {}
BeforeNames == manager # 0 /\ names[manager] # "answered" => NoStore
BeforeConnect ==
    /\ \A c \in Callers : Probing(c) /\ ~stopped => NoStore
    /\ \A c \in Savers : job[c].at \in {"saving", "loading"} => NoStore
SettlingHeld == \A c \in Callers : At(c, "settling") => metaStarting \in {0, job[c].on}
ClosedInv ==
    \A c \in Callers : c # "start" /\ job[c].at \in {"closing", "returned"} => metaStarting = 0 /\ open = {}
OpenIsHeld == open \subseteq {meta}

Rest ==
    /\ StepsInv /\ SeqInv /\ HeldInv /\ ApartInv /\ StartInv
    /\ OneProbes /\ NoneWhileReplacing /\ ProbesFromNothing
    /\ LiveHeld /\ HeldExists /\ DownInv /\ LeavingHeld /\ GoneInv
    /\ NamesInv /\ StoreFollows /\ OpensOnce /\ BeforeNames /\ BeforeConnect
    /\ SettlingHeld /\ ClosedInv /\ OpenIsHeld
    /\ ConnectionIsTheSavedOne /\ AttendedIsSubscribed

IInv == TypeOK /\ Rest

LEMMA InitInv == Init => IInv
<1> SUFFICES ASSUME Init PROVE IInv
  OBVIOUS
<1>0. /\ "start" \in Callers /\ "stop" \in Callers /\ "start" \notin Savers /\ "stop" \notin Savers
      /\ MaxConnections \in Nat /\ MaxSaves \in Nat /\ MaxVisits \in Nat
  BY BoundsAssumption DEF Callers, MaxConnections
<1>1. TypeOK
  <2>1. job \in [Callers -> [at : Steps, on : 0..MaxConnections, seq : Nat, for : Nat]]
    BY <1>0 DEF Init, Steps
  <2>2. /\ 0 \in Nat /\ 0 \in 0..MaxSaves /\ 0 \in 0..MaxVisits /\ 0 \in 0..MaxConnections
        /\ FALSE \in BOOLEAN
    BY <1>0
  <2>3. /\ phase \in [Connections -> {"none", "starting", "up", "failed", "stopping", "stopped"}]
        /\ madeFor \in [Connections -> Nat] /\ subscribing \in [Connections -> Nat]
        /\ names \in [Connections -> {"none", "asked", "answered"}]
        /\ store \in [Connections -> {"none", "creating", "starting", "settled"}]
    BY <2>2 DEF Init
  <2>4. idle \subseteq Connections /\ open \subseteq Connections /\ dropped \subseteq Connections
    BY DEF Init
  <2> QED
    BY <2>1, <2>2, <2>3, <2>4 DEF Init, TypeOK
<1>2. /\ StepsInv /\ SeqInv /\ HeldInv /\ ApartInv /\ StartInv
      /\ OneProbes /\ NoneWhileReplacing /\ ProbesFromNothing
  BY <1>0 DEF Init, StepsInv, SeqInv, HeldInv, ApartInv, StartInv, OneProbes, NoneWhileReplacing,
     ProbesFromNothing, At, Probing, Replacing, NoStore, Callers
<1>3. /\ LiveHeld /\ HeldExists /\ DownInv /\ LeavingHeld /\ GoneInv
      /\ NamesInv /\ StoreFollows /\ OpensOnce /\ BeforeNames /\ BeforeConnect
      /\ SettlingHeld /\ ClosedInv /\ OpenIsHeld
   BY <1>0 DEF Init, LiveHeld, HeldExists, DownInv, LeavingHeld, GoneInv, NamesInv,
     StoreFollows, OpensOnce,
     BeforeNames, BeforeConnect, SettlingHeld, ClosedInv, OpenIsHeld,
     At, Probing, Replacing, Gone, NoStore, NoneLives, Live, Callers
<1>4. ConnectionIsTheSavedOne /\ AttendedIsSubscribed
  BY DEF Init, ConnectionIsTheSavedOne, AttendedIsSubscribed
<1> QED
  BY <1>1, <1>2, <1>3, <1>4 DEF IInv, Rest

-----------------------------------------------------------------------------
JobRecords == [at : Steps, on : 0..MaxConnections, seq : Nat, for : Nat]
Others(c) == \A d \in Callers : d # c => job'[d] = job[d]

LEMMA Names ==
    /\ "start" \in Callers /\ "stop" \in Callers /\ "start" \notin Savers /\ "stop" \notin Savers
    /\ Savers \subseteq Callers /\ \A c \in Callers : c \in Savers \/ c = "start" \/ c = "stop"
    /\ MaxConnections \in Nat /\ MaxSaves \in Nat /\ 0 \notin Connections
    /\ Connections = 1..MaxConnections
    /\ \A n \in 0..MaxConnections : n # 0 => n \in Connections
    /\ \A n \in Connections : n \in 0..MaxConnections /\ n \in Nat
  BY BoundsAssumption DEF Callers, MaxConnections, Connections

LEMMA Going ==
    ASSUME TypeOK, NEW c \in Callers, NEW at \in Steps, GoTo(c, at)
    PROVE  /\ Others(c) /\ job'[c].at = at /\ job'[c].on = job[c].on
           /\ job'[c].seq = job[c].seq /\ job'[c].for = job[c].for
           /\ job' \in [Callers -> JobRecords]
<1>1. job \in [Callers -> JobRecords] /\ job[c] \in JobRecords
  BY DEF TypeOK, JobRecords
<1>2. job' = [job EXCEPT ![c] = [job[c] EXCEPT !.at = at]]
  BY <1>1 DEF GoTo
<1>3. Others(c) /\ job'[c] = [job[c] EXCEPT !.at = at]
  BY <1>1, <1>2 DEF Others
<1>4. [job[c] EXCEPT !.at = at] \in JobRecords
  BY <1>1 DEF JobRecords
<1>5. /\ job'[c].at = at /\ job'[c].on = job[c].on
      /\ job'[c].seq = job[c].seq /\ job'[c].for = job[c].for
  BY <1>1, <1>3 DEF JobRecords
<1> QED
  BY <1>1, <1>2, <1>3, <1>4, <1>5

LEMMA Waiting ==
    ASSUME TypeOK, NEW c \in Callers, NEW at \in Steps, NEW n \in 0..MaxConnections, WaitFor(c, at, n)
    PROVE  /\ Others(c) /\ job'[c].at = at /\ job'[c].on = n
           /\ job' \in [Callers -> JobRecords]
<1>1. job \in [Callers -> JobRecords] /\ job[c] \in JobRecords
  BY DEF TypeOK, JobRecords
<1>2. job' = [job EXCEPT ![c] = [job[c] EXCEPT !.at = at, !.on = n]]
  BY <1>1 DEF WaitFor
<1>3. Others(c) /\ job'[c] = [job[c] EXCEPT !.at = at, !.on = n]
  BY <1>1, <1>2 DEF Others
<1>4. [job[c] EXCEPT !.at = at, !.on = n] \in JobRecords
  BY <1>1 DEF JobRecords
<1>5. job'[c].at = at /\ job'[c].on = n
  BY <1>1, <1>3 DEF JobRecords
<1> QED
  BY <1>1, <1>2, <1>3, <1>4, <1>5

LEMMA Returning ==
    ASSUME TypeOK, NEW c \in Callers, Return(c)
    PROVE  /\ Others(c)
           /\ c \in Savers => job'[c].at = "ready"
           /\ c \notin Savers => job'[c].at = "returned"
           /\ job' \in [Callers -> JobRecords]
<1>1. job \in [Callers -> JobRecords]
  BY DEF TypeOK, JobRecords
<1>2. [at |-> IF c \in Savers THEN "ready" ELSE "returned", on |-> 0, seq |-> 0, for |-> 0] \in JobRecords
  BY Names DEF JobRecords, Steps
<1> QED
  BY <1>1, <1>2 DEF Return, Others

LEMMA TimersCleared ==
    ASSUME TypeOK, ClearTimers
    PROVE  idleTimer' \in BOOLEAN /\ held' \in BOOLEAN /\ intervals' \in Nat /\ ~held'
<1>1. idleTimer' = FALSE /\ held' = FALSE
  BY DEF ClearTimers
<1>2. ASSUME held PROVE intervals' \in Nat
  <2>1. intervals \in Nat /\ intervals > 0
    BY <1>2 DEF TypeOK
  <2>2. intervals' = intervals - 1
    BY <1>2 DEF ClearTimers
  <2> QED
    BY <2>1, <2>2
<1>3. ASSUME ~held PROVE intervals' \in Nat
  BY <1>3 DEF TypeOK, ClearTimers
<1>4. intervals' \in Nat
  BY <1>2, <1>3
<1> QED
  BY <1>1, <1>4

LEMMA PollingStarted ==
    ASSUME TypeOK, StartServiceMessagePolling
    PROVE  held' \in BOOLEAN /\ intervals' \in Nat /\ intervals' > 0
  BY DEF TypeOK, StartServiceMessagePolling

Phases == {"none", "starting", "up", "failed", "stopping", "stopped"}

LEMMA ManagerLeft ==
    ASSUME TypeOK, StopManager(manager)
    PROVE  /\ phase' \in [Connections -> Phases]
           /\ \A n \in Connections : phase'[n] # "none" <=> phase[n] # "none"
           /\ \A n \in Connections : n # manager => phase'[n] = phase[n]
           /\ manager # 0 => phase'[manager] \notin {"starting", "up"}
  BY Names DEF TypeOK, StopManager, Phases

-----------------------------------------------------------------------------
(* The types.                                                              *)

LEMMA MakeManagerTyped ==
    ASSUME TypeOK, NEW c \in Callers, NEW for \in Nat, MakeManager(c, for)
    PROVE  /\ manager' \in 0..MaxConnections /\ madeFor' \in [Connections -> Nat]
           /\ phase' \in [Connections -> {"none", "starting", "up", "failed", "stopping", "stopped"}]
           /\ idle' \subseteq Connections /\ dropped' \subseteq Connections
           /\ job' \in [Callers -> JobRecords] /\ UNCHANGED config
<1>1. PICK n \in Connections :
        /\ manager' = n
        /\ phase' = [phase EXCEPT ![n] = "starting"]
        /\ madeFor' = [madeFor EXCEPT ![n] = for]
        /\ job' = [job EXCEPT ![c] = [at |-> "starting", on |-> n, seq |-> job[c].seq, for |-> for]]
        /\ UNCHANGED <<config, idle, dropped>>
  BY DEF MakeManager
<1>2. job[c].seq \in Nat
  BY DEF TypeOK
<1>3. [at |-> "starting", on |-> n, seq |-> job[c].seq, for |-> for] \in JobRecords
  BY <1>2, Names DEF JobRecords, Steps
<1>4. job' \in [Callers -> JobRecords]
  BY <1>1, <1>3 DEF TypeOK, JobRecords
<1>5. idle' \subseteq Connections /\ dropped' \subseteq Connections
  BY <1>1 DEF TypeOK
<1> QED
  BY <1>1, <1>4, <1>5, Names DEF TypeOK

LEMMA ConnectTyped ==
    ASSUME TypeOK, NEW c \in Callers, Connect(c)
    PROVE  /\ manager' \in 0..MaxConnections /\ madeFor' \in [Connections -> Nat]
           /\ phase' \in [Connections -> {"none", "starting", "up", "failed", "stopping", "stopped"}]
           /\ idle' \subseteq Connections /\ dropped' \subseteq Connections
           /\ job' \in [Callers -> JobRecords] /\ UNCHANGED config /\ seq' \in Nat
<1>1. config \in Nat /\ seq \in Nat /\ seq' = seq + 1
  BY DEF TypeOK, Connect
<1>2. CASE MakeManager(c, config)
  BY <1>1, <1>2, MakeManagerTyped
<1>3. CASE /\ job' = [job EXCEPT ![c] = [at |-> "probing", on |-> 0, seq |-> seq + 1, for |-> config]]
           /\ UNCHANGED <<config, manager, phase, idle, madeFor, dropped>>
  <2>1. [at |-> "probing", on |-> 0, seq |-> seq + 1, for |-> config] \in JobRecords
    BY <1>1, Names DEF JobRecords, Steps
  <2> QED
    BY <1>1, <1>3, <2>1 DEF TypeOK, JobRecords
<1> QED
  BY <1>2, <1>3 DEF Connect

LEMMA TypeStep ==
    ASSUME TypeOK, [Next]_vars
    PROVE  TypeOK'
<1> USE Names DEF JobRecords
<1>0. Steps = {"ready", "probing", "starting", "asking", "naming", "leaving", "settling",
               "closing", "saving", "loading", "returned"}
  BY DEF Steps
<1>1. CASE Start
  BY <1>1, ConnectTyped, Returning DEF Start, connection, taxonomy, attention, TypeOK
<1>2. CASE Stop
  <2>1. job' \in [Callers -> JobRecords]
    BY <1>0, <1>2, Waiting DEF Stop, TypeOK
  <2>2. phase' \in [Connections -> Phases] /\ \A n \in Connections : phase'[n] # "none" <=> phase[n] # "none"
    BY <1>2, ManagerLeft DEF Stop
  <2>3. idleTimer' \in BOOLEAN /\ held' \in BOOLEAN /\ intervals' \in Nat /\ ~held'
    BY <1>2, TimersCleared DEF Stop
  <2> QED
    BY <1>2, <2>1, <2>2, <2>3 DEF Stop, taxonomy, TypeOK, Phases
<1>3. CASE PageOpens
  <2>1. visits' \in 0..MaxVisits
    BY <1>3, BoundsAssumption DEF PageOpens, TypeOK
  <2>2. /\ idle' \subseteq Connections
        /\ subscribing' \in [Connections -> Nat]
    <3>1. CASE UNCHANGED <<idle, subscribing>>
      BY <3>1 DEF TypeOK
    <3>2. CASE idle' = idle \ {manager} /\ manager \in idle
               /\ subscribing' = [subscribing EXCEPT ![manager] = @ + 1]
      <4>1. subscribing \in [Connections -> Nat] /\ manager \in Connections
            /\ idle \subseteq Connections
        BY <3>2 DEF TypeOK
      <4> QED
        BY <3>2, <4>1
    <3> QED
      BY <1>3, <3>1, <3>2 DEF PageOpens, Resubscribe
  <2> QED
    BY <1>3, <2>1, <2>2 DEF PageOpens, taxonomy, TypeOK
<1>4. CASE PageCloses
  BY <1>4 DEF PageCloses, ArmIdleTimer, taxonomy, connection, TypeOK
<1>5. CASE GraceOver
  <2>1. idleTimer' \in BOOLEAN /\ held' \in BOOLEAN /\ intervals' \in Nat /\ (held' => intervals' > 0)
    BY <1>5, TimersCleared DEF GraceOver, TypeOK
  <2>2. idle' \subseteq Connections
    <3>1. CASE idle' = idle \union {manager} /\ manager # 0
      BY <3>1 DEF TypeOK
    <3>2. CASE idle' = idle
      BY <3>2 DEF TypeOK
    <3> QED
      BY <1>5, <3>1, <3>2 DEF GraceOver
  <2> QED
    BY <1>5, <2>1, <2>2 DEF GraceOver, taxonomy, TypeOK
<1>6. ASSUME NEW c \in Callers, Save(c) \/ CallerStep(c)
      PROVE  TypeOK'
  <2>1. CASE Save(c)
    <3>1. job' \in [Callers -> JobRecords]
      BY <1>0, <2>1, Waiting DEF Save, TypeOK
    <3>2. phase' \in [Connections -> Phases] /\ \A n \in Connections : phase'[n] # "none" <=> phase[n] # "none"
      BY <2>1, ManagerLeft DEF Save
    <3>3. idleTimer' \in BOOLEAN /\ held' \in BOOLEAN /\ intervals' \in Nat /\ ~held'
      BY <2>1, TimersCleared DEF Save
    <3> QED
      <4>1. saves' \in 0..MaxSaves /\ seq' \in Nat
        BY <2>1 DEF Save, TypeOK
      <4> QED
        BY <2>1, <3>1, <3>2, <3>3, <4>1 DEF Save, taxonomy, TypeOK, Phases
  <2>2. CASE Probed(c)
    <3>1. job[c].for \in Nat
      BY DEF TypeOK
    <3> QED
      BY <2>2, <3>1, MakeManagerTyped, Returning DEF Probed, taxonomy, attention, TypeOK
  <2>3. CASE ManagerStarted(c)
    <3>1. job' \in [Callers -> JobRecords]
      BY <2>3, <1>0, Going DEF ManagerStarted, TypeOK
    <3> QED
      BY <2>3, <3>1 DEF ManagerStarted, taxonomy, attention, TypeOK
  <2>4. CASE StartFails(c)
    <3>1. job' \in [Callers -> JobRecords]
      BY <2>4, Returning DEF StartFails, TypeOK
    <3> QED
      <4>1. /\ phase' \in [Connections -> {"none", "starting", "up", "failed", "stopping", "stopped"}]
            /\ manager' \in 0..MaxConnections
        <5>1. job[c].on \in 0..MaxConnections
          BY DEF TypeOK
        <5>2. phase \in [Connections -> {"none", "starting", "up", "failed", "stopping", "stopped"}]
          BY DEF TypeOK
        <5>3. manager' = 0 /\ (phase' = phase \/ phase' = [phase EXCEPT ![job[c].on] = "failed"])
          BY <2>4 DEF StartFails
        <5> QED
          BY <5>2, <5>3
      <4>2. dropped' \subseteq Connections
        BY <2>4 DEF StartFails, TypeOK
      <4> QED
        BY <2>4, <3>1, <4>1, <4>2 DEF StartFails, taxonomy, attention, TypeOK
  <2>5. CASE HostKnown(c)
    <3>1. job' \in [Callers -> JobRecords]
      BY <2>5, <1>0, Going, Returning DEF HostKnown, TypeOK
    <3> QED
      BY <2>5, <3>1 DEF HostKnown, connection, attention, TypeOK
  <2>6. CASE Connected(c)
    <3>1. job' \in [Callers -> JobRecords]
      BY <2>6, Returning DEF Connected
    <3>2. held' \in BOOLEAN /\ intervals' \in Nat /\ (held' => intervals' > 0)
      BY <2>6, PollingStarted DEF Connected, TypeOK
    <3>3. idleTimer' \in BOOLEAN
      BY <2>6 DEF Connected, ArmIdleTimer, TypeOK
    <3> QED
      BY <2>6, <3>1, <3>2, <3>3 DEF Connected, connection, taxonomy, TypeOK
  <2>7. CASE Left(c)
    <3>1. job' \in [Callers -> JobRecords]
      BY <2>7, <1>0, Waiting DEF Left, TypeOK
    <3> QED
      <4>1. manager' \in 0..MaxConnections
        BY <2>7 DEF Left
      <4> QED
        BY <2>7, <3>1, <4>1 DEF Left, taxonomy, attention, TypeOK
  <2>8. CASE CloseStore(c)
    <3>1. job' \in [Callers -> JobRecords]
      BY <2>8, <1>0, Going DEF CloseStore, TypeOK
    <3> QED
      <4>1. metaStarting' \in 0..MaxConnections /\ open' \subseteq Connections
        BY <2>8 DEF CloseStore, TypeOK
      <4> QED
        BY <2>8, <3>1, <4>1 DEF CloseStore, connection, attention, TypeOK
  <2>9. CASE StoreClosed(c)
    <3>1. job' \in [Callers -> JobRecords]
      BY <2>9, <1>0, Going, Returning DEF StoreClosed, TypeOK
    <3> QED
      <4>1. meta' \in 0..MaxConnections /\ config' \in Nat
        BY <2>9 DEF StoreClosed, TypeOK
      <4> QED
        BY <2>9, <3>1, <4>1 DEF StoreClosed, attention, TypeOK
  <2>10. CASE Saved(c)
    <3>1. job' \in [Callers -> JobRecords]
      BY <2>10, <1>0, Going, Returning DEF Saved, TypeOK
    <3> QED
      BY <2>10, <3>1 DEF Saved, connection, taxonomy, attention, TypeOK
  <2>11. CASE Reconnect(c)
    BY <2>11, ConnectTyped, Returning DEF Reconnect, connection, taxonomy, attention, TypeOK
  <2> QED
    BY <1>6, <2>1, <2>2, <2>3, <2>4, <2>5, <2>6, <2>7, <2>8, <2>9, <2>10, <2>11 DEF CallerStep
<1>7. ASSUME NEW n \in Connections, ConnectionStep(n)
      PROVE  TypeOK'
  <2>1. CASE NamesAnswered(n)
    BY <2>1 DEF NamesAnswered, connection, attention, TypeOK
  <2>2. CASE StoreCreated(n)
    BY ZenonT(40), <2>2 DEF StoreCreated, connection, attention, TypeOK
  <2>3. CASE StoreStarted(n)
    BY <2>3 DEF StoreStarted, connection, attention, TypeOK
  <2>4. CASE ManagerStopped(n)
    BY <2>4 DEF ManagerStopped, taxonomy, attention, TypeOK
  <2>5. CASE Resubscribed(n)
    <3>1. held' \in BOOLEAN /\ intervals' \in Nat /\ intervals' > 0
      BY <2>5, PollingStarted DEF Resubscribed
    <3>2. subscribing' \in [Connections -> Nat]
      BY SMTT(30), <2>5 DEF Resubscribed, TypeOK
    <3> QED
      BY <2>5, <3>1, <3>2 DEF Resubscribed, connection, taxonomy, TypeOK
  <2> QED
    BY <1>7, <2>1, <2>2, <2>3, <2>4, <2>5 DEF ConnectionStep
<1>8. CASE UNCHANGED vars
  BY <1>8 DEF vars, connection, taxonomy, attention, TypeOK
<1> QED
  BY <1>1, <1>2, <1>3, <1>4, <1>5, <1>6, <1>7, <1>8 DEF Next

-----------------------------------------------------------------------------
(* Each step keeps the rest.                                              *)

LEMMA Typed ==
    ASSUME TypeOK
    PROVE  /\ phase \in [Connections -> Phases] /\ madeFor \in [Connections -> Nat]
           /\ names \in [Connections -> {"none", "asked", "answered"}]
           /\ store \in [Connections -> {"none", "creating", "starting", "settled"}]
           /\ manager \in 0..MaxConnections /\ metaStarting \in 0..MaxConnections
           /\ seq \in Nat /\ \A c \in Callers : job[c].seq \in Nat /\ job[c].on \in 0..MaxConnections
           /\ idle \subseteq Connections /\ open \subseteq Connections
  BY DEF TypeOK, Phases

LEMMA ProbesKept ==
    ASSUME TypeOK, SeqInv, NEW c \in Callers, Others(c), job'[c].at # "probing", seq' \in {seq, seq + 1}
    PROVE  \A d \in Callers : Probing(d)' => seq' = seq /\ d # c /\ Probing(d) /\ job'[d] = job[d]
  BY Typed DEF SeqInv, Others, Probing, At

LEMMA ApartKept ==
    ASSUME ApartInv, NEW c \in Callers, Others(c),
           job'[c].at \in {"starting", "asking"}
                => job[c].at \in {"starting", "asking"} /\ job'[c].on = job[c].on
    PROVE  ApartInv'
  BY DEF ApartInv, Others

LEMMA StopStep ==
    ASSUME IInv, TypeOK', Stop
    PROVE  Rest'
<1>0. TypeOK /\ Rest
  BY DEF IInv
<1>1. /\ At("stop", "ready") /\ ~At("start", "ready") /\ stopped' = TRUE
      /\ Others("stop") /\ job'["stop"].at = "leaving" /\ job'["stop"].on = manager
  BY <1>0, Names, Waiting DEF Stop, TypeOK, Steps
<1>2. /\ \A n \in Connections : phase'[n] # "none" <=> phase[n] # "none"
      /\ \A n \in Connections : n # manager => phase'[n] = phase[n]
      /\ manager # 0 => phase'[manager] \notin {"starting", "up"}
  BY <1>0, Names, ManagerLeft DEF Stop
<1>3. UNCHANGED <<config, seq, manager, idle, madeFor, dropped, names, store, metaStarting, meta, open, watched>>
  BY <1>0, Names DEF Stop, taxonomy
<1>4. \A d \in Callers : Probing(d)' => seq' = seq /\ d # "stop" /\ Probing(d) /\ job'[d] = job[d]
  BY <1>0, <1>1, <1>2, <1>3, Names, ProbesKept DEF Rest
<1>5. StepsInv'
  BY <1>0, <1>1, <1>2, <1>3, Names, Typed DEF StepsInv, Rest, At, Others
<1>6. SeqInv'
  BY <1>0, <1>1, <1>2, <1>3, Names, Typed DEF SeqInv, Rest, StepsInv, At, Others
<1>7. HeldInv'
    BY SMTT(30), <1>0, <1>1, <1>2, <1>3, Names, Typed DEF HeldInv, Rest, StepsInv, At, ApartInv,
      NamesInv,
     Others
<1>8. ApartInv'
  BY <1>0, <1>1, <1>2, <1>3, Names, ApartKept DEF Rest, At
<1>9. StartInv'
   BY <1>0, <1>1, <1>2, <1>3, Names, Typed DEF StartInv, Rest, StepsInv, At, NoStore,
     StoreFollows, Others
<1>10. OneProbes'
  BY <1>0, <1>1, <1>2, <1>3, <1>4, Names, Typed DEF OneProbes, Rest, StepsInv, At, Others
<1>11. NoneWhileReplacing'
   BY <1>0, <1>1, <1>2, <1>3, <1>4, Names, Typed DEF NoneWhileReplacing, Rest, StepsInv, At,
     Replacing, Others
<1>12. ProbesFromNothing'
   BY <1>0, <1>1, <1>2, <1>3, <1>4, Names, Typed DEF ProbesFromNothing, Rest, StepsInv, At,
     NoneWhileReplacing, Replacing, Others
<1>13. LiveHeld'
   BY <1>0, <1>1, <1>2, <1>3, Names, Typed DEF LiveHeld, Rest, StepsInv, Live, At, LeavingHeld,
     DownInv, NoneLives, Replacing, Others
<1>14. HeldExists'
  BY <1>0, <1>1, <1>2, <1>3, Names, Typed DEF HeldExists, Rest, StepsInv, Others
<1>15. DownInv'
   BY <1>0, <1>1, <1>2, <1>3, Names, Typed DEF DownInv, Rest, StepsInv, NoneLives, At,
     Replacing, LiveHeld, Live, Others
<1>16. LeavingHeld'
   BY <1>0, <1>1, <1>2, <1>3, Names, Typed DEF LeavingHeld, Rest, StepsInv, At, GoneInv, Gone,
     Others
<1>17. GoneInv'
  BY <1>0, <1>1, <1>2, <1>3, Names, Typed DEF GoneInv, Rest, StepsInv, At, Gone, Others
<1>18. NamesInv'
  BY <1>0, <1>1, <1>2, <1>3, Names, Typed DEF NamesInv, Rest, StepsInv, At, HeldInv, Others
<1>19. StoreFollows'
   BY <1>0, <1>1, <1>2, <1>3, Names, Typed DEF StoreFollows, Rest, StepsInv, At, SettlingHeld,
     BeforeNames, NoStore, Others
<1>20. OpensOnce'
   BY <1>0, <1>1, <1>2, <1>3, Names, Typed DEF OpensOnce, Rest, StepsInv, StoreFollows,
     BeforeNames, NoStore, Others
<1>21. BeforeNames'
   BY <1>0, <1>1, <1>2, <1>3, Names, Typed DEF BeforeNames, Rest, StepsInv, NoStore, At,
     GoneInv, Gone, StoreFollows, Others
<1>22. BeforeConnect'
   BY <1>0, <1>1, <1>2, <1>3, <1>4, Names, Typed DEF BeforeConnect, Rest, StepsInv, NoStore,
     GoneInv, Gone, At, ClosedInv, NoneWhileReplacing, Replacing, ProbesFromNothing,
     StoreFollows, Others
<1>23. SettlingHeld'
   BY <1>0, <1>1, <1>2, <1>3, Names, Typed DEF SettlingHeld, Rest, StepsInv, At, GoneInv, Gone,
     Others
<1>24. ClosedInv'
   BY <1>0, <1>1, <1>2, <1>3, Names, Typed DEF ClosedInv, Rest, StepsInv, At, GoneInv, Gone,
     OpenIsHeld, StoreFollows, Others
<1>25. OpenIsHeld'
   BY <1>0, <1>1, <1>2, <1>3, Names, Typed DEF OpenIsHeld, Rest, StepsInv, At, ClosedInv,
     OpensOnce, StoreFollows, Others
<1>26. ConnectionIsTheSavedOne'
   BY <1>0, <1>1, <1>2, <1>3, Names, Typed DEF ConnectionIsTheSavedOne, Rest, StepsInv, At,
     GoneInv, Gone, Others
<1>27. AttendedIsSubscribed'
  BY <1>0, <1>1, <1>2, <1>3, Names, Typed DEF AttendedIsSubscribed, Rest, StepsInv, Others
<1> QED
   BY <1>5, <1>6, <1>7, <1>8, <1>9, <1>10, <1>11, <1>12, <1>13, <1>14, <1>15, <1>16, <1>17,
     <1>18, <1>19, <1>20, <1>21, <1>22, <1>23, <1>24, <1>25, <1>26, <1>27 DEF Rest

LEMMA SaveStep ==
    ASSUME IInv, TypeOK', NEW c \in Callers, Save(c)
    PROVE  Rest'
<1>0. TypeOK /\ Rest
  BY DEF IInv
<1>1. /\ c \in Savers /\ At(c, "ready") /\ At("stop", "ready") /\ ~At("start", "ready")
      /\ Others(c) /\ job'[c].at = "leaving" /\ job'[c].on = manager /\ seq' = seq + 1
  BY <1>0, Names, Waiting DEF Save, TypeOK, Steps
<1>2. /\ \A n \in Connections : phase'[n] # "none" <=> phase[n] # "none"
      /\ \A n \in Connections : n # manager => phase'[n] = phase[n]
      /\ manager # 0 => phase'[manager] \notin {"starting", "up"}
  BY <1>0, Names, ManagerLeft DEF Save
<1>3. UNCHANGED <<stopped, config, manager, idle, madeFor, dropped, names, store, metaStarting, meta, open, watched>>
  BY <1>0, Names DEF Save, taxonomy
<1>4. \A d \in Callers : Probing(d)' => seq' = seq /\ d # c /\ Probing(d) /\ job'[d] = job[d]
  BY <1>0, <1>1, <1>2, <1>3, Names, ProbesKept DEF Rest
<1>5. StepsInv'
  <2>1. StepsInv
    BY <1>0 DEF Rest
  <2>2. /\ job'["start"] = job["start"] /\ job'["stop"] = job["stop"] /\ stopped' = stopped
        /\ \A d \in Savers : d = c \/ job'[d] = job[d]
    BY <1>1, <1>3, Names DEF Others
  <2> QED
    BY <2>1, <2>2, <1>1 DEF StepsInv, At
<1>6. SeqInv'
  BY <1>0, <1>1, <1>2, <1>3, Names, Typed DEF SeqInv, Rest, StepsInv, At, Others
<1>7. HeldInv'
   BY <1>0, <1>1, <1>2, <1>3, Names, Typed DEF HeldInv, Rest, StepsInv, At, ApartInv, NamesInv,
     Others
<1>8. ApartInv'
  BY <1>0, <1>1, <1>2, <1>3, Names, ApartKept DEF Rest, At
<1>9. StartInv'
   BY <1>0, <1>1, <1>2, <1>3, Names, Typed DEF StartInv, Rest, StepsInv, At, NoStore,
     StoreFollows, Others
<1>10. OneProbes'
  BY <1>0, <1>1, <1>2, <1>3, <1>4, Names, Typed DEF OneProbes, Rest, StepsInv, At, Others
<1>11. NoneWhileReplacing'
   BY <1>0, <1>1, <1>2, <1>3, <1>4, Names, Typed DEF NoneWhileReplacing, Rest, StepsInv, At,
     Replacing, Others
<1>12. ProbesFromNothing'
   BY <1>0, <1>1, <1>2, <1>3, <1>4, Names, Typed DEF ProbesFromNothing, Rest, StepsInv, At,
     NoneWhileReplacing, Replacing, Others
<1>13. LiveHeld'
   BY <1>0, <1>1, <1>2, <1>3, Names, Typed DEF LiveHeld, Rest, StepsInv, Live, At, LeavingHeld,
     DownInv, NoneLives, Replacing, Others
<1>14. HeldExists'
  BY <1>0, <1>1, <1>2, <1>3, Names, Typed DEF HeldExists, Rest, StepsInv, Others
<1>15. DownInv'
   BY <1>0, <1>1, <1>2, <1>3, Names, Typed DEF DownInv, Rest, StepsInv, NoneLives, At,
     Replacing, LiveHeld, Live, Others
<1>16. LeavingHeld'
   BY <1>0, <1>1, <1>2, <1>3, Names, Typed DEF LeavingHeld, Rest, StepsInv, At, GoneInv, Gone,
     Others
<1>17. GoneInv'
  BY <1>0, <1>1, <1>2, <1>3, Names, Typed DEF GoneInv, Rest, StepsInv, At, Gone, Others
<1>18. NamesInv'
  BY <1>0, <1>1, <1>2, <1>3, Names, Typed DEF NamesInv, Rest, StepsInv, At, HeldInv, Others
<1>19. StoreFollows'
   BY <1>0, <1>1, <1>2, <1>3, Names, Typed DEF StoreFollows, Rest, StepsInv, At, SettlingHeld,
     BeforeNames, NoStore, Others
<1>20. OpensOnce'
   BY <1>0, <1>1, <1>2, <1>3, Names, Typed DEF OpensOnce, Rest, StepsInv, StoreFollows,
     BeforeNames, NoStore, Others
<1>21. BeforeNames'
   BY <1>0, <1>1, <1>2, <1>3, Names, Typed DEF BeforeNames, Rest, StepsInv, NoStore, At,
     GoneInv, Gone, StoreFollows, Others
<1>22. BeforeConnect'
   BY <1>0, <1>1, <1>2, <1>3, <1>4, Names, Typed DEF BeforeConnect, Rest, StepsInv, NoStore,
     GoneInv, Gone, At, ClosedInv, NoneWhileReplacing, Replacing, ProbesFromNothing,
     StoreFollows, Others
<1>23. SettlingHeld'
   BY <1>0, <1>1, <1>2, <1>3, Names, Typed DEF SettlingHeld, Rest, StepsInv, At, GoneInv, Gone,
     Others
<1>24. ClosedInv'
   BY <1>0, <1>1, <1>2, <1>3, Names, Typed DEF ClosedInv, Rest, StepsInv, At, GoneInv, Gone,
     OpenIsHeld, StoreFollows, Others
<1>25. OpenIsHeld'
   BY <1>0, <1>1, <1>2, <1>3, Names, Typed DEF OpenIsHeld, Rest, StepsInv, At, ClosedInv,
     OpensOnce, StoreFollows, Others
<1>26. ConnectionIsTheSavedOne'
   BY <1>0, <1>1, <1>2, <1>3, Names, Typed DEF ConnectionIsTheSavedOne, Rest, StepsInv, At,
     GoneInv, Gone, Others
<1>27. AttendedIsSubscribed'
  BY <1>0, <1>1, <1>2, <1>3, Names, Typed DEF AttendedIsSubscribed, Rest, StepsInv, Others
<1> QED
   BY <1>5, <1>6, <1>7, <1>8, <1>9, <1>10, <1>11, <1>12, <1>13, <1>14, <1>15, <1>16, <1>17,
     <1>18, <1>19, <1>20, <1>21, <1>22, <1>23, <1>24, <1>25, <1>26, <1>27 DEF Rest

LEMMA ManagerStartedStep ==
    ASSUME IInv, TypeOK', NEW c \in Callers, ManagerStarted(c)
    PROVE  Rest'
<1>0. TypeOK /\ Rest
  BY DEF IInv
<1>1. /\ At(c, "starting") /\ Others(c) /\ job'[c].at = "asking" /\ job'[c].on = job[c].on
  BY <1>0, Names, Going DEF ManagerStarted, TypeOK, Steps
<1>2. /\ job[c].on \in Connections
      /\ phase[job[c].on] # "none" /\ names[job[c].on] = "none"
      /\ \/ phase' = phase
         \/ phase[job[c].on] = "starting" /\ phase' = [phase EXCEPT ![job[c].on] = "up"]
  BY <1>0, Names DEF ManagerStarted, Rest, HeldInv, At, TypeOK
<1>3. UNCHANGED <<stopped, config, seq, manager, idle, madeFor, dropped, names, store, metaStarting, meta, open, watched>>
  BY <1>0, Names DEF ManagerStarted, taxonomy, attention
<1>4. \A d \in Callers : Probing(d)' => seq' = seq /\ d # c /\ Probing(d) /\ job'[d] = job[d]
  BY <1>0, <1>1, <1>2, <1>3, Names, ProbesKept DEF Rest
<1>5. \A d \in Callers : d # c /\ job[d].at \in {"starting", "asking"} => job[d].on # job[c].on
  BY <1>0, <1>1, <1>2, <1>3, Names DEF Rest, ApartInv, At
<1>6. StepsInv'
  <2>1. c # "stop" /\ (c = "start" \/ c \in Savers)
    BY <1>0, <1>1, <1>2, <1>3, Names, Typed DEF StepsInv, Rest, At
  <2>2. job'["stop"] = job["stop"] /\ stopped' = stopped
    BY <1>0, <1>1, <1>2, <1>3, Names, Typed, <2>1 DEF Others
  <2>3. job'["start"] = job["start"] \/ job'["start"].at = "asking"
    BY <1>0, <1>1, <1>2, <1>3, Names, Typed DEF Others
  <2>4. \A d \in Savers : job'[d] = job[d] \/ job'[d].at = "asking"
    BY <1>0, <1>1, <1>2, <1>3, Names, Typed DEF Others
  <2>5. StepsInv
    BY <1>0 DEF Rest
  <2> QED
    BY <2>2, <2>3, <2>4, <2>5 DEF StepsInv, At
<1>7. SeqInv'
  BY <1>0, <1>1, <1>2, <1>3, Names, Typed DEF SeqInv, Rest, StepsInv, At, Others
<1>8. HeldInv'
  <2> SUFFICES ASSUME NEW d \in Callers, job'[d].at \in {"starting", "asking"}
               PROVE  job'[d].on # 0 /\ phase'[job'[d].on] # "none" /\ names'[job'[d].on] = "none"
    BY DEF HeldInv
  <2>1. \A n \in Connections : phase[n] # "none" => phase'[n] # "none"
    BY <1>0, <1>1, <1>2, <1>3, <1>5, Names, Typed
  <2>2. CASE d = c
    BY <1>0, <1>1, <1>2, <1>3, <1>5, Names, Typed, <2>1, <2>2
  <2>3. CASE d # c
    <3>1. job'[d] = job[d]
      BY <1>0, <1>1, <1>2, <1>3, <1>5, Names, Typed, <2>3 DEF Others
    <3>2. job[d].on # 0 /\ phase[job[d].on] # "none" /\ names[job[d].on] = "none"
      BY <1>0, <3>1 DEF Rest, HeldInv
    <3> QED
      BY <1>0, <1>1, <1>2, <1>3, <1>5, Names, Typed, <2>1, <3>1, <3>2
  <2> QED
    BY <2>2, <2>3
<1>9. ApartInv'
  BY <1>0, <1>1, <1>2, <1>3, Names, ApartKept DEF Rest, At
<1>10. StartInv'
   BY <1>0, <1>1, <1>2, <1>3, Names, Typed DEF StartInv, Rest, StepsInv, At, NoStore,
     StoreFollows, Others
<1>11. OneProbes'
  BY <1>0, <1>1, <1>2, <1>3, <1>4, Names, Typed DEF OneProbes, Rest, StepsInv, At, Others
<1>12. NoneWhileReplacing'
   BY <1>0, <1>1, <1>2, <1>3, <1>4, Names, Typed DEF NoneWhileReplacing, Rest, StepsInv, At,
     Replacing, Others
<1>13. ProbesFromNothing'
   BY <1>0, <1>1, <1>2, <1>3, <1>4, Names, Typed DEF ProbesFromNothing, Rest, StepsInv, At,
     NoneWhileReplacing, Replacing, Others
<1>14. LiveHeld'
   BY <1>0, <1>1, <1>2, <1>3, <1>5, Names, Typed DEF LiveHeld, Rest, StepsInv, Live, At,
     LeavingHeld, DownInv, NoneLives, Replacing, Others
<1>15. HeldExists'
  BY <1>0, <1>1, <1>2, <1>3, Names, Typed DEF HeldExists, Rest, StepsInv, Others
<1>16. DownInv'
   BY <1>0, <1>1, <1>2, <1>3, Names, Typed DEF DownInv, Rest, StepsInv, NoneLives, At,
     Replacing, LiveHeld, Live, Others
<1>17. LeavingHeld'
   BY <1>0, <1>1, <1>2, <1>3, Names, Typed DEF LeavingHeld, Rest, StepsInv, At, GoneInv, Gone,
     Others
<1>18. GoneInv'
  BY <1>0, <1>1, <1>2, <1>3, Names, Typed DEF GoneInv, Rest, StepsInv, At, Gone, Others
<1>19. NamesInv'
   BY ZenonT(40), <1>0, <1>1, <1>2, <1>3, Names, Typed DEF NamesInv, Rest, StepsInv, At,
     HeldInv, Others
<1>20. StoreFollows'
   BY <1>0, <1>1, <1>2, <1>3, Names, Typed DEF StoreFollows, Rest, StepsInv, At, SettlingHeld,
     BeforeNames, NoStore, Others
<1>21. OpensOnce'
   BY <1>0, <1>1, <1>2, <1>3, Names, Typed DEF OpensOnce, Rest, StepsInv, StoreFollows,
     BeforeNames, NoStore, Others
<1>22. BeforeNames'
   BY <1>0, <1>1, <1>2, <1>3, Names, Typed DEF BeforeNames, Rest, StepsInv, NoStore, At,
     GoneInv, Gone, StoreFollows, Others
<1>23. BeforeConnect'
   BY <1>0, <1>1, <1>2, <1>3, <1>4, Names, Typed DEF BeforeConnect, Rest, StepsInv, NoStore,
     GoneInv, Gone, At, ClosedInv, NoneWhileReplacing, Replacing, ProbesFromNothing,
     StoreFollows, Others
<1>24. SettlingHeld'
   BY <1>0, <1>1, <1>2, <1>3, Names, Typed DEF SettlingHeld, Rest, StepsInv, At, GoneInv, Gone,
     Others
<1>25. ClosedInv'
   BY <1>0, <1>1, <1>2, <1>3, Names, Typed DEF ClosedInv, Rest, StepsInv, At, GoneInv, Gone,
     OpenIsHeld, StoreFollows, Others
<1>26. OpenIsHeld'
   BY <1>0, <1>1, <1>2, <1>3, Names, Typed DEF OpenIsHeld, Rest, StepsInv, At, ClosedInv,
     OpensOnce, StoreFollows, Others
<1>27. ConnectionIsTheSavedOne'
   BY <1>0, <1>1, <1>2, <1>3, Names, Typed DEF ConnectionIsTheSavedOne, Rest, StepsInv, At,
     GoneInv, Gone, Others
<1>28. AttendedIsSubscribed'
  BY <1>0, <1>1, <1>2, <1>3, Names, Typed DEF AttendedIsSubscribed, Rest, StepsInv, Others
<1> QED
   BY <1>6, <1>7, <1>8, <1>9, <1>10, <1>11, <1>12, <1>13, <1>14, <1>15, <1>16, <1>17, <1>18,
     <1>19, <1>20, <1>21, <1>22, <1>23, <1>24, <1>25, <1>26, <1>27, <1>28 DEF Rest

LEMMA StartFailsStep ==
    ASSUME IInv, TypeOK', NEW c \in Callers, StartFails(c)
    PROVE  Rest'
<1>0. TypeOK /\ Rest
  BY DEF IInv
<1>1. /\ At(c, "starting") /\ Others(c)
      /\ c \in Savers => job'[c].at = "ready"
      /\ c \notin Savers => job'[c].at = "returned"
  BY <1>0, Names, Returning DEF StartFails, TypeOK, Steps
<1>2. /\ job[c].on \in Connections
      /\ phase[job[c].on] # "none" /\ names[job[c].on] = "none"
      /\ \/ phase[job[c].on] = "starting" /\ phase' = [phase EXCEPT ![job[c].on] = "failed"]
         \/ phase[job[c].on] # "starting" /\ phase' = phase
      /\ manager' = 0 /\ dropped \subseteq dropped'
      /\ \A m \in Connections : m = manager => m \in dropped' \/ phase'[m] = "failed"
  BY <1>0, Names DEF StartFails, Rest, HeldInv, At, TypeOK
<1>3. UNCHANGED <<stopped, config, seq, idle, madeFor, names, store, metaStarting, meta, open, watched>>
  BY <1>0, Names DEF StartFails, taxonomy, attention
<1>4. \A d \in Callers : Probing(d)' => seq' = seq /\ d # c /\ Probing(d) /\ job'[d] = job[d]
  BY <1>0, <1>1, <1>2, <1>3, Names, ProbesKept DEF Rest
<1>5. \A d \in Callers : d # c /\ job[d].at \in {"starting", "asking"} => job[d].on # job[c].on
  BY <1>0, <1>1, <1>2, <1>3, Names DEF Rest, ApartInv, At
<1>30. \A n \in Connections : phase'[n] # "none" <=> phase[n] # "none"
  BY <1>0, <1>2, Typed
<1>6. StepsInv'
  BY <1>0, <1>1, <1>3, Names, Typed DEF StepsInv, Rest, At, Others
<1>7. SeqInv'
  BY <1>0, <1>1, <1>2, <1>3, Names, Typed DEF SeqInv, Rest, StepsInv, At, Others
<1>8. HeldInv'
  BY <1>0, <1>1, <1>30, <1>3, <1>5, Names, Typed DEF HeldInv, Rest, StepsInv, At, NamesInv, Others
<1>9. ApartInv'
  BY <1>0, <1>1, <1>2, <1>3, Names, ApartKept DEF Rest, At
<1>10. StartInv'
   BY <1>0, <1>1, <1>2, <1>3, Names, Typed DEF StartInv, Rest, StepsInv, At, NoStore,
     StoreFollows, Others
<1>11. OneProbes'
  BY <1>0, <1>1, <1>2, <1>3, <1>4, Names, Typed DEF OneProbes, Rest, StepsInv, At, Others
<1>12. NoneWhileReplacing'
   BY <1>0, <1>1, <1>2, <1>3, <1>4, Names, Typed DEF NoneWhileReplacing, Rest, StepsInv, At,
     Replacing, Others
<1>13. ProbesFromNothing'
   BY <1>0, <1>1, <1>2, <1>3, <1>4, Names, Typed DEF ProbesFromNothing, Rest, StepsInv, At,
     NoneWhileReplacing, Replacing, Others
<1>14. LiveHeld'
   BY <1>0, <1>1, <1>2, <1>3, <1>5, Names, Typed DEF LiveHeld, Rest, StepsInv, Live, At,
     LeavingHeld, DownInv, NoneLives, Replacing, Others
<1>15. HeldExists'
  BY <1>0, <1>1, <1>2, <1>3, Names, Typed DEF HeldExists, Rest, StepsInv, Others
<1>16. DownInv'
   BY <1>0, <1>1, <1>2, <1>3, Names, Typed DEF DownInv, Rest, StepsInv, NoneLives, At,
     Replacing, LiveHeld, Live, Others
<1>17. LeavingHeld'
   BY <1>0, <1>1, <1>2, <1>3, Names, Typed DEF LeavingHeld, Rest, StepsInv, At, GoneInv, Gone,
     Others
<1>18. GoneInv'
  BY <1>0, <1>1, <1>2, <1>3, Names, Typed DEF GoneInv, Rest, StepsInv, At, Gone, Others
<1>19. NamesInv'
  BY <1>0, <1>3, <1>30 DEF NamesInv, Rest
<1>20. StoreFollows'
   BY <1>0, <1>1, <1>2, <1>3, Names, Typed DEF StoreFollows, Rest, StepsInv, At, SettlingHeld,
     BeforeNames, NoStore, Others
<1>21. OpensOnce'
   BY <1>0, <1>1, <1>2, <1>3, Names, Typed DEF OpensOnce, Rest, StepsInv, StoreFollows,
     BeforeNames, NoStore, Others
<1>22. BeforeNames'
   BY <1>0, <1>1, <1>2, <1>3, Names, Typed DEF BeforeNames, Rest, StepsInv, NoStore, At,
     GoneInv, Gone, StoreFollows, Others
<1>23. BeforeConnect'
   BY <1>0, <1>1, <1>2, <1>3, <1>4, Names, Typed DEF BeforeConnect, Rest, StepsInv, NoStore,
     GoneInv, Gone, At, ClosedInv, NoneWhileReplacing, Replacing, ProbesFromNothing,
     StoreFollows, Others
<1>24. SettlingHeld'
   BY <1>0, <1>1, <1>2, <1>3, Names, Typed DEF SettlingHeld, Rest, StepsInv, At, GoneInv, Gone,
     Others
<1>25. ClosedInv'
   BY <1>0, <1>1, <1>2, <1>3, Names, Typed DEF ClosedInv, Rest, StepsInv, At, GoneInv, Gone,
     OpenIsHeld, StoreFollows, Others
<1>26. OpenIsHeld'
   BY <1>0, <1>1, <1>2, <1>3, Names, Typed DEF OpenIsHeld, Rest, StepsInv, At, ClosedInv,
     OpensOnce, StoreFollows, Others
<1>27. ConnectionIsTheSavedOne'
   BY <1>0, <1>1, <1>2, <1>3, Names, Typed DEF ConnectionIsTheSavedOne, Rest, StepsInv, At,
     GoneInv, Gone, Others
<1>28. AttendedIsSubscribed'
  BY <1>0, <1>1, <1>2, <1>3, Names, Typed DEF AttendedIsSubscribed, Rest, StepsInv, Others
<1> QED
   BY <1>6, <1>7, <1>8, <1>9, <1>10, <1>11, <1>12, <1>13, <1>14, <1>15, <1>16, <1>17, <1>18,
     <1>19, <1>20, <1>21, <1>22, <1>23, <1>24, <1>25, <1>26, <1>27, <1>28 DEF Rest

LEMMA HostKnownStep ==
    ASSUME IInv, TypeOK', NEW c \in Callers, HostKnown(c)
    PROVE  Rest'
<1>0. TypeOK /\ Rest
  BY DEF IInv
<1>1. /\ At(c, "asking") /\ Others(c)
      /\ \/ /\ manager = job[c].on /\ names' = [names EXCEPT ![manager] = "asked"]
            /\ job'[c].at = "naming"
         \/ /\ (c \in Savers => job'[c].at = "ready") /\ (c \notin Savers => job'[c].at = "returned")
            /\ UNCHANGED names
  BY <1>0, Names, Going, Returning DEF HostKnown, TypeOK, Steps
<1>2. /\ job[c].on \in Connections
      /\ phase[job[c].on] # "none" /\ names[job[c].on] = "none"
  BY <1>0, Names DEF HostKnown, Rest, HeldInv, At, TypeOK
<1>3. UNCHANGED <<stopped, config, seq, manager, phase, idle, madeFor, dropped, store, metaStarting, meta, open, watched>>
  BY <1>0, Names DEF HostKnown, connection, attention
<1>4. \A d \in Callers : Probing(d)' => seq' = seq /\ d # c /\ Probing(d) /\ job'[d] = job[d]
  BY <1>0, <1>1, <1>2, <1>3, Names, ProbesKept DEF Rest
<1>5. \A d \in Callers : d # c /\ job[d].at \in {"starting", "asking"} => job[d].on # job[c].on
  BY <1>0, <1>1, <1>2, <1>3, Names DEF Rest, ApartInv, At
<1>6. StepsInv'
  BY <1>0, <1>1, <1>2, <1>3, Names, Typed DEF StepsInv, Rest, At, Others
<1>7. SeqInv'
  BY <1>0, <1>1, <1>2, <1>3, Names, Typed DEF SeqInv, Rest, StepsInv, At, Others
<1>8. HeldInv'
  <2> SUFFICES ASSUME NEW d \in Callers, job'[d].at \in {"starting", "asking"}
               PROVE  job'[d].on # 0 /\ phase'[job'[d].on] # "none" /\ names'[job'[d].on] = "none"
    BY DEF HeldInv
  <2>1. d # c
    BY <1>0, <1>1, <1>2, <1>3, <1>5, Names, Typed
  <2>2. job'[d] = job[d]
    BY <1>0, <1>1, <1>2, <1>3, <1>5, Names, Typed, <2>1 DEF Others
  <2>3. job[d].on # 0 /\ phase[job[d].on] # "none" /\ names[job[d].on] = "none"
    BY <1>0, <2>2 DEF Rest, HeldInv
  <2>4. names'[job[d].on] = names[job[d].on]
    <3>1. job[d].on \in Connections /\ job[d].on # job[c].on
      BY <1>0, <1>1, <1>2, <1>3, <1>5, Names, Typed, <2>1, <2>2, <2>3
    <3> QED
      BY <1>0, <1>1, <3>1, Typed
  <2> QED
    BY <1>0, <1>1, <1>2, <1>3, <1>5, Names, Typed, <2>2, <2>3, <2>4
<1>9. ApartInv'
  BY <1>0, <1>1, <1>2, <1>3, Names, ApartKept DEF Rest, At
<1>10. StartInv'
   BY <1>0, <1>1, <1>2, <1>3, Names, Typed DEF StartInv, Rest, StepsInv, At, NoStore,
     StoreFollows, Others
<1>11. OneProbes'
  BY <1>0, <1>1, <1>2, <1>3, <1>4, Names, Typed DEF OneProbes, Rest, StepsInv, At, Others
<1>12. NoneWhileReplacing'
   BY <1>0, <1>1, <1>2, <1>3, <1>4, Names, Typed DEF NoneWhileReplacing, Rest, StepsInv, At,
     Replacing, Others
<1>13. ProbesFromNothing'
   BY <1>0, <1>1, <1>2, <1>3, <1>4, Names, Typed DEF ProbesFromNothing, Rest, StepsInv, At,
     NoneWhileReplacing, Replacing, Others
<1>14. LiveHeld'
   BY <1>0, <1>1, <1>2, <1>3, <1>5, Names, Typed DEF LiveHeld, Rest, StepsInv, Live, At,
     LeavingHeld, DownInv, NoneLives, Replacing, Others
<1>15. HeldExists'
  BY <1>0, <1>1, <1>2, <1>3, Names, Typed DEF HeldExists, Rest, StepsInv, Others
<1>16. DownInv'
   BY <1>0, <1>1, <1>2, <1>3, Names, Typed DEF DownInv, Rest, StepsInv, NoneLives, At,
     Replacing, LiveHeld, Live, Others
<1>17. LeavingHeld'
   BY <1>0, <1>1, <1>2, <1>3, Names, Typed DEF LeavingHeld, Rest, StepsInv, At, GoneInv, Gone,
     Others
<1>18. GoneInv'
  BY <1>0, <1>1, <1>2, <1>3, Names, Typed DEF GoneInv, Rest, StepsInv, At, Gone, Others
<1>19. NamesInv'
   BY ZenonT(40), <1>0, <1>1, <1>2, <1>3, Names, Typed DEF NamesInv, Rest, StepsInv, At,
     HeldInv, Others
<1>20. StoreFollows'
   BY <1>0, <1>1, <1>2, <1>3, Names, Typed DEF StoreFollows, Rest, StepsInv, At, SettlingHeld,
     BeforeNames, NoStore, Others
<1>21. OpensOnce'
   BY <1>0, <1>1, <1>2, <1>3, Names, Typed DEF OpensOnce, Rest, StepsInv, StoreFollows,
     BeforeNames, NoStore, Others
<1>22. BeforeNames'
   BY <1>0, <1>1, <1>2, <1>3, Names, Typed DEF BeforeNames, Rest, StepsInv, NoStore, At,
     GoneInv, Gone, StoreFollows, Others
<1>23. BeforeConnect'
   BY <1>0, <1>1, <1>2, <1>3, <1>4, Names, Typed DEF BeforeConnect, Rest, StepsInv, NoStore,
     GoneInv, Gone, At, ClosedInv, NoneWhileReplacing, Replacing, ProbesFromNothing,
     StoreFollows, Others
<1>24. SettlingHeld'
   BY <1>0, <1>1, <1>2, <1>3, Names, Typed DEF SettlingHeld, Rest, StepsInv, At, GoneInv, Gone,
     Others
<1>25. ClosedInv'
   BY <1>0, <1>1, <1>2, <1>3, Names, Typed DEF ClosedInv, Rest, StepsInv, At, GoneInv, Gone,
     OpenIsHeld, StoreFollows, Others
<1>26. OpenIsHeld'
   BY <1>0, <1>1, <1>2, <1>3, Names, Typed DEF OpenIsHeld, Rest, StepsInv, At, ClosedInv,
     OpensOnce, StoreFollows, Others
<1>27. ConnectionIsTheSavedOne'
   BY <1>0, <1>1, <1>2, <1>3, Names, Typed DEF ConnectionIsTheSavedOne, Rest, StepsInv, At,
     GoneInv, Gone, Others
<1>28. AttendedIsSubscribed'
  BY <1>0, <1>1, <1>2, <1>3, Names, Typed DEF AttendedIsSubscribed, Rest, StepsInv, Others
<1> QED
   BY <1>6, <1>7, <1>8, <1>9, <1>10, <1>11, <1>12, <1>13, <1>14, <1>15, <1>16, <1>17, <1>18,
     <1>19, <1>20, <1>21, <1>22, <1>23, <1>24, <1>25, <1>26, <1>27, <1>28 DEF Rest

LEMMA ConnectedStep ==
    ASSUME IInv, TypeOK', NEW c \in Callers, Connected(c)
    PROVE  Rest'
<1>0. TypeOK /\ Rest
  BY DEF IInv
<1>1. /\ At(c, "naming") /\ Others(c)
      /\ c \in Savers => job'[c].at = "ready"
      /\ c \notin Savers => job'[c].at = "returned"
  BY <1>0, Names, Returning DEF Connected, TypeOK, Steps
<1>2. UNCHANGED <<stopped, config, seq, manager, phase, idle, madeFor, dropped, names, store, metaStarting, meta, open, watched>>
  BY <1>0, Names DEF Connected, connection, taxonomy
<1>3. \A d \in Callers : Probing(d)' => seq' = seq /\ d # c /\ Probing(d) /\ job'[d] = job[d]
  BY <1>0, <1>1, <1>2, Names, ProbesKept DEF Rest
<1>4. StepsInv'
  BY <1>0, <1>1, <1>2, Names, Typed DEF StepsInv, Rest, At, Others
<1>5. SeqInv'
  BY <1>0, <1>1, <1>2, Names, Typed DEF SeqInv, Rest, StepsInv, At, Others
<1>6. HeldInv'
  BY <1>0, <1>1, <1>2, Names, Typed DEF HeldInv, Rest, StepsInv, At, ApartInv, NamesInv, Others
<1>7. ApartInv'
  BY <1>0, <1>1, <1>2, Names, ApartKept DEF Rest, At
<1>8. StartInv'
   BY <1>0, <1>1, <1>2, Names, Typed DEF StartInv, Rest, StepsInv, At, NoStore, StoreFollows,
     Others
<1>9. OneProbes'
  BY <1>0, <1>1, <1>2, <1>3, Names, Typed DEF OneProbes, Rest, StepsInv, At, Others
<1>10. NoneWhileReplacing'
   BY <1>0, <1>1, <1>2, <1>3, Names, Typed DEF NoneWhileReplacing, Rest, StepsInv, At,
     Replacing, Others
<1>11. ProbesFromNothing'
   BY <1>0, <1>1, <1>2, <1>3, Names, Typed DEF ProbesFromNothing, Rest, StepsInv, At,
     NoneWhileReplacing, Replacing, Others
<1>12. LiveHeld'
   BY <1>0, <1>1, <1>2, Names, Typed DEF LiveHeld, Rest, StepsInv, Live, At, LeavingHeld,
     DownInv, NoneLives, Replacing, Others
<1>13. HeldExists'
  BY <1>0, <1>1, <1>2, Names, Typed DEF HeldExists, Rest, StepsInv, Others
<1>14. DownInv'
   BY <1>0, <1>1, <1>2, Names, Typed DEF DownInv, Rest, StepsInv, NoneLives, At, Replacing,
     LiveHeld, Live, Others
<1>15. LeavingHeld'
  BY <1>0, <1>1, <1>2, Names, Typed DEF LeavingHeld, Rest, StepsInv, At, GoneInv, Gone, Others
<1>16. GoneInv'
  BY <1>0, <1>1, <1>2, Names, Typed DEF GoneInv, Rest, StepsInv, At, Gone, Others
<1>17. NamesInv'
  BY <1>0, <1>1, <1>2, Names, Typed DEF NamesInv, Rest, StepsInv, At, HeldInv, Others
<1>18. StoreFollows'
   BY <1>0, <1>1, <1>2, Names, Typed DEF StoreFollows, Rest, StepsInv, At, SettlingHeld,
     BeforeNames, NoStore, Others
<1>19. OpensOnce'
   BY <1>0, <1>1, <1>2, Names, Typed DEF OpensOnce, Rest, StepsInv, StoreFollows, BeforeNames,
     NoStore, Others
<1>20. BeforeNames'
   BY <1>0, <1>1, <1>2, Names, Typed DEF BeforeNames, Rest, StepsInv, NoStore, At, GoneInv,
     Gone, StoreFollows, Others
<1>21. BeforeConnect'
   BY <1>0, <1>1, <1>2, <1>3, Names, Typed DEF BeforeConnect, Rest, StepsInv, NoStore, GoneInv,
     Gone, At, ClosedInv, NoneWhileReplacing, Replacing, ProbesFromNothing, StoreFollows, Others
<1>22. SettlingHeld'
  BY <1>0, <1>1, <1>2, Names, Typed DEF SettlingHeld, Rest, StepsInv, At, GoneInv, Gone, Others
<1>23. ClosedInv'
   BY <1>0, <1>1, <1>2, Names, Typed DEF ClosedInv, Rest, StepsInv, At, GoneInv, Gone,
     OpenIsHeld, StoreFollows, Others
<1>24. OpenIsHeld'
   BY <1>0, <1>1, <1>2, Names, Typed DEF OpenIsHeld, Rest, StepsInv, At, ClosedInv, OpensOnce,
     StoreFollows, Others
<1>25. ConnectionIsTheSavedOne'
   BY <1>0, <1>1, <1>2, Names, Typed DEF ConnectionIsTheSavedOne, Rest, StepsInv, At, GoneInv,
     Gone, Others
<1>26. AttendedIsSubscribed'
  BY <1>0, <1>1, <1>2, Names, Typed DEF AttendedIsSubscribed, Rest, StepsInv, Others
<1> QED
   BY <1>4, <1>5, <1>6, <1>7, <1>8, <1>9, <1>10, <1>11, <1>12, <1>13, <1>14, <1>15, <1>16,
     <1>17, <1>18, <1>19, <1>20, <1>21, <1>22, <1>23, <1>24, <1>25, <1>26 DEF Rest

LEMMA LeftStep ==
    ASSUME IInv, TypeOK', NEW c \in Callers, Left(c)
    PROVE  Rest'
<1>0. TypeOK /\ Rest
  BY DEF IInv
<1>1. /\ At(c, "leaving") /\ Others(c) /\ job'[c].at = "settling" /\ job'[c].on = metaStarting
  BY <1>0, Names, Waiting DEF Left, TypeOK, Steps
<1>2. /\ job[c].on # 0 => phase[job[c].on] # "stopping"
      /\ manager' = 0
  BY <1>0, Names DEF Left
<1>3. UNCHANGED <<stopped, config, seq, phase, idle, madeFor, dropped, names, store, metaStarting, meta, open, watched>>
  BY <1>0, Names DEF Left, taxonomy, attention
<1>4. \A d \in Callers : Probing(d)' => seq' = seq /\ d # c /\ Probing(d) /\ job'[d] = job[d]
  BY <1>0, <1>1, <1>2, <1>3, Names, ProbesKept DEF Rest
<1>5. StepsInv'
  BY <1>0, <1>1, <1>2, <1>3, Names, Typed DEF StepsInv, Rest, At, Others
<1>6. SeqInv'
  BY <1>0, <1>1, <1>2, <1>3, Names, Typed DEF SeqInv, Rest, StepsInv, At, Others
<1>7. HeldInv'
   BY <1>0, <1>1, <1>2, <1>3, Names, Typed DEF HeldInv, Rest, StepsInv, At, ApartInv, NamesInv,
     Others
<1>8. ApartInv'
  BY <1>0, <1>1, <1>2, <1>3, Names, ApartKept DEF Rest, At
<1>9. StartInv'
   BY <1>0, <1>1, <1>2, <1>3, Names, Typed DEF StartInv, Rest, StepsInv, At, NoStore,
     StoreFollows, Others
<1>10. OneProbes'
  BY <1>0, <1>1, <1>2, <1>3, <1>4, Names, Typed DEF OneProbes, Rest, StepsInv, At, Others
<1>11. NoneWhileReplacing'
   BY <1>0, <1>1, <1>2, <1>3, <1>4, Names, Typed DEF NoneWhileReplacing, Rest, StepsInv, At,
     Replacing, Others
<1>12. ProbesFromNothing'
   BY <1>0, <1>1, <1>2, <1>3, <1>4, Names, Typed DEF ProbesFromNothing, Rest, StepsInv, At,
     NoneWhileReplacing, Replacing, Others
<1>13. LiveHeld'
   BY <1>0, <1>1, <1>2, <1>3, Names, Typed DEF LiveHeld, Rest, StepsInv, Live, At, LeavingHeld,
     DownInv, NoneLives, Replacing, Others
<1>14. HeldExists'
  BY <1>0, <1>1, <1>2, <1>3, Names, Typed DEF HeldExists, Rest, StepsInv, Others
<1>15. DownInv'
   BY <1>0, <1>1, <1>2, <1>3, Names, Typed DEF DownInv, Rest, StepsInv, NoneLives, At,
     Replacing, LiveHeld, Live, Others
<1>16. LeavingHeld'
   BY <1>0, <1>1, <1>2, <1>3, Names, Typed DEF LeavingHeld, Rest, StepsInv, At, GoneInv, Gone,
     Others
<1>17. GoneInv'
  BY <1>0, <1>1, <1>2, <1>3, Names, Typed DEF GoneInv, Rest, StepsInv, At, Gone, Others
<1>18. NamesInv'
  BY <1>0, <1>1, <1>2, <1>3, Names, Typed DEF NamesInv, Rest, StepsInv, At, HeldInv, Others
<1>19. StoreFollows'
   BY <1>0, <1>1, <1>2, <1>3, Names, Typed DEF StoreFollows, Rest, StepsInv, At, SettlingHeld,
     BeforeNames, NoStore, Others
<1>20. OpensOnce'
   BY <1>0, <1>1, <1>2, <1>3, Names, Typed DEF OpensOnce, Rest, StepsInv, StoreFollows,
     BeforeNames, NoStore, Others
<1>21. BeforeNames'
   BY <1>0, <1>1, <1>2, <1>3, Names, Typed DEF BeforeNames, Rest, StepsInv, NoStore, At,
     GoneInv, Gone, StoreFollows, Others
<1>22. BeforeConnect'
   BY <1>0, <1>1, <1>2, <1>3, <1>4, Names, Typed DEF BeforeConnect, Rest, StepsInv, NoStore,
     GoneInv, Gone, At, ClosedInv, NoneWhileReplacing, Replacing, ProbesFromNothing,
     StoreFollows, Others
<1>23. SettlingHeld'
   BY <1>0, <1>1, <1>2, <1>3, Names, Typed DEF SettlingHeld, Rest, StepsInv, At, GoneInv, Gone,
     Others
<1>24. ClosedInv'
   BY <1>0, <1>1, <1>2, <1>3, Names, Typed DEF ClosedInv, Rest, StepsInv, At, GoneInv, Gone,
     OpenIsHeld, StoreFollows, Others
<1>25. OpenIsHeld'
   BY <1>0, <1>1, <1>2, <1>3, Names, Typed DEF OpenIsHeld, Rest, StepsInv, At, ClosedInv,
     OpensOnce, StoreFollows, Others
<1>26. ConnectionIsTheSavedOne'
   BY <1>0, <1>1, <1>2, <1>3, Names, Typed DEF ConnectionIsTheSavedOne, Rest, StepsInv, At,
     GoneInv, Gone, Others
<1>27. AttendedIsSubscribed'
  BY <1>0, <1>1, <1>2, <1>3, Names, Typed DEF AttendedIsSubscribed, Rest, StepsInv, Others
<1> QED
   BY <1>5, <1>6, <1>7, <1>8, <1>9, <1>10, <1>11, <1>12, <1>13, <1>14, <1>15, <1>16, <1>17,
     <1>18, <1>19, <1>20, <1>21, <1>22, <1>23, <1>24, <1>25, <1>26, <1>27 DEF Rest

LEMMA CloseStoreStep ==
    ASSUME IInv, TypeOK', NEW c \in Callers, CloseStore(c)
    PROVE  Rest'
<1>0. TypeOK /\ Rest
  BY DEF IInv
<1>1. /\ At(c, "settling") /\ Others(c) /\ job'[c].at = "closing" /\ job'[c].on = job[c].on
  BY <1>0, Names, Going DEF CloseStore, TypeOK, Steps
<1>2. /\ job[c].on # 0 => store[job[c].on] = "settled"
      /\ metaStarting' = 0 /\ open' = open \ {meta}
  BY <1>0, Names DEF CloseStore, MayClose
<1>3. UNCHANGED <<stopped, config, seq, manager, phase, idle, madeFor, dropped, names, store, meta, watched>>
  BY <1>0, Names DEF CloseStore, connection, attention
<1>4. \A d \in Callers : Probing(d)' => seq' = seq /\ d # c /\ Probing(d) /\ job'[d] = job[d]
  BY <1>0, <1>1, <1>2, <1>3, Names, ProbesKept DEF Rest
<1>5. StepsInv'
  BY <1>0, <1>1, <1>2, <1>3, Names, Typed DEF StepsInv, Rest, At, Others
<1>6. SeqInv'
  BY <1>0, <1>1, <1>2, <1>3, Names, Typed DEF SeqInv, Rest, StepsInv, At, Others
<1>7. HeldInv'
   BY <1>0, <1>1, <1>2, <1>3, Names, Typed DEF HeldInv, Rest, StepsInv, At, ApartInv, NamesInv,
     Others
<1>8. ApartInv'
  BY <1>0, <1>1, <1>2, <1>3, Names, ApartKept DEF Rest, At
<1>9. StartInv'
   BY <1>0, <1>1, <1>2, <1>3, Names, Typed DEF StartInv, Rest, StepsInv, At, NoStore,
     StoreFollows, Others
<1>10. OneProbes'
  BY <1>0, <1>1, <1>2, <1>3, <1>4, Names, Typed DEF OneProbes, Rest, StepsInv, At, Others
<1>11. NoneWhileReplacing'
   BY <1>0, <1>1, <1>2, <1>3, <1>4, Names, Typed DEF NoneWhileReplacing, Rest, StepsInv, At,
     Replacing, Others
<1>12. ProbesFromNothing'
   BY <1>0, <1>1, <1>2, <1>3, <1>4, Names, Typed DEF ProbesFromNothing, Rest, StepsInv, At,
     NoneWhileReplacing, Replacing, Others
<1>13. LiveHeld'
   BY <1>0, <1>1, <1>2, <1>3, Names, Typed DEF LiveHeld, Rest, StepsInv, Live, At, LeavingHeld,
     DownInv, NoneLives, Replacing, Others
<1>14. HeldExists'
  BY <1>0, <1>1, <1>2, <1>3, Names, Typed DEF HeldExists, Rest, StepsInv, Others
<1>15. DownInv'
   BY <1>0, <1>1, <1>2, <1>3, Names, Typed DEF DownInv, Rest, StepsInv, NoneLives, At,
     Replacing, LiveHeld, Live, Others
<1>16. LeavingHeld'
   BY <1>0, <1>1, <1>2, <1>3, Names, Typed DEF LeavingHeld, Rest, StepsInv, At, GoneInv, Gone,
     Others
<1>17. GoneInv'
  BY <1>0, <1>1, <1>2, <1>3, Names, Typed DEF GoneInv, Rest, StepsInv, At, Gone, Others
<1>18. NamesInv'
  BY <1>0, <1>1, <1>2, <1>3, Names, Typed DEF NamesInv, Rest, StepsInv, At, HeldInv, Others
<1>19. StoreFollows'
   BY <1>0, <1>1, <1>2, <1>3, Names, Typed DEF StoreFollows, Rest, StepsInv, At, SettlingHeld,
     BeforeNames, NoStore, Others
<1>20. OpensOnce'
   BY <1>0, <1>1, <1>2, <1>3, Names, Typed DEF OpensOnce, Rest, StepsInv, StoreFollows,
     BeforeNames, NoStore, Others
<1>21. BeforeNames'
   BY <1>0, <1>1, <1>2, <1>3, Names, Typed DEF BeforeNames, Rest, StepsInv, NoStore, At,
     GoneInv, Gone, StoreFollows, Others
<1>22. BeforeConnect'
   BY <1>0, <1>1, <1>2, <1>3, <1>4, Names, Typed DEF BeforeConnect, Rest, StepsInv, NoStore,
     GoneInv, Gone, At, ClosedInv, NoneWhileReplacing, Replacing, ProbesFromNothing,
     StoreFollows, Others
<1>23. SettlingHeld'
   BY <1>0, <1>1, <1>2, <1>3, Names, Typed DEF SettlingHeld, Rest, StepsInv, At, GoneInv, Gone,
     Others
<1>24. ClosedInv'
   BY <1>0, <1>1, <1>2, <1>3, Names, Typed DEF ClosedInv, Rest, StepsInv, At, GoneInv, Gone,
     OpenIsHeld, StoreFollows, Others
<1>25. OpenIsHeld'
   BY <1>0, <1>1, <1>2, <1>3, Names, Typed DEF OpenIsHeld, Rest, StepsInv, At, ClosedInv,
     OpensOnce, StoreFollows, Others
<1>26. ConnectionIsTheSavedOne'
   BY <1>0, <1>1, <1>2, <1>3, Names, Typed DEF ConnectionIsTheSavedOne, Rest, StepsInv, At,
     GoneInv, Gone, Others
<1>27. AttendedIsSubscribed'
  BY <1>0, <1>1, <1>2, <1>3, Names, Typed DEF AttendedIsSubscribed, Rest, StepsInv, Others
<1> QED
   BY <1>5, <1>6, <1>7, <1>8, <1>9, <1>10, <1>11, <1>12, <1>13, <1>14, <1>15, <1>16, <1>17,
     <1>18, <1>19, <1>20, <1>21, <1>22, <1>23, <1>24, <1>25, <1>26, <1>27 DEF Rest

LEMMA StoreClosedStep ==
    ASSUME IInv, TypeOK', NEW c \in Callers, StoreClosed(c)
    PROVE  Rest'
<1>0. TypeOK /\ Rest
  BY DEF IInv
<1>1. /\ c = "stop" => Return(c)
      /\ c # "stop" => GoTo(c, "saving")
      /\ At(c, "closing") /\ meta' = 0
      /\ config' = config \/ (c # "stop" /\ config' = config + 1)
  BY <1>0, Names DEF StoreClosed
<1>2. Others(c) /\ (c = "stop" => job'[c].at = "returned") /\ (c # "stop" => job'[c].at = "saving")
  BY <1>0, Names, <1>1, Going, Returning DEF Steps
<1>3. UNCHANGED <<stopped, seq, manager, phase, idle, madeFor, dropped, names, store, metaStarting, open, watched>>
  BY <1>0, Names DEF StoreClosed, attention
<1>4. \A d \in Callers : Probing(d)' => seq' = seq /\ d # c /\ Probing(d) /\ job'[d] = job[d]
  BY <1>0, <1>1, <1>2, <1>3, Names, ProbesKept DEF Rest
<1>5. StepsInv'
  BY <1>0, <1>1, <1>2, <1>3, Names, Typed DEF StepsInv, Rest, At, Others
<1>6. SeqInv'
  BY <1>0, <1>1, <1>2, <1>3, Names, Typed DEF SeqInv, Rest, StepsInv, At, Others
<1>7. HeldInv'
   BY <1>0, <1>1, <1>2, <1>3, Names, Typed DEF HeldInv, Rest, StepsInv, At, ApartInv, NamesInv,
     Others
<1>8. ApartInv'
  BY <1>0, <1>1, <1>2, <1>3, Names, ApartKept DEF Rest, At
<1>9. StartInv'
   BY <1>0, <1>1, <1>2, <1>3, Names, Typed DEF StartInv, Rest, StepsInv, At, NoStore,
     StoreFollows, Others
<1>10. OneProbes'
  BY <1>0, <1>1, <1>2, <1>3, <1>4, Names, Typed DEF OneProbes, Rest, StepsInv, At, Others
<1>11. NoneWhileReplacing'
   BY <1>0, <1>1, <1>2, <1>3, <1>4, Names, Typed DEF NoneWhileReplacing, Rest, StepsInv, At,
     Replacing, Others
<1>12. ProbesFromNothing'
   BY <1>0, <1>1, <1>2, <1>3, <1>4, Names, Typed DEF ProbesFromNothing, Rest, StepsInv, At,
     NoneWhileReplacing, Replacing, Others
<1>13. LiveHeld'
   BY <1>0, <1>1, <1>2, <1>3, Names, Typed DEF LiveHeld, Rest, StepsInv, Live, At, LeavingHeld,
     DownInv, NoneLives, Replacing, Others
<1>14. HeldExists'
  BY <1>0, <1>1, <1>2, <1>3, Names, Typed DEF HeldExists, Rest, StepsInv, Others
<1>15. DownInv'
   BY <1>0, <1>1, <1>2, <1>3, Names, Typed DEF DownInv, Rest, StepsInv, NoneLives, At,
     Replacing, LiveHeld, Live, Others
<1>16. LeavingHeld'
   BY <1>0, <1>1, <1>2, <1>3, Names, Typed DEF LeavingHeld, Rest, StepsInv, At, GoneInv, Gone,
     Others
<1>17. GoneInv'
  BY <1>0, <1>1, <1>2, <1>3, Names, Typed DEF GoneInv, Rest, StepsInv, At, Gone, Others
<1>18. NamesInv'
  BY <1>0, <1>1, <1>2, <1>3, Names, Typed DEF NamesInv, Rest, StepsInv, At, HeldInv, Others
<1>19. StoreFollows'
   BY <1>0, <1>1, <1>2, <1>3, Names, Typed DEF StoreFollows, Rest, StepsInv, At, SettlingHeld,
     BeforeNames, NoStore, Others
<1>20. OpensOnce'
   BY <1>0, <1>1, <1>2, <1>3, Names, Typed DEF OpensOnce, Rest, StepsInv, StoreFollows,
     BeforeNames, NoStore, Others
<1>21. BeforeNames'
   BY <1>0, <1>1, <1>2, <1>3, Names, Typed DEF BeforeNames, Rest, StepsInv, NoStore, At,
     GoneInv, Gone, StoreFollows, Others
<1>22. BeforeConnect'
   BY <1>0, <1>1, <1>2, <1>3, <1>4, Names, Typed DEF BeforeConnect, Rest, StepsInv, NoStore,
     GoneInv, Gone, At, ClosedInv, NoneWhileReplacing, Replacing, ProbesFromNothing,
     StoreFollows, Others
<1>23. SettlingHeld'
   BY <1>0, <1>1, <1>2, <1>3, Names, Typed DEF SettlingHeld, Rest, StepsInv, At, GoneInv, Gone,
     Others
<1>24. ClosedInv'
   BY <1>0, <1>1, <1>2, <1>3, Names, Typed DEF ClosedInv, Rest, StepsInv, At, GoneInv, Gone,
     OpenIsHeld, StoreFollows, Others
<1>25. OpenIsHeld'
   BY <1>0, <1>1, <1>2, <1>3, Names, Typed DEF OpenIsHeld, Rest, StepsInv, At, ClosedInv,
     OpensOnce, StoreFollows, Others
<1>26. ConnectionIsTheSavedOne'
   BY <1>0, <1>1, <1>2, <1>3, Names, Typed DEF ConnectionIsTheSavedOne, Rest, StepsInv, At,
     GoneInv, Gone, Others
<1>27. AttendedIsSubscribed'
  BY <1>0, <1>1, <1>2, <1>3, Names, Typed DEF AttendedIsSubscribed, Rest, StepsInv, Others
<1> QED
   BY <1>5, <1>6, <1>7, <1>8, <1>9, <1>10, <1>11, <1>12, <1>13, <1>14, <1>15, <1>16, <1>17,
     <1>18, <1>19, <1>20, <1>21, <1>22, <1>23, <1>24, <1>25, <1>26, <1>27 DEF Rest

LEMMA WrittenStep ==
    ASSUME IInv, TypeOK', NEW c \in Callers, Saved(c), GoTo(c, "loading")
    PROVE  Rest'
<1>0. TypeOK /\ Rest
  BY DEF IInv
<1>1. /\ At(c, "saving") /\ Others(c) /\ job'[c].at = "loading"
  BY <1>0, Names, Going DEF Saved, TypeOK, Steps
<1>2. config' = config
  BY DEF Saved, connection
<1>3. UNCHANGED <<stopped, seq, manager, phase, idle, madeFor, dropped, names, store, metaStarting, meta, open, watched>>
  BY <1>0, Names DEF Saved, connection, taxonomy, attention
<1>4. \A d \in Callers : Probing(d)' => seq' = seq /\ d # c /\ Probing(d) /\ job'[d] = job[d]
  BY <1>0, <1>1, <1>2, <1>3, Names, ProbesKept DEF Rest
<1>5. StepsInv'
  BY <1>0, <1>1, <1>2, <1>3, Names, Typed DEF StepsInv, Rest, At, Others
<1>6. SeqInv'
  BY <1>0, <1>1, <1>2, <1>3, Names, Typed DEF SeqInv, Rest, StepsInv, At, Others
<1>7. HeldInv'
   BY <1>0, <1>1, <1>2, <1>3, Names, Typed DEF HeldInv, Rest, StepsInv, At, ApartInv, NamesInv,
     Others
<1>8. ApartInv'
  BY <1>0, <1>1, <1>2, <1>3, Names, ApartKept DEF Rest, At
<1>9. StartInv'
   BY <1>0, <1>1, <1>2, <1>3, Names, Typed DEF StartInv, Rest, StepsInv, At, NoStore,
     StoreFollows, Others
<1>10. OneProbes'
  BY <1>0, <1>1, <1>2, <1>3, <1>4, Names, Typed DEF OneProbes, Rest, StepsInv, At, Others
<1>11. NoneWhileReplacing'
   BY <1>0, <1>1, <1>2, <1>3, <1>4, Names, Typed DEF NoneWhileReplacing, Rest, StepsInv, At,
     Replacing, Others
<1>12. ProbesFromNothing'
   BY <1>0, <1>1, <1>2, <1>3, <1>4, Names, Typed DEF ProbesFromNothing, Rest, StepsInv, At,
     NoneWhileReplacing, Replacing, Others
<1>13. LiveHeld'
   BY <1>0, <1>1, <1>2, <1>3, Names, Typed DEF LiveHeld, Rest, StepsInv, Live, At, LeavingHeld,
     DownInv, NoneLives, Replacing, Others
<1>14. HeldExists'
  BY <1>0, <1>1, <1>2, <1>3, Names, Typed DEF HeldExists, Rest, StepsInv, Others
<1>15. DownInv'
   BY <1>0, <1>1, <1>2, <1>3, Names, Typed DEF DownInv, Rest, StepsInv, NoneLives, At,
     Replacing, LiveHeld, Live, Others
<1>16. LeavingHeld'
   BY <1>0, <1>1, <1>2, <1>3, Names, Typed DEF LeavingHeld, Rest, StepsInv, At, GoneInv, Gone,
     Others
<1>17. GoneInv'
  BY <1>0, <1>1, <1>2, <1>3, Names, Typed DEF GoneInv, Rest, StepsInv, At, Gone, Others
<1>18. NamesInv'
  BY <1>0, <1>1, <1>2, <1>3, Names, Typed DEF NamesInv, Rest, StepsInv, At, HeldInv, Others
<1>19. StoreFollows'
   BY <1>0, <1>1, <1>2, <1>3, Names, Typed DEF StoreFollows, Rest, StepsInv, At, SettlingHeld,
     BeforeNames, NoStore, Others
<1>20. OpensOnce'
   BY <1>0, <1>1, <1>2, <1>3, Names, Typed DEF OpensOnce, Rest, StepsInv, StoreFollows,
     BeforeNames, NoStore, Others
<1>21. BeforeNames'
   BY <1>0, <1>1, <1>2, <1>3, Names, Typed DEF BeforeNames, Rest, StepsInv, NoStore, At,
     GoneInv, Gone, StoreFollows, Others
<1>22. BeforeConnect'
   BY <1>0, <1>1, <1>2, <1>3, <1>4, Names, Typed DEF BeforeConnect, Rest, StepsInv, NoStore,
     GoneInv, Gone, At, ClosedInv, NoneWhileReplacing, Replacing, ProbesFromNothing,
     StoreFollows, Others
<1>23. SettlingHeld'
   BY <1>0, <1>1, <1>2, <1>3, Names, Typed DEF SettlingHeld, Rest, StepsInv, At, GoneInv, Gone,
     Others
<1>24. ClosedInv'
   BY <1>0, <1>1, <1>2, <1>3, Names, Typed DEF ClosedInv, Rest, StepsInv, At, GoneInv, Gone,
     OpenIsHeld, StoreFollows, Others
<1>25. OpenIsHeld'
   BY <1>0, <1>1, <1>2, <1>3, Names, Typed DEF OpenIsHeld, Rest, StepsInv, At, ClosedInv,
     OpensOnce, StoreFollows, Others
<1>26. ConnectionIsTheSavedOne'
   BY <1>0, <1>1, <1>2, <1>3, Names, Typed DEF ConnectionIsTheSavedOne, Rest, StepsInv, At,
     GoneInv, Gone, Others
<1>27. AttendedIsSubscribed'
  BY <1>0, <1>1, <1>2, <1>3, Names, Typed DEF AttendedIsSubscribed, Rest, StepsInv, Others
<1> QED
   BY <1>5, <1>6, <1>7, <1>8, <1>9, <1>10, <1>11, <1>12, <1>13, <1>14, <1>15, <1>16, <1>17,
     <1>18, <1>19, <1>20, <1>21, <1>22, <1>23, <1>24, <1>25, <1>26, <1>27 DEF Rest

LEMMA NamesAnsweredStep ==
    ASSUME IInv, TypeOK', NEW n \in Connections, NamesAnswered(n)
    PROVE  Rest'
<1>0. TypeOK /\ Rest
  BY DEF IInv
<1>1. /\ names[n] = "asked" /\ names' = [names EXCEPT ![n] = "answered"]
      /\ \/ manager = n /\ metaStarting' = n /\ store' = [store EXCEPT ![n] = "creating"]
         \/ manager # n /\ UNCHANGED <<metaStarting, store>>
      /\ UNCHANGED <<stopped, config, seq, manager, phase, idle, madeFor, dropped, meta, open, job, watched>>
  BY <1>0, Names DEF NamesAnswered, connection, attention
<1>2. StepsInv'
  BY <1>0, <1>1, Names, Typed DEF StepsInv, Rest, At
<1>3. SeqInv'
  BY <1>0, <1>1, Names, Typed DEF SeqInv, Rest, StepsInv, At
<1>4. HeldInv'
  BY <1>0, <1>1, Names, Typed DEF HeldInv, Rest, StepsInv, At, ApartInv, NamesInv
<1>5. ApartInv'
  BY <1>0, <1>1, Names, Typed DEF ApartInv, Rest, StepsInv, At, HeldInv
<1>6. StartInv'
  BY <1>0, <1>1, Names, Typed DEF StartInv, Rest, StepsInv, At, NoStore, StoreFollows
<1>7. OneProbes'
  BY <1>0, <1>1, Names, Typed DEF OneProbes, Rest, StepsInv, Probing, At, SeqInv
<1>8. NoneWhileReplacing'
   BY <1>0, <1>1, Names, Typed DEF NoneWhileReplacing, Rest, StepsInv, Probing, At, Replacing,
     SeqInv
<1>9. ProbesFromNothing'
   BY <1>0, <1>1, Names, Typed DEF ProbesFromNothing, Rest, StepsInv, Probing, At, SeqInv,
     NoneWhileReplacing, Replacing
<1>10. LiveHeld'
   BY <1>0, <1>1, Names, Typed DEF LiveHeld, Rest, StepsInv, Live, At, LeavingHeld, DownInv,
     NoneLives, Replacing
<1>11. HeldExists'
  BY <1>0, <1>1, Names, Typed DEF HeldExists, Rest, StepsInv
<1>12. DownInv'
   BY <1>0, <1>1, Names, Typed DEF DownInv, Rest, StepsInv, NoneLives, At, Replacing, LiveHeld,
     Live
<1>13. LeavingHeld'
  BY <1>0, <1>1, Names, Typed DEF LeavingHeld, Rest, StepsInv, At, GoneInv, Gone
<1>14. GoneInv'
  BY <1>0, <1>1, Names, Typed DEF GoneInv, Rest, StepsInv, At, Gone
<1>15. NamesInv'
  BY <1>0, <1>1, Names, Typed DEF NamesInv, Rest, StepsInv, At, HeldInv
<1>16. StoreFollows'
   BY <1>0, <1>1, Names, Typed DEF StoreFollows, Rest, StepsInv, At, SettlingHeld, BeforeNames,
     NoStore
<1>17. OpensOnce'
  BY <1>0, <1>1, Names, Typed DEF OpensOnce, Rest, StepsInv, StoreFollows, BeforeNames, NoStore
<1>18. BeforeNames'
   BY <1>0, <1>1, Names, Typed DEF BeforeNames, Rest, StepsInv, NoStore, At, GoneInv, Gone,
     StoreFollows
<1>19. BeforeConnect'
   BY <1>0, <1>1, Names, Typed DEF BeforeConnect, Rest, StepsInv, NoStore, GoneInv, Gone,
     Probing, At, SeqInv, ClosedInv, NoneWhileReplacing, Replacing, ProbesFromNothing,
     StoreFollows
<1>20. SettlingHeld'
  BY <1>0, <1>1, Names, Typed DEF SettlingHeld, Rest, StepsInv, At, GoneInv, Gone
<1>21. ClosedInv'
   BY <1>0, <1>1, Names, Typed DEF ClosedInv, Rest, StepsInv, At, GoneInv, Gone, OpenIsHeld,
     StoreFollows
<1>22. OpenIsHeld'
   BY <1>0, <1>1, Names, Typed DEF OpenIsHeld, Rest, StepsInv, At, ClosedInv, OpensOnce,
     StoreFollows
<1>23. ConnectionIsTheSavedOne'
  BY <1>0, <1>1, Names, Typed DEF ConnectionIsTheSavedOne, Rest, StepsInv, At, GoneInv, Gone
<1>24. AttendedIsSubscribed'
  BY <1>0, <1>1, Names, Typed DEF AttendedIsSubscribed, Rest, StepsInv
<1> QED
   BY <1>2, <1>3, <1>4, <1>5, <1>6, <1>7, <1>8, <1>9, <1>10, <1>11, <1>12, <1>13, <1>14, <1>15,
     <1>16, <1>17, <1>18, <1>19, <1>20, <1>21, <1>22, <1>23, <1>24 DEF Rest

LEMMA StoreCreatedStep ==
    ASSUME IInv, TypeOK', NEW n \in Connections, StoreCreated(n)
    PROVE  Rest'
<1>0. TypeOK /\ Rest
  BY DEF IInv
<1>1. /\ store[n] = "creating"
      /\ \/ stopped /\ store' = [store EXCEPT ![n] = "settled"] /\ UNCHANGED <<meta, open>>
         \/ ~stopped /\ store' = [store EXCEPT ![n] = "starting"] /\ meta' = n /\ open' = open \union {n}
      /\ UNCHANGED <<stopped, config, seq, manager, phase, idle, madeFor, dropped, names, metaStarting, job, watched>>
  BY <1>0, Names DEF StoreCreated, connection, attention
<1>2. StepsInv'
  BY <1>0, <1>1, Names, Typed DEF StepsInv, Rest, At
<1>3. SeqInv'
  BY <1>0, <1>1, Names, Typed DEF SeqInv, Rest, StepsInv, At
<1>4. HeldInv'
  BY <1>0, <1>1, Names, Typed DEF HeldInv, Rest, StepsInv, At, ApartInv, NamesInv
<1>5. ApartInv'
  BY <1>0, <1>1, Names, Typed DEF ApartInv, Rest, StepsInv, At, HeldInv
<1>6. StartInv'
  BY <1>0, <1>1, Names, Typed DEF StartInv, Rest, StepsInv, At, NoStore, StoreFollows
<1>7. OneProbes'
  BY <1>0, <1>1, Names, Typed DEF OneProbes, Rest, StepsInv, Probing, At, SeqInv
<1>8. NoneWhileReplacing'
   BY <1>0, <1>1, Names, Typed DEF NoneWhileReplacing, Rest, StepsInv, Probing, At, Replacing,
     SeqInv
<1>9. ProbesFromNothing'
   BY <1>0, <1>1, Names, Typed DEF ProbesFromNothing, Rest, StepsInv, Probing, At, SeqInv,
     NoneWhileReplacing, Replacing
<1>10. LiveHeld'
   BY <1>0, <1>1, Names, Typed DEF LiveHeld, Rest, StepsInv, Live, At, LeavingHeld, DownInv,
     NoneLives, Replacing
<1>11. HeldExists'
  BY <1>0, <1>1, Names, Typed DEF HeldExists, Rest, StepsInv
<1>12. DownInv'
   BY <1>0, <1>1, Names, Typed DEF DownInv, Rest, StepsInv, NoneLives, At, Replacing, LiveHeld,
     Live
<1>13. LeavingHeld'
  BY <1>0, <1>1, Names, Typed DEF LeavingHeld, Rest, StepsInv, At, GoneInv, Gone
<1>14. GoneInv'
  BY <1>0, <1>1, Names, Typed DEF GoneInv, Rest, StepsInv, At, Gone
<1>15. NamesInv'
  BY <1>0, <1>1, Names, Typed DEF NamesInv, Rest, StepsInv, At, HeldInv
<1>16. StoreFollows'
   BY <1>0, <1>1, Names, Typed DEF StoreFollows, Rest, StepsInv, At, SettlingHeld, BeforeNames,
     NoStore
<1>17. OpensOnce'
  BY <1>0, <1>1, Names, Typed DEF OpensOnce, Rest, StepsInv, StoreFollows, BeforeNames, NoStore
<1>18. BeforeNames'
   BY <1>0, <1>1, Names, Typed DEF BeforeNames, Rest, StepsInv, NoStore, At, GoneInv, Gone,
     StoreFollows
<1>19. BeforeConnect'
   BY <1>0, <1>1, Names, Typed DEF BeforeConnect, Rest, StepsInv, NoStore, GoneInv, Gone,
     Probing, At, SeqInv, ClosedInv, NoneWhileReplacing, Replacing, ProbesFromNothing,
     StoreFollows
<1>20. SettlingHeld'
  BY <1>0, <1>1, Names, Typed DEF SettlingHeld, Rest, StepsInv, At, GoneInv, Gone
<1>21. ClosedInv'
   BY <1>0, <1>1, Names, Typed DEF ClosedInv, Rest, StepsInv, At, GoneInv, Gone, OpenIsHeld,
     StoreFollows
<1>22. OpenIsHeld'
   BY <1>0, <1>1, Names, Typed DEF OpenIsHeld, Rest, StepsInv, At, ClosedInv, OpensOnce,
     StoreFollows
<1>23. ConnectionIsTheSavedOne'
  BY <1>0, <1>1, Names, Typed DEF ConnectionIsTheSavedOne, Rest, StepsInv, At, GoneInv, Gone
<1>24. AttendedIsSubscribed'
  BY <1>0, <1>1, Names, Typed DEF AttendedIsSubscribed, Rest, StepsInv
<1> QED
   BY <1>2, <1>3, <1>4, <1>5, <1>6, <1>7, <1>8, <1>9, <1>10, <1>11, <1>12, <1>13, <1>14, <1>15,
     <1>16, <1>17, <1>18, <1>19, <1>20, <1>21, <1>22, <1>23, <1>24 DEF Rest

LEMMA StoreStartedStep ==
    ASSUME IInv, TypeOK', NEW n \in Connections, StoreStarted(n)
    PROVE  Rest'
<1>0. TypeOK /\ Rest
  BY DEF IInv
<1>1. /\ store[n] = "starting" /\ store' = [store EXCEPT ![n] = "settled"]
      /\ UNCHANGED <<stopped, config, seq, manager, phase, idle, madeFor, dropped, names, metaStarting, meta, open, job, watched>>
  BY <1>0, Names DEF StoreStarted, connection, attention
<1>2. StepsInv'
  BY <1>0, <1>1, Names, Typed DEF StepsInv, Rest, At
<1>3. SeqInv'
  BY <1>0, <1>1, Names, Typed DEF SeqInv, Rest, StepsInv, At
<1>4. HeldInv'
  BY <1>0, <1>1, Names, Typed DEF HeldInv, Rest, StepsInv, At, ApartInv, NamesInv
<1>5. ApartInv'
  BY <1>0, <1>1, Names, Typed DEF ApartInv, Rest, StepsInv, At, HeldInv
<1>6. StartInv'
  BY <1>0, <1>1, Names, Typed DEF StartInv, Rest, StepsInv, At, NoStore, StoreFollows
<1>7. OneProbes'
  BY <1>0, <1>1, Names, Typed DEF OneProbes, Rest, StepsInv, Probing, At, SeqInv
<1>8. NoneWhileReplacing'
   BY <1>0, <1>1, Names, Typed DEF NoneWhileReplacing, Rest, StepsInv, Probing, At, Replacing,
     SeqInv
<1>9. ProbesFromNothing'
   BY <1>0, <1>1, Names, Typed DEF ProbesFromNothing, Rest, StepsInv, Probing, At, SeqInv,
     NoneWhileReplacing, Replacing
<1>10. LiveHeld'
   BY <1>0, <1>1, Names, Typed DEF LiveHeld, Rest, StepsInv, Live, At, LeavingHeld, DownInv,
     NoneLives, Replacing
<1>11. HeldExists'
  BY <1>0, <1>1, Names, Typed DEF HeldExists, Rest, StepsInv
<1>12. DownInv'
   BY <1>0, <1>1, Names, Typed DEF DownInv, Rest, StepsInv, NoneLives, At, Replacing, LiveHeld,
     Live
<1>13. LeavingHeld'
  BY <1>0, <1>1, Names, Typed DEF LeavingHeld, Rest, StepsInv, At, GoneInv, Gone
<1>14. GoneInv'
  BY <1>0, <1>1, Names, Typed DEF GoneInv, Rest, StepsInv, At, Gone
<1>15. NamesInv'
  BY <1>0, <1>1, Names, Typed DEF NamesInv, Rest, StepsInv, At, HeldInv
<1>16. StoreFollows'
   BY <1>0, <1>1, Names, Typed DEF StoreFollows, Rest, StepsInv, At, SettlingHeld, BeforeNames,
     NoStore
<1>17. OpensOnce'
  BY <1>0, <1>1, Names, Typed DEF OpensOnce, Rest, StepsInv, StoreFollows, BeforeNames, NoStore
<1>18. BeforeNames'
   BY <1>0, <1>1, Names, Typed DEF BeforeNames, Rest, StepsInv, NoStore, At, GoneInv, Gone,
     StoreFollows
<1>19. BeforeConnect'
   BY <1>0, <1>1, Names, Typed DEF BeforeConnect, Rest, StepsInv, NoStore, GoneInv, Gone,
     Probing, At, SeqInv, ClosedInv, NoneWhileReplacing, Replacing, ProbesFromNothing,
     StoreFollows
<1>20. SettlingHeld'
  BY <1>0, <1>1, Names, Typed DEF SettlingHeld, Rest, StepsInv, At, GoneInv, Gone
<1>21. ClosedInv'
   BY <1>0, <1>1, Names, Typed DEF ClosedInv, Rest, StepsInv, At, GoneInv, Gone, OpenIsHeld,
     StoreFollows
<1>22. OpenIsHeld'
   BY <1>0, <1>1, Names, Typed DEF OpenIsHeld, Rest, StepsInv, At, ClosedInv, OpensOnce,
     StoreFollows
<1>23. ConnectionIsTheSavedOne'
  BY <1>0, <1>1, Names, Typed DEF ConnectionIsTheSavedOne, Rest, StepsInv, At, GoneInv, Gone
<1>24. AttendedIsSubscribed'
  BY <1>0, <1>1, Names, Typed DEF AttendedIsSubscribed, Rest, StepsInv
<1> QED
   BY <1>2, <1>3, <1>4, <1>5, <1>6, <1>7, <1>8, <1>9, <1>10, <1>11, <1>12, <1>13, <1>14, <1>15,
     <1>16, <1>17, <1>18, <1>19, <1>20, <1>21, <1>22, <1>23, <1>24 DEF Rest

LEMMA ManagerStoppedStep ==
    ASSUME IInv, TypeOK', NEW n \in Connections, ManagerStopped(n)
    PROVE  Rest'
<1>0. TypeOK /\ Rest
  BY DEF IInv
<1>1. /\ phase[n] = "stopping" /\ phase' = [phase EXCEPT ![n] = "stopped"]
      /\ UNCHANGED <<stopped, config, seq, manager, idle, madeFor, dropped, names, store, metaStarting, meta, open, job, watched>>
  BY <1>0, Names DEF ManagerStopped, taxonomy, attention
<1>2. StepsInv'
  BY <1>0, <1>1, Names, Typed DEF StepsInv, Rest, At
<1>3. SeqInv'
  BY <1>0, <1>1, Names, Typed DEF SeqInv, Rest, StepsInv, At
<1>4. HeldInv'
  BY <1>0, <1>1, Names, Typed DEF HeldInv, Rest, StepsInv, At, ApartInv, NamesInv
<1>5. ApartInv'
  BY <1>0, <1>1, Names, Typed DEF ApartInv, Rest, StepsInv, At, HeldInv
<1>6. StartInv'
  BY <1>0, <1>1, Names, Typed DEF StartInv, Rest, StepsInv, At, NoStore, StoreFollows
<1>7. OneProbes'
  BY <1>0, <1>1, Names, Typed DEF OneProbes, Rest, StepsInv, Probing, At, SeqInv
<1>8. NoneWhileReplacing'
   BY <1>0, <1>1, Names, Typed DEF NoneWhileReplacing, Rest, StepsInv, Probing, At, Replacing,
     SeqInv
<1>9. ProbesFromNothing'
   BY <1>0, <1>1, Names, Typed DEF ProbesFromNothing, Rest, StepsInv, Probing, At, SeqInv,
     NoneWhileReplacing, Replacing
<1>10. LiveHeld'
   BY <1>0, <1>1, Names, Typed DEF LiveHeld, Rest, StepsInv, Live, At, LeavingHeld, DownInv,
     NoneLives, Replacing
<1>11. HeldExists'
  BY <1>0, <1>1, Names, Typed DEF HeldExists, Rest, StepsInv
<1>12. DownInv'
   BY <1>0, <1>1, Names, Typed DEF DownInv, Rest, StepsInv, NoneLives, At, Replacing, LiveHeld,
     Live
<1>13. LeavingHeld'
  BY <1>0, <1>1, Names, Typed DEF LeavingHeld, Rest, StepsInv, At, GoneInv, Gone
<1>14. GoneInv'
  BY <1>0, <1>1, Names, Typed DEF GoneInv, Rest, StepsInv, At, Gone
<1>15. NamesInv'
  BY <1>0, <1>1, Names, Typed DEF NamesInv, Rest, StepsInv, At, HeldInv
<1>16. StoreFollows'
   BY <1>0, <1>1, Names, Typed DEF StoreFollows, Rest, StepsInv, At, SettlingHeld, BeforeNames,
     NoStore
<1>17. OpensOnce'
  BY <1>0, <1>1, Names, Typed DEF OpensOnce, Rest, StepsInv, StoreFollows, BeforeNames, NoStore
<1>18. BeforeNames'
   BY <1>0, <1>1, Names, Typed DEF BeforeNames, Rest, StepsInv, NoStore, At, GoneInv, Gone,
     StoreFollows
<1>19. BeforeConnect'
   BY <1>0, <1>1, Names, Typed DEF BeforeConnect, Rest, StepsInv, NoStore, GoneInv, Gone,
     Probing, At, SeqInv, ClosedInv, NoneWhileReplacing, Replacing, ProbesFromNothing,
     StoreFollows
<1>20. SettlingHeld'
  BY <1>0, <1>1, Names, Typed DEF SettlingHeld, Rest, StepsInv, At, GoneInv, Gone
<1>21. ClosedInv'
   BY <1>0, <1>1, Names, Typed DEF ClosedInv, Rest, StepsInv, At, GoneInv, Gone, OpenIsHeld,
     StoreFollows
<1>22. OpenIsHeld'
   BY <1>0, <1>1, Names, Typed DEF OpenIsHeld, Rest, StepsInv, At, ClosedInv, OpensOnce,
     StoreFollows
<1>23. ConnectionIsTheSavedOne'
  BY <1>0, <1>1, Names, Typed DEF ConnectionIsTheSavedOne, Rest, StepsInv, At, GoneInv, Gone
<1>24. AttendedIsSubscribed'
  BY <1>0, <1>1, Names, Typed DEF AttendedIsSubscribed, Rest, StepsInv
<1> QED
   BY <1>2, <1>3, <1>4, <1>5, <1>6, <1>7, <1>8, <1>9, <1>10, <1>11, <1>12, <1>13, <1>14, <1>15,
     <1>16, <1>17, <1>18, <1>19, <1>20, <1>21, <1>22, <1>23, <1>24 DEF Rest

LEMMA StutterStep ==
    ASSUME IInv, TypeOK', UNCHANGED vars
    PROVE  Rest'
<1>0. TypeOK /\ Rest
  BY DEF IInv
<1>1. UNCHANGED <<stopped, config, seq, manager, phase, idle, madeFor, dropped, names, store, metaStarting, meta, open, job, watched>>
  BY <1>0, Names DEF vars, connection, taxonomy, attention
<1>2. StepsInv'
  BY <1>0, <1>1, Names, Typed DEF StepsInv, Rest, At
<1>3. SeqInv'
  BY <1>0, <1>1, Names, Typed DEF SeqInv, Rest, StepsInv, At
<1>4. HeldInv'
  BY <1>0, <1>1, Names, Typed DEF HeldInv, Rest, StepsInv, At, ApartInv, NamesInv
<1>5. ApartInv'
  BY <1>0, <1>1, Names, Typed DEF ApartInv, Rest, StepsInv, At, HeldInv
<1>6. StartInv'
  BY <1>0, <1>1, Names, Typed DEF StartInv, Rest, StepsInv, At, NoStore, StoreFollows
<1>7. OneProbes'
  BY <1>0, <1>1, Names, Typed DEF OneProbes, Rest, StepsInv, Probing, At, SeqInv
<1>8. NoneWhileReplacing'
   BY <1>0, <1>1, Names, Typed DEF NoneWhileReplacing, Rest, StepsInv, Probing, At, Replacing,
     SeqInv
<1>9. ProbesFromNothing'
   BY <1>0, <1>1, Names, Typed DEF ProbesFromNothing, Rest, StepsInv, Probing, At, SeqInv,
     NoneWhileReplacing, Replacing
<1>10. LiveHeld'
   BY <1>0, <1>1, Names, Typed DEF LiveHeld, Rest, StepsInv, Live, At, LeavingHeld, DownInv,
     NoneLives, Replacing
<1>11. HeldExists'
  BY <1>0, <1>1, Names, Typed DEF HeldExists, Rest, StepsInv
<1>12. DownInv'
   BY <1>0, <1>1, Names, Typed DEF DownInv, Rest, StepsInv, NoneLives, At, Replacing, LiveHeld,
     Live
<1>13. LeavingHeld'
  BY <1>0, <1>1, Names, Typed DEF LeavingHeld, Rest, StepsInv, At, GoneInv, Gone
<1>14. GoneInv'
  BY <1>0, <1>1, Names, Typed DEF GoneInv, Rest, StepsInv, At, Gone
<1>15. NamesInv'
  BY <1>0, <1>1, Names, Typed DEF NamesInv, Rest, StepsInv, At, HeldInv
<1>16. StoreFollows'
   BY <1>0, <1>1, Names, Typed DEF StoreFollows, Rest, StepsInv, At, SettlingHeld, BeforeNames,
     NoStore
<1>17. OpensOnce'
  BY <1>0, <1>1, Names, Typed DEF OpensOnce, Rest, StepsInv, StoreFollows, BeforeNames, NoStore
<1>18. BeforeNames'
   BY <1>0, <1>1, Names, Typed DEF BeforeNames, Rest, StepsInv, NoStore, At, GoneInv, Gone,
     StoreFollows
<1>19. BeforeConnect'
   BY <1>0, <1>1, Names, Typed DEF BeforeConnect, Rest, StepsInv, NoStore, GoneInv, Gone,
     Probing, At, SeqInv, ClosedInv, NoneWhileReplacing, Replacing, ProbesFromNothing,
     StoreFollows
<1>20. SettlingHeld'
  BY <1>0, <1>1, Names, Typed DEF SettlingHeld, Rest, StepsInv, At, GoneInv, Gone
<1>21. ClosedInv'
   BY <1>0, <1>1, Names, Typed DEF ClosedInv, Rest, StepsInv, At, GoneInv, Gone, OpenIsHeld,
     StoreFollows
<1>22. OpenIsHeld'
   BY <1>0, <1>1, Names, Typed DEF OpenIsHeld, Rest, StepsInv, At, ClosedInv, OpensOnce,
     StoreFollows
<1>23. ConnectionIsTheSavedOne'
  BY <1>0, <1>1, Names, Typed DEF ConnectionIsTheSavedOne, Rest, StepsInv, At, GoneInv, Gone
<1>24. AttendedIsSubscribed'
  BY <1>0, <1>1, Names, Typed DEF AttendedIsSubscribed, Rest, StepsInv
<1> QED
   BY <1>2, <1>3, <1>4, <1>5, <1>6, <1>7, <1>8, <1>9, <1>10, <1>11, <1>12, <1>13, <1>14, <1>15,
     <1>16, <1>17, <1>18, <1>19, <1>20, <1>21, <1>22, <1>23, <1>24 DEF Rest

LEMMA AttentionStep ==
    ASSUME IInv, TypeOK', PageOpens \/ PageCloses \/ GraceOver \/ (\E n \in Connections : Resubscribed(n))
    PROVE  Rest'
<1>0. TypeOK /\ Rest
  BY DEF IInv
<1>1. UNCHANGED <<config, seq, manager, phase, madeFor, dropped>>
  BY <1>0, Names DEF PageOpens, PageCloses, GraceOver, Resubscribed, connection
<1>2. UNCHANGED <<stopped, names, store, metaStarting, meta, open, job>>
  BY <1>0, Names DEF PageOpens, PageCloses, GraceOver, Resubscribed, taxonomy
<1>3. /\ idle' \subseteq idle \union ({manager} \ {0})
      /\ watched' /\ ~stopped /\ manager # 0 => manager \notin idle'
  <2>1. CASE PageOpens
    BY <1>0, <2>1 DEF PageOpens, Resubscribe, Rest, AttendedIsSubscribed
  <2>2. CASE PageCloses
    BY <2>2 DEF PageCloses, connection
  <2>3. CASE GraceOver
    BY <1>0, <2>3 DEF GraceOver, Rest, AttendedIsSubscribed
  <2>4. CASE \E n \in Connections : Resubscribed(n)
    BY <1>0, <2>4 DEF Resubscribed, connection, Rest, AttendedIsSubscribed
  <2> QED
    BY <2>1, <2>2, <2>3, <2>4
<1>4. StepsInv'
  BY <1>0, <1>1, <1>2, <1>3, Names, Typed DEF StepsInv, Rest, At
<1>5. SeqInv'
  BY <1>0, <1>1, <1>2, <1>3, Names, Typed DEF SeqInv, Rest, StepsInv, At
<1>6. HeldInv'
  BY <1>0, <1>1, <1>2, <1>3, Names, Typed DEF HeldInv, Rest, StepsInv, At, ApartInv, NamesInv
<1>7. ApartInv'
  BY <1>0, <1>1, <1>2, <1>3, Names, Typed DEF ApartInv, Rest, StepsInv, At, HeldInv
<1>8. StartInv'
  BY <1>0, <1>1, <1>2, <1>3, Names, Typed DEF StartInv, Rest, StepsInv, At, NoStore, StoreFollows
<1>9. OneProbes'
  BY <1>0, <1>1, <1>2, <1>3, Names, Typed DEF OneProbes, Rest, StepsInv, Probing, At, SeqInv
<1>10. NoneWhileReplacing'
   BY <1>0, <1>1, <1>2, <1>3, Names, Typed DEF NoneWhileReplacing, Rest, StepsInv, Probing, At,
     Replacing, SeqInv
<1>11. ProbesFromNothing'
   BY <1>0, <1>1, <1>2, <1>3, Names, Typed DEF ProbesFromNothing, Rest, StepsInv, Probing, At,
     SeqInv, NoneWhileReplacing, Replacing
<1>12. LiveHeld'
   BY <1>0, <1>1, <1>2, <1>3, Names, Typed DEF LiveHeld, Rest, StepsInv, Live, At, LeavingHeld,
     DownInv, NoneLives, Replacing
<1>13. HeldExists'
  BY <1>0, <1>1, <1>2, <1>3, Names, Typed DEF HeldExists, Rest, StepsInv
<1>14. DownInv'
   BY <1>0, <1>1, <1>2, <1>3, Names, Typed DEF DownInv, Rest, StepsInv, NoneLives, At,
     Replacing, LiveHeld, Live
<1>15. LeavingHeld'
  BY <1>0, <1>1, <1>2, <1>3, Names, Typed DEF LeavingHeld, Rest, StepsInv, At, GoneInv, Gone
<1>16. GoneInv'
  BY <1>0, <1>1, <1>2, <1>3, Names, Typed DEF GoneInv, Rest, StepsInv, At, Gone
<1>17. NamesInv'
  BY <1>0, <1>1, <1>2, <1>3, Names, Typed DEF NamesInv, Rest, StepsInv, At, HeldInv
<1>18. StoreFollows'
   BY <1>0, <1>1, <1>2, <1>3, Names, Typed DEF StoreFollows, Rest, StepsInv, At, SettlingHeld,
     BeforeNames, NoStore
<1>19. OpensOnce'
   BY <1>0, <1>1, <1>2, <1>3, Names, Typed DEF OpensOnce, Rest, StepsInv, StoreFollows,
     BeforeNames, NoStore
<1>20. BeforeNames'
   BY <1>0, <1>1, <1>2, <1>3, Names, Typed DEF BeforeNames, Rest, StepsInv, NoStore, At,
     GoneInv, Gone, StoreFollows
<1>21. BeforeConnect'
   BY <1>0, <1>1, <1>2, <1>3, Names, Typed DEF BeforeConnect, Rest, StepsInv, NoStore, GoneInv,
     Gone, Probing, At, SeqInv, ClosedInv, NoneWhileReplacing, Replacing, ProbesFromNothing,
     StoreFollows
<1>22. SettlingHeld'
  BY <1>0, <1>1, <1>2, <1>3, Names, Typed DEF SettlingHeld, Rest, StepsInv, At, GoneInv, Gone
<1>23. ClosedInv'
   BY <1>0, <1>1, <1>2, <1>3, Names, Typed DEF ClosedInv, Rest, StepsInv, At, GoneInv, Gone,
     OpenIsHeld, StoreFollows
<1>24. OpenIsHeld'
   BY <1>0, <1>1, <1>2, <1>3, Names, Typed DEF OpenIsHeld, Rest, StepsInv, At, ClosedInv,
     OpensOnce, StoreFollows
<1>25. ConnectionIsTheSavedOne'
   BY <1>0, <1>1, <1>2, <1>3, Names, Typed DEF ConnectionIsTheSavedOne, Rest, StepsInv, At,
     GoneInv, Gone
<1>26. AttendedIsSubscribed'
  BY <1>0, <1>1, <1>2, <1>3, Names, Typed DEF AttendedIsSubscribed, Rest, StepsInv
<1> QED
   BY <1>4, <1>5, <1>6, <1>7, <1>8, <1>9, <1>10, <1>11, <1>12, <1>13, <1>14, <1>15, <1>16,
     <1>17, <1>18, <1>19, <1>20, <1>21, <1>22, <1>23, <1>24, <1>25, <1>26 DEF Rest

LEMMA ReturnedStep ==
    ASSUME IInv, TypeOK', NEW c \in Callers, Return(c),
           \/ job[c].at \in {"probing", "saving", "loading"}
           \/ c = "start" /\ job[c].at = "ready",
           UNCHANGED <<stopped, config, manager, phase, idle, madeFor, dropped, seq, taxonomy, watched>>
    PROVE  Rest'
<1>0. TypeOK /\ Rest
  BY DEF IInv
<1>1. /\ Others(c)
      /\ c \in Savers => job'[c].at = "ready"
      /\ c \notin Savers => job'[c].at = "returned"
  BY <1>0, Names, Returning
<1>2. UNCHANGED <<stopped, config, seq, manager, phase, idle, madeFor, dropped, names, store, metaStarting, meta, open, watched>>
  BY <1>0, Names DEF taxonomy
<1>3. c # "stop" /\ (c = "start" \/ c \in Savers)
  BY <1>0, Names DEF Rest, StepsInv
<1>4. \A d \in Callers : Probing(d)' => seq' = seq /\ d # c /\ Probing(d) /\ job'[d] = job[d]
  BY <1>0, <1>1, <1>2, <1>3, Names, ProbesKept DEF Rest
<1>5. StepsInv'
  <2>1. job'["stop"] = job["stop"] /\ stopped' = stopped
    BY <1>0, <1>1, <1>2, <1>3, Names, Typed DEF Others
  <2>2. job'["start"] = job["start"] \/ job'["start"].at = "returned"
    BY <1>0, <1>1, <1>2, <1>3, Names, Typed DEF Others
  <2>3. \A d \in Savers : job'[d] = job[d] \/ job'[d].at = "ready"
    BY <1>0, <1>1, <1>2, <1>3, Names, Typed DEF Others
  <2>4. StepsInv
    BY <1>0 DEF Rest
  <2> QED
    BY <2>1, <2>2, <2>3, <2>4 DEF StepsInv, At
<1>6. SeqInv'
  BY <1>0, <1>1, <1>2, <1>3, Names, Typed DEF SeqInv, Rest, StepsInv, At, Others
<1>7. HeldInv'
    BY ZenonT(40), <1>0, <1>1, <1>2, <1>3, Names, Typed DEF HeldInv, Rest, StepsInv, At,
      ApartInv, NamesInv,
     Others
<1>8. ApartInv'
  BY <1>0, <1>1, <1>2, <1>3, Names, ApartKept DEF Rest, At
<1>9. StartInv'
   BY <1>0, <1>1, <1>2, <1>3, Names, Typed DEF StartInv, Rest, StepsInv, At, NoStore,
     StoreFollows, Others
<1>10. OneProbes'
  BY <1>0, <1>1, <1>2, <1>3, <1>4, Names, Typed DEF OneProbes, Rest, StepsInv, At, Others
<1>11. NoneWhileReplacing'
   BY <1>0, <1>1, <1>2, <1>3, <1>4, Names, Typed DEF NoneWhileReplacing, Rest, StepsInv, At,
     Replacing, Others
<1>12. ProbesFromNothing'
   BY <1>0, <1>1, <1>2, <1>3, <1>4, Names, Typed DEF ProbesFromNothing, Rest, StepsInv, At,
     NoneWhileReplacing, Replacing, Others
<1>13. LiveHeld'
   BY <1>0, <1>1, <1>2, <1>3, Names, Typed DEF LiveHeld, Rest, StepsInv, Live, At, LeavingHeld,
     DownInv, NoneLives, Replacing, Others
<1>14. HeldExists'
  BY <1>0, <1>1, <1>2, <1>3, Names, Typed DEF HeldExists, Rest, StepsInv, Others
<1>15. DownInv'
  <2>1. \A d \in Callers : job'[d].at \in Replacing => job'[d] = job[d]
    BY <1>1, Names DEF Others, Replacing
  <2>2. NoneLives' <=> NoneLives
    BY <1>2 DEF NoneLives
  <2> QED
    BY <1>0, <1>2, <2>1, <2>2 DEF Rest, DownInv
<1>16. LeavingHeld'
   BY <1>0, <1>1, <1>2, <1>3, Names, Typed DEF LeavingHeld, Rest, StepsInv, At, GoneInv, Gone,
     Others
<1>17. GoneInv'
  BY <1>0, <1>1, <1>2, <1>3, Names, Typed DEF GoneInv, Rest, StepsInv, At, Gone, Others
<1>18. NamesInv'
  BY <1>0, <1>1, <1>2, <1>3, Names, Typed DEF NamesInv, Rest, StepsInv, At, HeldInv, Others
<1>19. StoreFollows'
   BY <1>0, <1>1, <1>2, <1>3, Names, Typed DEF StoreFollows, Rest, StepsInv, At, SettlingHeld,
     BeforeNames, NoStore, Others
<1>20. OpensOnce'
   BY <1>0, <1>1, <1>2, <1>3, Names, Typed DEF OpensOnce, Rest, StepsInv, StoreFollows,
     BeforeNames, NoStore, Others
<1>21. BeforeNames'
   BY <1>0, <1>1, <1>2, <1>3, Names, Typed DEF BeforeNames, Rest, StepsInv, NoStore, At,
     GoneInv, Gone, StoreFollows, Others
<1>22. BeforeConnect'
  <2>1. NoStore' <=> NoStore
    BY <1>2 DEF NoStore
  <2>2. \A d \in Callers : Probing(d)' /\ ~stopped' => NoStore
    BY <1>0, <1>2, <1>4 DEF Rest, BeforeConnect
  <2>3. \A d \in Savers : job'[d].at \in {"saving", "loading"} => job'[d] = job[d]
    BY <1>1, Names DEF Others
  <2> QED
    BY <1>0, <2>1, <2>2, <2>3 DEF Rest, BeforeConnect
<1>23. SettlingHeld'
   BY <1>0, <1>1, <1>2, <1>3, Names, Typed DEF SettlingHeld, Rest, StepsInv, At, GoneInv, Gone,
     Others
<1>24. ClosedInv'
   BY <1>0, <1>1, <1>2, <1>3, Names, Typed DEF ClosedInv, Rest, StepsInv, At, GoneInv, Gone,
     OpenIsHeld, StoreFollows, Others
<1>25. OpenIsHeld'
   BY <1>0, <1>1, <1>2, <1>3, Names, Typed DEF OpenIsHeld, Rest, StepsInv, At, ClosedInv,
     OpensOnce, StoreFollows, Others
<1>26. ConnectionIsTheSavedOne'
   BY <1>0, <1>1, <1>2, <1>3, Names, Typed DEF ConnectionIsTheSavedOne, Rest, StepsInv, At,
     GoneInv, Gone, Others
<1>27. AttendedIsSubscribed'
  BY <1>0, <1>1, <1>2, <1>3, Names, Typed DEF AttendedIsSubscribed, Rest, StepsInv, Others
<1> QED
   BY <1>5, <1>6, <1>7, <1>8, <1>9, <1>10, <1>11, <1>12, <1>13, <1>14, <1>15, <1>16, <1>17,
     <1>18, <1>19, <1>20, <1>21, <1>22, <1>23, <1>24, <1>25, <1>26, <1>27 DEF Rest

(* The state in which a caller may connect: nothing is left of the last.   *)
MayConnect(c) ==
    /\ c # "stop" /\ ~stopped /\ manager = 0 /\ NoStore
    /\ \A d \in Callers : d # c => ~Probing(d)
    /\ \A d \in Savers : d # c => job[d].at \notin Replacing
    /\ c = "start" \/ ~At("start", "ready")

LEMMA MadeStep ==
    ASSUME IInv, TypeOK', NEW c \in Callers, MayConnect(c), MakeManager(c, config),
           seq' \in {seq, seq + 1}, UNCHANGED <<stopped, taxonomy, watched>>
    PROVE  Rest'
<1>0. TypeOK /\ Rest
  BY DEF IInv
<1>1. PICK n \in Connections :
        /\ phase[n] = "none" /\ manager' = n
        /\ phase' = [phase EXCEPT ![n] = "starting"] /\ madeFor' = [madeFor EXCEPT ![n] = config]
        /\ job' = [job EXCEPT ![c] = [at |-> "starting", on |-> n, seq |-> job[c].seq, for |-> config]]
        /\ UNCHANGED <<config, idle, dropped>>
  BY DEF MakeManager
<1>2. Others(c) /\ job'[c].at = "starting" /\ job'[c].on = n
  BY <1>0, <1>1 DEF Others, TypeOK
<1>3. UNCHANGED <<stopped, config, idle, dropped, names, store, metaStarting, meta, open, watched>>
  BY <1>1 DEF taxonomy
<1>4. \A d \in Callers : ~Probing(d)'
  <2> SUFFICES ASSUME NEW d \in Callers, Probing(d)' PROVE FALSE
    OBVIOUS
  <2>1. d # c /\ job'[d] = job[d]
    BY <1>2 DEF Probing, At, Others
  <2>2. At(d, "probing") /\ job[d].seq <= seq /\ job[d].seq = seq' /\ ~Probing(d)
    BY <1>0, <2>1 DEF Probing, At, Rest, SeqInv, MayConnect
  <2> QED
    BY <1>0, <2>2, Typed DEF Probing
<1>5. /\ \A k \in Connections \ dropped : ~Live(k)
      /\ names[n] = "none" /\ n \notin idle
  BY <1>0, <1>1, Names, Typed DEF MayConnect, Rest, LiveHeld, NamesInv, HeldExists
<1>6. \A k \in Connections : k # n => phase'[k] = phase[k] /\ madeFor'[k] = madeFor[k]
  BY <1>0, <1>1, Typed
<1>7. phase'[n] = "starting" /\ madeFor'[n] = config
  BY <1>0, <1>1, Typed
<1>8. \A d \in Callers : /\ job'[d].at \notin Replacing
                         /\ d # "start" => job'[d].at # "returned"
  <2> SUFFICES ASSUME NEW d \in Callers
               PROVE  /\ job'[d].at \notin Replacing
                      /\ d # "start" => job'[d].at # "returned"
    OBVIOUS
  <2>1. CASE d = c
    BY <1>2, <2>1 DEF Replacing
  <2>2. CASE d # c
    <3>1. job'[d] = job[d]
      BY <1>2, <2>2 DEF Others
    <3> QED
      BY <1>0, <2>2, <3>1, Names DEF Rest, StepsInv, MayConnect, Replacing, At
  <2> QED
    BY <2>1, <2>2
<1>9. StepsInv'
   BY <1>0, <1>1, <1>2, <1>3, <1>4, <1>5, <1>6, <1>7, Names, Typed DEF StepsInv, Rest, At,
     Others, MayConnect
<1>10. SeqInv'
   BY <1>0, <1>1, <1>2, <1>3, <1>4, <1>5, <1>6, <1>7, Names, Typed DEF SeqInv, Rest, StepsInv,
     At, Others, MayConnect
<1>11. HeldInv'
   BY <1>0, <1>1, <1>2, <1>3, <1>4, <1>5, <1>6, <1>7, Names, Typed DEF HeldInv, Rest, StepsInv,
     At, ApartInv, NamesInv, Others, MayConnect
<1>12. ApartInv'
   BY <1>0, <1>1, <1>2, <1>3, <1>4, <1>5, <1>6, <1>7, Names, Typed DEF ApartInv, Rest, StepsInv,
     At, HeldInv, Others, MayConnect
<1>13. StartInv'
   BY <1>0, <1>1, <1>2, <1>3, <1>4, <1>5, <1>6, <1>7, Names, Typed DEF StartInv, Rest, StepsInv,
     At, NoStore, StoreFollows, Others, MayConnect
<1>14. OneProbes'
   BY <1>0, <1>1, <1>2, <1>3, <1>4, <1>5, <1>6, <1>7, Names, Typed DEF OneProbes, Rest,
     StepsInv, Probing, At, Others, MayConnect
<1>15. NoneWhileReplacing'
   BY <1>0, <1>1, <1>2, <1>3, <1>4, <1>5, <1>6, <1>7, Names, Typed DEF NoneWhileReplacing, Rest,
     StepsInv, Probing, At, Replacing, Others, MayConnect
<1>16. ProbesFromNothing'
   BY <1>0, <1>1, <1>2, <1>3, <1>4, <1>5, <1>6, <1>7, Names, Typed DEF ProbesFromNothing, Rest,
     StepsInv, Probing, At, NoneWhileReplacing, Replacing, Others, MayConnect
<1>17. LiveHeld'
   BY <1>0, <1>1, <1>2, <1>3, <1>4, <1>5, <1>6, <1>7, Names, Typed DEF LiveHeld, Rest, StepsInv,
     Live, At, LeavingHeld, DownInv, NoneLives, Replacing, Others, MayConnect
<1>18. HeldExists'
   BY <1>0, <1>1, <1>2, <1>3, <1>4, <1>5, <1>6, <1>7, Names, Typed DEF HeldExists, Rest,
     StepsInv, Others, MayConnect
<1>19. DownInv'
   BY <1>0, <1>1, <1>2, <1>3, <1>4, <1>5, <1>6, <1>7, Names, Typed DEF DownInv, Rest, StepsInv,
     NoneLives, At, Replacing, LiveHeld, Live, Others, MayConnect
<1>20. LeavingHeld'
  BY <1>8 DEF LeavingHeld, At, Replacing
<1>21. GoneInv'
  BY <1>8 DEF GoneInv, Gone, Replacing
<1>22. NamesInv'
   BY <1>0, <1>1, <1>2, <1>3, <1>4, <1>5, <1>6, <1>7, Names, Typed DEF NamesInv, Rest, StepsInv,
     At, HeldInv, Others, MayConnect
<1>23. StoreFollows'
   BY <1>0, <1>1, <1>2, <1>3, <1>4, <1>5, <1>6, <1>7, Names, Typed DEF StoreFollows, Rest,
     StepsInv, At, SettlingHeld, BeforeNames, NoStore, Others, MayConnect
<1>24. OpensOnce'
   BY <1>0, <1>1, <1>2, <1>3, <1>4, <1>5, <1>6, <1>7, Names, Typed DEF OpensOnce, Rest,
     StepsInv, StoreFollows, BeforeNames, NoStore, Others, MayConnect
<1>25. BeforeNames'
   BY <1>0, <1>1, <1>2, <1>3, <1>4, <1>5, <1>6, <1>7, Names, Typed DEF BeforeNames, Rest,
     StepsInv, NoStore, At, GoneInv, Gone, StoreFollows, Others, MayConnect
<1>26. BeforeConnect'
   BY <1>0, <1>1, <1>2, <1>3, <1>4, <1>5, <1>6, <1>7, Names, Typed DEF BeforeConnect, Rest,
     StepsInv, NoStore, GoneInv, Gone, Probing, At, ClosedInv, NoneWhileReplacing, Replacing,
     ProbesFromNothing, StoreFollows, Others, MayConnect
<1>27. SettlingHeld'
   BY <1>0, <1>1, <1>2, <1>3, <1>4, <1>5, <1>6, <1>7, Names, Typed DEF SettlingHeld, Rest,
     StepsInv, At, GoneInv, Gone, Others, MayConnect
<1>28. ClosedInv'
   BY <1>0, <1>1, <1>2, <1>3, <1>4, <1>5, <1>6, <1>7, Names, Typed DEF ClosedInv, Rest,
     StepsInv, At, GoneInv, Gone, OpenIsHeld, StoreFollows, Others, MayConnect
<1>29. OpenIsHeld'
   BY <1>0, <1>1, <1>2, <1>3, <1>4, <1>5, <1>6, <1>7, Names, Typed DEF OpenIsHeld, Rest,
     StepsInv, At, ClosedInv, OpensOnce, StoreFollows, Others, MayConnect
<1>30. ConnectionIsTheSavedOne'
   BY <1>0, <1>1, <1>2, <1>3, <1>4, <1>5, <1>6, <1>7, Names, Typed DEF ConnectionIsTheSavedOne,
     Rest, StepsInv, At, GoneInv, Gone, Others, MayConnect
<1>31. AttendedIsSubscribed'
   BY <1>0, <1>1, <1>2, <1>3, <1>4, <1>5, <1>6, <1>7, Names, Typed DEF AttendedIsSubscribed,
     Rest, StepsInv, Others, MayConnect
<1> QED
   BY <1>9, <1>10, <1>11, <1>12, <1>13, <1>14, <1>15, <1>16, <1>17, <1>18, <1>19, <1>20, <1>21,
     <1>22, <1>23, <1>24, <1>25, <1>26, <1>27, <1>28, <1>29, <1>30, <1>31 DEF Rest

LEMMA AskedStep ==
    ASSUME IInv, TypeOK', NEW c \in Callers, MayConnect(c), seq' = seq + 1,
           job' = [job EXCEPT ![c] = [at |-> "probing", on |-> 0, seq |-> seq + 1, for |-> config]],
           UNCHANGED <<stopped, config, manager, phase, idle, madeFor, dropped, taxonomy, watched>>
    PROVE  Rest'
<1>0. TypeOK /\ Rest
  BY DEF IInv
<1>1. Others(c) /\ job'[c].at = "probing" /\ job'[c].seq = seq' /\ job'[c].for = config
  BY <1>0 DEF Others, TypeOK
<1>2. UNCHANGED <<stopped, config, manager, phase, idle, madeFor, dropped, names, store, metaStarting, meta, open, watched>>
  BY DEF taxonomy
<1>3. \A d \in Callers : Probing(d)' => d = c
  <2> SUFFICES ASSUME NEW d \in Callers, Probing(d)', d # c PROVE FALSE
    OBVIOUS
  <2>1. job'[d] = job[d]
    BY <1>1 DEF Others
  <2>2. At(d, "probing") /\ job[d].seq <= seq /\ job[d].seq = seq + 1
    BY <1>0, <2>1 DEF Probing, At, Rest, SeqInv
  <2> QED
    BY <1>0, <2>2, Typed
<1>4. \A d \in Callers : job'[d].at \in {"starting", "asking"} => d # c /\ job'[d] = job[d]
  BY <1>1 DEF Others
<1>5. StepsInv'
  BY <1>0, <1>1, <1>2, <1>3, <1>4, Names, Typed DEF StepsInv, Rest, At, Others, MayConnect
<1>6. SeqInv'
  BY <1>0, <1>1, <1>2, <1>3, <1>4, Names, Typed DEF SeqInv, Rest, StepsInv, At, Others, MayConnect
<1>7. HeldInv'
   BY <1>0, <1>1, <1>2, <1>3, <1>4, Names, Typed DEF HeldInv, Rest, StepsInv, At, ApartInv,
     NamesInv, Others, MayConnect
<1>8. ApartInv'
   BY <1>0, <1>1, <1>2, <1>3, <1>4, Names, Typed DEF ApartInv, Rest, StepsInv, At, HeldInv,
     Others, MayConnect
<1>9. StartInv'
   BY <1>0, <1>1, <1>2, <1>3, <1>4, Names, Typed DEF StartInv, Rest, StepsInv, At, NoStore,
     StoreFollows, Others, MayConnect
<1>10. OneProbes'
   BY <1>0, <1>1, <1>2, <1>3, <1>4, Names, Typed DEF OneProbes, Rest, StepsInv, Probing, At,
     Others, MayConnect
<1>11. NoneWhileReplacing'
   BY <1>0, <1>1, <1>2, <1>3, <1>4, Names, Typed DEF NoneWhileReplacing, Rest, StepsInv,
     Probing, At, Replacing, Others, MayConnect
<1>12. ProbesFromNothing'
   BY <1>0, <1>1, <1>2, <1>3, <1>4, Names, Typed DEF ProbesFromNothing, Rest, StepsInv, Probing,
     At, NoneWhileReplacing, Replacing, Others, MayConnect
<1>13. LiveHeld'
   BY <1>0, <1>1, <1>2, <1>3, <1>4, Names, Typed DEF LiveHeld, Rest, StepsInv, Live, At,
     LeavingHeld, DownInv, NoneLives, Replacing, Others, MayConnect
<1>14. HeldExists'
  BY <1>0, <1>1, <1>2, <1>3, <1>4, Names, Typed DEF HeldExists, Rest, StepsInv, Others, MayConnect
<1>15. DownInv'
   BY <1>0, <1>1, <1>2, <1>3, <1>4, Names, Typed DEF DownInv, Rest, StepsInv, NoneLives, At,
     Replacing, LiveHeld, Live, Others, MayConnect
<1>16. LeavingHeld'
   BY <1>0, <1>1, <1>2, <1>3, <1>4, Names, Typed DEF LeavingHeld, Rest, StepsInv, At, GoneInv,
     Gone, Others, MayConnect
<1>17. GoneInv'
   BY <1>0, <1>1, <1>2, <1>3, <1>4, Names, Typed DEF GoneInv, Rest, StepsInv, At, Gone, Others,
     MayConnect
<1>18. NamesInv'
   BY <1>0, <1>1, <1>2, <1>3, <1>4, Names, Typed DEF NamesInv, Rest, StepsInv, At, HeldInv,
     Others, MayConnect
<1>19. StoreFollows'
   BY <1>0, <1>1, <1>2, <1>3, <1>4, Names, Typed DEF StoreFollows, Rest, StepsInv, At,
     SettlingHeld, BeforeNames, NoStore, Others, MayConnect
<1>20. OpensOnce'
   BY <1>0, <1>1, <1>2, <1>3, <1>4, Names, Typed DEF OpensOnce, Rest, StepsInv, StoreFollows,
     BeforeNames, NoStore, Others, MayConnect
<1>21. BeforeNames'
   BY <1>0, <1>1, <1>2, <1>3, <1>4, Names, Typed DEF BeforeNames, Rest, StepsInv, NoStore, At,
     GoneInv, Gone, StoreFollows, Others, MayConnect
<1>22. BeforeConnect'
   BY <1>0, <1>1, <1>2, <1>3, <1>4, Names, Typed DEF BeforeConnect, Rest, StepsInv, NoStore,
     GoneInv, Gone, Probing, At, ClosedInv, NoneWhileReplacing, Replacing, ProbesFromNothing,
     StoreFollows, Others, MayConnect
<1>23. SettlingHeld'
   BY <1>0, <1>1, <1>2, <1>3, <1>4, Names, Typed DEF SettlingHeld, Rest, StepsInv, At, GoneInv,
     Gone, Others, MayConnect
<1>24. ClosedInv'
   BY <1>0, <1>1, <1>2, <1>3, <1>4, Names, Typed DEF ClosedInv, Rest, StepsInv, At, GoneInv,
     Gone, OpenIsHeld, StoreFollows, Others, MayConnect
<1>25. OpenIsHeld'
   BY <1>0, <1>1, <1>2, <1>3, <1>4, Names, Typed DEF OpenIsHeld, Rest, StepsInv, At, ClosedInv,
     OpensOnce, StoreFollows, Others, MayConnect
<1>26. ConnectionIsTheSavedOne'
   BY <1>0, <1>1, <1>2, <1>3, <1>4, Names, Typed DEF ConnectionIsTheSavedOne, Rest, StepsInv,
     At, GoneInv, Gone, Others, MayConnect
<1>27. AttendedIsSubscribed'
   BY <1>0, <1>1, <1>2, <1>3, <1>4, Names, Typed DEF AttendedIsSubscribed, Rest, StepsInv,
     Others, MayConnect
<1> QED
   BY <1>5, <1>6, <1>7, <1>8, <1>9, <1>10, <1>11, <1>12, <1>13, <1>14, <1>15, <1>16, <1>17,
     <1>18, <1>19, <1>20, <1>21, <1>22, <1>23, <1>24, <1>25, <1>26, <1>27 DEF Rest

LEMMA ConnectStep ==
    ASSUME IInv, TypeOK', NEW c \in Callers, MayConnect(c), Connect(c),
           UNCHANGED <<stopped, taxonomy, watched>>
    PROVE  Rest'
<1>1. seq' = seq + 1
  BY DEF Connect
<1>2. CASE MakeManager(c, config)
  BY <1>1, <1>2, MadeStep
<1>3. CASE /\ job' = [job EXCEPT ![c] = [at |-> "probing", on |-> 0, seq |-> seq + 1, for |-> config]]
           /\ UNCHANGED <<config, manager, phase, idle, madeFor, dropped>>
  BY <1>1, <1>3, AskedStep
<1> QED
  BY <1>2, <1>3 DEF Connect

LEMMA StartStep ==
    ASSUME IInv, TypeOK', Start
    PROVE  Rest'
<1>0. TypeOK /\ Rest
  BY DEF IInv
<1>1. /\ At("start", "ready") /\ At("stop", "ready") /\ ~stopped'
      /\ Connect("start") \/ (Return("start") /\ UNCHANGED connection)
  BY DEF Start
<1>2. ~stopped
  BY <1>0, <1>1 DEF Rest, StepsInv
<1>3. manager = 0 /\ NoStore /\ \A d \in Callers : d # "start" => At(d, "ready")
  BY <1>0, <1>1 DEF Rest, StartInv
<1>4. MayConnect("start")
  BY <1>2, <1>3, Names DEF MayConnect, Probing, At, Replacing
<1>5. UNCHANGED <<stopped, taxonomy, watched>>
  <2>1. stopped = FALSE /\ stopped' = FALSE
    BY <1>0, <1>2 DEF Start, TypeOK
  <2> QED
    BY <2>1 DEF Start, attention
<1>6. CASE Return("start") /\ UNCHANGED connection
  <2>1. UNCHANGED <<config, manager, phase, idle, madeFor, dropped, seq>>
    BY <1>6 DEF connection
  <2> QED
    BY <1>1, <1>5, <1>6, <2>1, ReturnedStep, Names DEF At
<1> QED
  BY <1>1, <1>4, <1>5, <1>6, ConnectStep, Names

LEMMA SavedStep ==
    ASSUME IInv, TypeOK', NEW c \in Callers, Saved(c)
    PROVE  Rest'
<1>1. /\ At(c, "saving") /\ (GoTo(c, "loading") \/ Return(c))
      /\ UNCHANGED <<stopped, config, manager, phase, idle, madeFor, dropped, seq, taxonomy, watched>>
  BY DEF Saved, connection, attention
<1> QED
  BY <1>1, WrittenStep, ReturnedStep DEF At

LEMMA ProbedStep ==
    ASSUME OneSaver, IInv, TypeOK', NEW c \in Callers, Probed(c)
    PROVE  Rest'
<1>0. TypeOK /\ Rest
  BY DEF IInv
<1>1. At(c, "probing") /\ UNCHANGED <<stopped, seq, taxonomy, watched>>
  BY DEF Probed, attention
<1>2. CASE IsCurrent(c) /\ MakeManager(c, job[c].for)
  <2>1. Probing(c) /\ ~stopped
    BY <1>1, <1>2 DEF IsCurrent, Probing
  <2>2. job[c].for = config /\ manager = 0 /\ NoStore
    BY <1>0, <2>1 DEF Rest, ProbesFromNothing, BeforeConnect
  <2>3. /\ c # "stop" /\ (c = "start" \/ ~At("start", "ready"))
        /\ \A d \in Callers : d # c => ~Probing(d)
        /\ \A d \in Savers : job[d].at \notin Replacing
    BY <1>0, <1>1, <2>1, Names DEF Rest, StepsInv, StartInv, OneProbes, NoneWhileReplacing, At
  <2>4. MayConnect(c)
    BY <2>1, <2>2, <2>3 DEF MayConnect
  <2>5. MakeManager(c, config)
    BY <1>2, <2>2
  <2> QED
    BY <1>1, <2>4, <2>5, MadeStep
<1>3. CASE ~IsCurrent(c) /\ Return(c) /\ UNCHANGED <<config, manager, phase, idle, madeFor, dropped>>
  BY <1>1, <1>3, ReturnedStep DEF At
<1> QED
  BY <1>2, <1>3 DEF Probed

LEMMA ReconnectStep ==
    ASSUME OneSaver, IInv, TypeOK', NEW c \in Callers, Reconnect(c)
    PROVE  Rest'
<1>0. TypeOK /\ Rest
  BY DEF IInv
<1>1. At(c, "loading") /\ UNCHANGED <<stopped, taxonomy, watched>>
  BY DEF Reconnect, attention
<1>2. CASE Return(c) /\ UNCHANGED connection
  <2>1. UNCHANGED <<config, manager, phase, idle, madeFor, dropped, seq>>
    BY <1>2 DEF connection
  <2> QED
    BY <1>1, <1>2, <2>1, ReturnedStep DEF At
<1>3. CASE ~stopped /\ Connect(c)
  <2>1. c \in Savers /\ ~At("start", "ready")
    BY <1>0, <1>1, Names DEF Rest, StepsInv, StartInv, At
  <2>2. manager = 0 /\ NoStore
    BY <1>0, <1>1, <2>1, Names DEF Rest, GoneInv, Gone, BeforeConnect, At
  <2>3. \A d \in Callers : ~Probing(d)
    BY <1>0, <1>1, <2>1 DEF Rest, NoneWhileReplacing, Replacing, At
  <2>4. MayConnect(c)
    BY <1>3, <2>1, <2>2, <2>3, Names DEF MayConnect, OneSaver
  <2> QED
    BY <1>1, <1>3, <2>4, ConnectStep
<1> QED
  BY <1>2, <1>3 DEF Reconnect

-----------------------------------------------------------------------------
LEMMA Invariant ==
    ASSUME OneSaver
    PROVE  Spec => []IInv
<1>1. ASSUME IInv, [Next]_vars
      PROVE  IInv'
  <2>1. TypeOK'
    BY <1>1, TypeStep DEF IInv
  <2>2. Rest'
    <3>1. ASSUME NEW c \in Callers, Save(c) \/ CallerStep(c)
          PROVE  Rest'
       BY <1>1, <2>1, <3>1, SaveStep, ProbedStep, ManagerStartedStep, StartFailsStep,
         HostKnownStep,
         ConnectedStep, LeftStep, CloseStoreStep, StoreClosedStep, SavedStep, ReconnectStep DEF CallerStep
    <3>2. ASSUME NEW n \in Connections, ConnectionStep(n)
          PROVE  Rest'
       BY <1>1, <2>1, <3>2, NamesAnsweredStep, StoreCreatedStep, StoreStartedStep,
         ManagerStoppedStep,
         AttentionStep DEF ConnectionStep
    <3>3. CASE Start \/ Stop \/ PageOpens \/ PageCloses \/ GraceOver
      BY <1>1, <2>1, <3>3, StartStep, StopStep, AttentionStep
    <3>4. CASE UNCHANGED vars
      BY <1>1, <2>1, <3>4, StutterStep
    <3> QED
      BY <1>1, <3>1, <3>2, <3>3, <3>4 DEF Next
  <2> QED
    BY <2>1, <2>2 DEF IInv
<1> QED
  BY InitInv, <1>1, PTL DEF Spec

(* Every part of the connection keeps its type; the handle of the polling  *)
(* is never that of an interval that was cleared.                          *)
THEOREM TypeCorrect == Spec => []TypeOK
<1>1. Init => TypeOK
  BY InitInv DEF IInv
<1> QED
  BY <1>1, TypeStep, PTL DEF Spec

-----------------------------------------------------------------------------
(* What holds with any number of savers, and of managers that fail late.   *)

(* A new manager was never idle, and is the one its caller starts.         *)
LEMMA Made ==
    ASSUME TypeOK, NEW c \in Callers, NEW for \in Nat, MakeManager(c, for)
    PROVE  \E n \in Connections :
              /\ manager' = n /\ phase[n] = "none" /\ madeFor'[n] = for
              /\ phase' = [phase EXCEPT ![n] = "starting"]
              /\ Others(c) /\ job'[c].at = "starting" /\ job'[c].on = n
              /\ UNCHANGED <<config, idle, dropped>>
<1>1. PICK n \in Connections :
        /\ phase[n] = "none" /\ manager' = n
        /\ phase' = [phase EXCEPT ![n] = "starting"]
        /\ madeFor' = [madeFor EXCEPT ![n] = for]
        /\ job' = [job EXCEPT ![c] = [at |-> "starting", on |-> n, seq |-> job[c].seq, for |-> for]]
        /\ UNCHANGED <<config, idle, dropped>>
  BY DEF MakeManager
<1>2. DOMAIN job = Callers /\ DOMAIN madeFor = Connections
  BY DEF TypeOK
<1>3. Others(c) /\ job'[c].at = "starting" /\ job'[c].on = n
  BY <1>1, <1>2 DEF Others
<1> QED
  BY <1>1, <1>2, <1>3

LEMMA Asked ==
    ASSUME TypeOK, NEW c \in Callers, Connect(c)
    PROVE  /\ seq' = seq + 1
           /\ \/ MakeManager(c, config)
              \/ /\ Others(c) /\ job'[c].at = "probing" /\ job'[c].on = 0
                 /\ job'[c].seq = seq + 1 /\ job'[c].for = config
                 /\ UNCHANGED <<config, manager, phase, idle, madeFor, dropped>>
<1>1. DOMAIN job = Callers
  BY DEF TypeOK
<1> QED
  BY <1>1 DEF Connect, Others

StopInv == stopped => ~At("stop", "ready")

(* A manager that starts is started by somebody.                           *)
StartersInv ==
    \A n \in Connections : phase[n] = "starting" =>
        \E c \in Callers : At(c, "starting") /\ job[c].on = n

(* A connection that nobody looks at is idle, or its grace period runs, or *)
(* a caller is still connecting it, or disconnects it.                     *)
UnattendedIsSeenTo ==
    ~watched /\ ~stopped /\ manager # 0 /\ manager \notin idle =>
        \/ idleTimer
        \/ \E c \in Callers : job[c].at \in {"starting", "asking", "naming"} /\ job[c].on = manager
        \/ \E c \in Callers : At(c, "leaving")

AttentionInv == HeldExists /\ StopInv /\ AttendedIsSubscribed /\ StartersInv /\ UnattendedIsSeenTo

(* The steps of a caller that leave the manager and the attention alone,   *)
(* or drop the manager.                                                    *)
LEMMA AttentionKept ==
    ASSUME TypeOK, AttentionInv, NEW c \in Callers, Others(c),
           \A n \in Connections : (phase'[n] = "none" <=> phase[n] = "none")
                                  /\ (phase'[n] = "starting" => phase[n] = "starting"),
           At(c, "starting") => job'[c].at = "starting" \/ phase'[job[c].on] # "starting",
           job'[c].at = "starting" => job'[c].on = job[c].on,
           manager' \in {0, manager},
           UNCHANGED <<stopped, idle, watched>>,
           c = "stop" => job'[c].at # "ready",
           \/ manager' = 0
           \/ idleTimer'
           \/ job'[c].at = "leaving"
           \/ /\ idleTimer' = idleTimer /\ ~At(c, "leaving")
              /\ job[c].at \in {"starting", "asking", "naming"} /\ job[c].on = manager =>
                    job'[c].at \in {"starting", "asking", "naming"} /\ job'[c].on = manager
    PROVE  AttentionInv'
<1>0. /\ HeldExists /\ StopInv /\ AttendedIsSubscribed /\ StartersInv /\ UnattendedIsSeenTo
      /\ manager \in 0..MaxConnections /\ idle \subseteq Connections
  BY DEF AttentionInv, TypeOK
<1>1. HeldExists'
  BY <1>0, Names DEF HeldExists
<1>2. StopInv'
  BY <1>0, Names DEF StopInv, At, Others
<1>3. AttendedIsSubscribed'
  BY <1>0 DEF AttendedIsSubscribed
<1>4. StartersInv'
  <2> SUFFICES ASSUME NEW n \in Connections, phase'[n] = "starting"
               PROVE  \E d \in Callers : job'[d].at = "starting" /\ job'[d].on = n
    BY DEF StartersInv, At
  <2>1. PICK d \in Callers : job[d].at = "starting" /\ job[d].on = n
    BY <1>0 DEF StartersInv, At
  <2>2. CASE d # c
    BY <2>1, <2>2 DEF Others
  <2>3. CASE d = c
    BY <2>1, <2>3 DEF At
  <2> QED
    BY <2>2, <2>3
<1>5. UnattendedIsSeenTo'
  <2> SUFFICES ASSUME ~watched, ~stopped, manager' # 0, manager' \notin idle
               PROVE  \/ idleTimer'
                      \/ \E d \in Callers : job'[d].at \in {"starting", "asking", "naming"}
                                            /\ job'[d].on = manager'
                      \/ \E d \in Callers : job'[d].at = "leaving"
    BY DEF UnattendedIsSeenTo, At
  <2>1. CASE idleTimer' \/ job'[c].at = "leaving"
    BY <2>1
  <2>2. CASE /\ idleTimer' = idleTimer /\ ~At(c, "leaving")
             /\ job[c].at \in {"starting", "asking", "naming"} /\ job[c].on = manager =>
                   job'[c].at \in {"starting", "asking", "naming"} /\ job'[c].on = manager
    <3>1. \/ idleTimer
          \/ \E d \in Callers : job[d].at \in {"starting", "asking", "naming"}
                                /\ job[d].on = manager
          \/ \E d \in Callers : job[d].at = "leaving"
      BY <1>0 DEF UnattendedIsSeenTo, At
    <3>2. ASSUME NEW d \in Callers, job[d].at = "leaving" PROVE job'[d].at = "leaving"
      BY <2>2, <3>2 DEF Others, At
    <3>3. ASSUME NEW d \in Callers, job[d].at \in {"starting", "asking", "naming"},
                 job[d].on = manager
          PROVE  job'[d].at \in {"starting", "asking", "naming"} /\ job'[d].on = manager
      BY <2>2, <3>3 DEF Others
    <3> QED
      BY <2>2, <3>1, <3>2, <3>3
  <2> QED
    BY <2>1, <2>2
<1> QED
  BY <1>1, <1>2, <1>3, <1>4, <1>5 DEF AttentionInv

(* A caller with a new manager, which is not idle, sees to it.             *)
LEMMA AttentionMade ==
    ASSUME TypeOK, AttentionInv, NEW c \in Callers, NEW for \in Nat, MakeManager(c, for),
           ~At(c, "starting"), stopped' => stopped
    PROVE  AttentionInv'
<1>0. /\ HeldExists /\ StopInv /\ AttendedIsSubscribed /\ StartersInv
      /\ manager \in 0..MaxConnections /\ idle \subseteq Connections /\ DOMAIN phase = Connections
  BY DEF AttentionInv, TypeOK
<1>1. PICK n \in Connections :
        /\ manager' = n /\ phase[n] = "none"
        /\ phase' = [phase EXCEPT ![n] = "starting"]
        /\ Others(c) /\ job'[c].at = "starting" /\ job'[c].on = n /\ UNCHANGED idle
  BY Made
<1>2. n \notin idle
  BY <1>0, <1>1 DEF HeldExists
<1>3. phase'[n] = "starting" /\ \A k \in Connections : k # n => phase'[k] = phase[k]
  BY <1>0, <1>1
<1>4. HeldExists'
  BY <1>0, <1>1, <1>3 DEF HeldExists
<1>5. StopInv'
  BY <1>0, <1>1, Names DEF StopInv, At, Others
<1>6. AttendedIsSubscribed'
  BY <1>1, <1>2 DEF AttendedIsSubscribed
<1>7. StartersInv'
  <2> SUFFICES ASSUME NEW k \in Connections, phase'[k] = "starting"
               PROVE  \E d \in Callers : job'[d].at = "starting" /\ job'[d].on = k
    BY DEF StartersInv, At
  <2>1. CASE k = n
    BY <1>1, <2>1
  <2>2. CASE k # n
    <3>1. PICK d \in Callers : job[d].at = "starting" /\ job[d].on = k
      BY <1>0, <1>3, <2>2 DEF StartersInv, At
    <3> QED
      BY <1>1, <3>1 DEF Others, At
  <2> QED
    BY <2>1, <2>2
<1>8. UnattendedIsSeenTo'
  BY <1>1 DEF UnattendedIsSeenTo
<1> QED
  BY <1>4, <1>5, <1>6, <1>7, <1>8 DEF AttentionInv

(* A caller that probes has no manager yet.                                *)
LEMMA AttentionAsked ==
    ASSUME TypeOK, AttentionInv, NEW c \in Callers, Connect(c), job[c].at \in {"ready", "loading"},
           UNCHANGED <<stopped, watched, idleTimer>>
    PROVE  AttentionInv'
<1>1. CASE MakeManager(c, config)
  BY <1>1, AttentionMade DEF TypeOK, At
<1>2. CASE /\ Others(c) /\ job'[c].at = "probing"
           /\ UNCHANGED <<config, manager, phase, idle, madeFor, dropped>>
  BY <1>2, AttentionKept DEF At
<1> QED
  BY <1>1, <1>2, Asked

LEMMA AttentionGoesOn ==
    ASSUME TypeOK, AttentionInv, [Next]_vars
    PROVE  AttentionInv'
<1> USE Names
<1>0. /\ HeldExists /\ StopInv /\ AttendedIsSubscribed /\ StartersInv /\ UnattendedIsSeenTo
      /\ manager \in 0..MaxConnections /\ idle \subseteq Connections
      /\ phase \in [Connections -> Phases] /\ DOMAIN job = Callers
      /\ \A c \in Callers : job[c].on \in 0..MaxConnections /\ job[c].for \in Nat
  BY DEF AttentionInv, TypeOK, Phases
<1>1. CASE Start
  <2>1. /\ At("start", "ready") /\ At("stop", "ready") /\ stopped' = FALSE
        /\ Connect("start") \/ (Return("start") /\ UNCHANGED connection)
        /\ UNCHANGED <<watched, idleTimer>>
    BY <1>1 DEF Start, attention
  <2>2. stopped' = stopped
    BY <1>0, <2>1 DEF StopInv, TypeOK
  <2>3. CASE Return("start") /\ UNCHANGED connection
    <3>1. Others("start") /\ job'["start"].at = "returned"
      BY <2>3, Returning
    <3>2. UNCHANGED <<manager, phase, idle>>
      BY <2>3 DEF connection
    <3> QED
      BY <2>1, <2>2, <3>1, <3>2, AttentionKept DEF At
  <2> QED
    BY <2>1, <2>2, <2>3, AttentionAsked DEF At
<1>2. CASE Stop
  <2>1. WaitFor("stop", "leaving", manager) /\ StopManager(manager)
        /\ UNCHANGED <<manager, idle, watched>> /\ stopped'
    BY <1>2 DEF Stop
  <2>2. Others("stop") /\ job'["stop"].at = "leaving"
    BY <1>0, <2>1, Waiting DEF Steps
  <2>3. \A n \in Connections : (phase'[n] # "none" <=> phase[n] # "none")
                               /\ (phase'[n] = "starting" => phase[n] = "starting")
    BY <1>0, <2>1, ManagerLeft
  <2>4. At("stop", "ready")
    BY <1>2 DEF Stop
  <2>5. HeldExists' /\ StopInv' /\ AttendedIsSubscribed' /\ UnattendedIsSeenTo'
    BY <1>0, <2>1, <2>2, <2>3 DEF HeldExists, StopInv, AttendedIsSubscribed, UnattendedIsSeenTo, At
  <2>6. StartersInv'
    BY <1>0, <2>2, <2>3, <2>4 DEF StartersInv, At, Others
  <2> QED
    BY <2>5, <2>6 DEF AttentionInv
<1>3. CASE PageOpens
  <2>1. watched' /\ UNCHANGED <<stopped, manager, phase, job>> /\ Resubscribe
    BY <1>3 DEF PageOpens
  <2>2. idle' \subseteq idle /\ (manager # 0 /\ ~stopped => manager \notin idle')
    BY <2>1 DEF Resubscribe
  <2>3. HeldExists' /\ StopInv' /\ AttendedIsSubscribed' /\ UnattendedIsSeenTo' /\ StartersInv'
    BY <1>0, <2>1, <2>2
       DEF HeldExists, StopInv, AttendedIsSubscribed, UnattendedIsSeenTo, StartersInv, At
  <2> QED
    BY <2>3 DEF AttentionInv
<1>4. CASE PageCloses
  <2>1. ~watched' /\ UNCHANGED <<stopped, manager, phase, idle, job>> /\ (~stopped => idleTimer')
    BY <1>4 DEF PageCloses, ArmIdleTimer, connection
  <2>2. HeldExists' /\ StopInv' /\ AttendedIsSubscribed' /\ UnattendedIsSeenTo' /\ StartersInv'
    BY <1>0, <2>1
       DEF HeldExists, StopInv, AttendedIsSubscribed, UnattendedIsSeenTo, StartersInv, At
  <2> QED
    BY <2>2 DEF AttentionInv
<1>5. CASE GraceOver
  <2>1. UNCHANGED <<stopped, manager, phase, job, watched>>
    BY <1>5 DEF GraceOver
  <2>2. CASE (manager = 0 \/ watched \/ stopped \/ manager \in idle) /\ UNCHANGED idle
    BY <1>0, <2>1, <2>2
       DEF HeldExists, StopInv, AttendedIsSubscribed, UnattendedIsSeenTo, StartersInv, At, AttentionInv
  <2>3. CASE manager # 0 /\ ~watched /\ idle' = idle \union {manager}
    BY <1>0, <2>1, <2>3
       DEF HeldExists, StopInv, AttendedIsSubscribed, UnattendedIsSeenTo, StartersInv, At, AttentionInv
  <2>4. CASE manager # 0 /\ ~watched /\ phase[manager] = "starting" /\ UNCHANGED idle
    <3>1. \E c \in Callers : job[c].at = "starting" /\ job[c].on = manager
      BY <1>0, <2>4 DEF StartersInv, At
    <3> QED
      BY <1>0, <2>1, <2>4, <3>1
         DEF HeldExists, StopInv, AttendedIsSubscribed, UnattendedIsSeenTo, StartersInv, At, AttentionInv
  <2> QED
    BY <1>5, <2>2, <2>3, <2>4 DEF GraceOver
<1>6. ASSUME NEW c \in Callers, Save(c) PROVE AttentionInv'
  <2>1. /\ c \in Savers /\ At(c, "ready") /\ StopManager(manager) /\ WaitFor(c, "leaving", manager)
        /\ UNCHANGED <<stopped, manager, idle, watched>>
    BY <1>6 DEF Save
  <2>2. Others(c) /\ job'[c].at = "leaving"
    BY <1>0, <2>1, Waiting DEF Steps
  <2>3. \A n \in Connections : (phase'[n] # "none" <=> phase[n] # "none")
                               /\ (phase'[n] = "starting" => phase[n] = "starting")
    BY <1>0, <2>1, ManagerLeft
  <2> QED
    BY <2>1, <2>2, <2>3, AttentionKept DEF At
<1>7. ASSUME NEW c \in Callers, Probed(c) PROVE AttentionInv'
  <2>1. At(c, "probing") /\ UNCHANGED <<stopped, watched, idleTimer>>
    BY <1>7 DEF Probed, attention
  <2>2. CASE MakeManager(c, job[c].for)
    BY <1>0, <2>1, <2>2, AttentionMade DEF At
  <2>3. CASE Return(c) /\ UNCHANGED <<config, manager, phase, idle, madeFor, dropped>>
    <3>1. Others(c) /\ job'[c].at \in {"ready", "returned"} /\ (c = "stop" => job'[c].at = "returned")
      BY <2>3, Returning
    <3> QED
      BY <2>1, <2>3, <3>1, AttentionKept DEF At
  <2> QED
    BY <1>7, <2>2, <2>3 DEF Probed
<1>8. ASSUME NEW c \in Callers, ManagerStarted(c) PROVE AttentionInv'
  <2>1. /\ At(c, "starting") /\ GoTo(c, "asking")
        /\ phase' = IF phase[job[c].on] = "starting" THEN [phase EXCEPT ![job[c].on] = "up"] ELSE phase
        /\ UNCHANGED <<stopped, manager, idle, watched, idleTimer>>
    BY <1>8 DEF ManagerStarted, attention
  <2>2. Others(c) /\ job'[c].at = "asking" /\ job'[c].on = job[c].on
    BY <2>1, Going DEF Steps
  <2>3. /\ \A n \in Connections : (phase'[n] = "none" <=> phase[n] = "none")
                                  /\ (phase'[n] = "starting" => phase[n] = "starting")
        /\ job[c].on \in Connections => phase'[job[c].on] # "starting"
    BY <1>0, <2>1 DEF Phases
  <2>4. StartersInv'
    <3> SUFFICES ASSUME NEW n \in Connections, phase'[n] = "starting"
                 PROVE  \E d \in Callers : job'[d].at = "starting" /\ job'[d].on = n
      BY DEF StartersInv, At
    <3>1. PICK d \in Callers : job[d].at = "starting" /\ job[d].on = n
      BY <1>0, <2>3 DEF StartersInv, At
    <3> QED
      BY <2>2, <2>3, <3>1 DEF Others
  <2>5. HeldExists' /\ StopInv' /\ AttendedIsSubscribed'
    BY <1>0, <2>1, <2>2, <2>3 DEF HeldExists, StopInv, AttendedIsSubscribed, At, Others
  <2>6. UnattendedIsSeenTo'
    <3>1. ASSUME NEW d \in Callers, job[d].at \in {"starting", "asking", "naming"}, job[d].on = manager
          PROVE  job'[d].at \in {"starting", "asking", "naming"} /\ job'[d].on = manager
      BY <2>2, <3>1 DEF Others
    <3>2. ASSUME NEW d \in Callers, job[d].at = "leaving" PROVE job'[d].at = "leaving"
      BY <2>1, <2>2, <3>2 DEF Others, At
    <3> QED
      BY <1>0, <2>1, <3>1, <3>2 DEF UnattendedIsSeenTo, At
  <2> QED
    BY <2>4, <2>5, <2>6 DEF AttentionInv
<1>9. ASSUME NEW c \in Callers, StartFails(c) PROVE AttentionInv'
  <2>1. /\ At(c, "starting") /\ Return(c) /\ manager' = 0
        /\ phase' = IF phase[job[c].on] = "starting" THEN [phase EXCEPT ![job[c].on] = "failed"] ELSE phase
        /\ UNCHANGED <<stopped, idle, watched>>
    BY <1>9 DEF StartFails, attention
  <2>2. Others(c) /\ job'[c].at \in {"ready", "returned"} /\ (c = "stop" => job'[c].at = "returned")
    BY <2>1, Returning
  <2>3. /\ \A n \in Connections : (phase'[n] = "none" <=> phase[n] = "none")
                                  /\ (phase'[n] = "starting" => phase[n] = "starting")
        /\ job[c].on \in Connections => phase'[job[c].on] # "starting"
    BY <1>0, <2>1 DEF Phases
  <2>4. StartersInv'
    <3> SUFFICES ASSUME NEW n \in Connections, phase'[n] = "starting"
                 PROVE  \E d \in Callers : job'[d].at = "starting" /\ job'[d].on = n
      BY DEF StartersInv, At
    <3>1. PICK d \in Callers : job[d].at = "starting" /\ job[d].on = n
      BY <1>0, <2>3 DEF StartersInv, At
    <3> QED
      BY <2>2, <2>3, <3>1 DEF Others
  <2>5. HeldExists' /\ StopInv' /\ AttendedIsSubscribed' /\ UnattendedIsSeenTo'
    BY <1>0, <2>1, <2>2, <2>3 DEF HeldExists, StopInv, AttendedIsSubscribed, UnattendedIsSeenTo, At, Others
  <2> QED
    BY <2>4, <2>5 DEF AttentionInv
<1>10. ASSUME NEW c \in Callers, HostKnown(c) PROVE AttentionInv'
  <2>1. /\ At(c, "asking") /\ UNCHANGED <<stopped, manager, phase, idle, watched, idleTimer>>
        /\ (manager = job[c].on /\ GoTo(c, "naming")) \/ (manager # job[c].on /\ Return(c))
    BY <1>10 DEF HostKnown, connection, attention
  <2>2. CASE manager = job[c].on /\ GoTo(c, "naming")
    <3>1. Others(c) /\ job'[c].at = "naming" /\ job'[c].on = job[c].on
      BY <2>2, Going DEF Steps
    <3> QED
      BY <2>1, <2>2, <3>1, AttentionKept DEF At
  <2>3. CASE manager # job[c].on /\ Return(c)
    <3>1. Others(c) /\ job'[c].at \in {"ready", "returned"} /\ (c = "stop" => job'[c].at = "returned")
      BY <2>3, Returning
    <3> QED
      BY <2>1, <2>3, <3>1, AttentionKept DEF At
  <2> QED
    BY <2>1, <2>2, <2>3
<1>11. ASSUME NEW c \in Callers, Connected(c) PROVE AttentionInv'
  <2>1. /\ At(c, "naming") /\ Return(c) /\ UNCHANGED <<stopped, manager, phase, idle, watched>>
        /\ \/ manager = job[c].on /\ idleTimer' = (~stopped /\ ~watched')
           \/ manager # job[c].on /\ idleTimer' = idleTimer
    BY <1>11 DEF Connected, connection, ArmIdleTimer
  <2>2. Others(c) /\ job'[c].at \in {"ready", "returned"} /\ (c = "stop" => job'[c].at = "returned")
    BY <2>1, Returning
  <2>3. HeldExists' /\ StopInv' /\ AttendedIsSubscribed'
    BY <1>0, <2>1, <2>2 DEF HeldExists, StopInv, AttendedIsSubscribed, At, Others
  <2>4. StartersInv'
    BY <1>0, <2>1, <2>2 DEF StartersInv, At, Others
  <2>5. CASE manager = job[c].on /\ idleTimer' = (~stopped /\ ~watched')
    <3>1. UnattendedIsSeenTo'
      BY <2>1, <2>5 DEF UnattendedIsSeenTo
    <3> QED
      BY <2>3, <2>4, <3>1 DEF AttentionInv
  <2>6. CASE manager # job[c].on /\ idleTimer' = idleTimer
    BY <2>1, <2>2, <2>6, AttentionKept DEF At
  <2> QED
    BY <2>1, <2>5, <2>6
<1>12. ASSUME NEW c \in Callers, Left(c) PROVE AttentionInv'
  <2>1. /\ At(c, "leaving") /\ manager' = 0 /\ WaitFor(c, "settling", metaStarting)
        /\ UNCHANGED <<stopped, phase, idle, watched>>
    BY <1>12 DEF Left, attention
  <2>2. Others(c) /\ job'[c].at = "settling"
    BY <2>1, Waiting DEF Steps, TypeOK
  <2> QED
    BY <2>1, <2>2, AttentionKept DEF At
<1>13. ASSUME NEW c \in Callers, CloseStore(c) \/ StoreClosed(c) \/ Saved(c)
       PROVE  AttentionInv'
  <2>1. /\ job[c].at \in {"settling", "closing", "saving"}
        /\ UNCHANGED <<stopped, manager, phase, idle, watched, idleTimer>>
    BY <1>13 DEF CloseStore, StoreClosed, Saved, connection, attention, At
  <2>2. Others(c) /\ job'[c].at \in {"closing", "saving", "loading", "ready", "returned"}
        /\ (c = "stop" => job'[c].at # "ready")
    <3>1. \/ Return(c)
          \/ \E at \in {"closing", "saving", "loading"} : GoTo(c, at)
      BY <1>13 DEF CloseStore, StoreClosed, Saved
    <3> QED
      BY <3>1, Returning, Going DEF Steps
  <2> QED
    BY <2>1, <2>2, AttentionKept DEF At
<1>14. ASSUME NEW c \in Callers, Reconnect(c) PROVE AttentionInv'
  <2>1. At(c, "loading") /\ UNCHANGED <<stopped, watched, idleTimer>>
    BY <1>14 DEF Reconnect, attention
  <2>2. CASE Connect(c)
    BY <2>1, <2>2, AttentionAsked DEF At
  <2>3. CASE Return(c) /\ UNCHANGED connection
    <3>1. Others(c) /\ job'[c].at \in {"ready", "returned"} /\ (c = "stop" => job'[c].at = "returned")
      BY <2>3, Returning
    <3>2. UNCHANGED <<manager, phase, idle>>
      BY <2>3 DEF connection
    <3> QED
      BY <2>1, <3>1, <3>2, AttentionKept DEF At
  <2> QED
    BY <1>14, <2>2, <2>3 DEF Reconnect
<1>15. ASSUME NEW n \in Connections, ConnectionStep(n) PROVE AttentionInv'
  <2>1. UNCHANGED <<stopped, manager, idle, job, watched, idleTimer>>
    BY <1>15 DEF ConnectionStep, NamesAnswered, StoreCreated, StoreStarted, ManagerStopped,
                 Resubscribed, connection, attention
  <2>2. \A k \in Connections : (phase'[k] = "none" <=> phase[k] = "none")
                               /\ (phase'[k] = "starting" => phase[k] = "starting")
    <3>1. \/ phase' = phase
          \/ phase[n] = "stopping" /\ phase' = [phase EXCEPT ![n] = "stopped"]
      BY <1>15 DEF ConnectionStep, NamesAnswered, StoreCreated, StoreStarted, ManagerStopped,
                   Resubscribed, connection
    <3> QED
      BY <1>0, <3>1
  <2>3. HeldExists' /\ StopInv' /\ AttendedIsSubscribed' /\ UnattendedIsSeenTo' /\ StartersInv'
    BY <1>0, <2>1, <2>2
       DEF HeldExists, StopInv, AttendedIsSubscribed, UnattendedIsSeenTo, StartersInv, At
  <2> QED
    BY <2>3 DEF AttentionInv
<1>16. CASE UNCHANGED vars
  BY <1>0, <1>16 DEF HeldExists, StopInv, AttendedIsSubscribed, UnattendedIsSeenTo, StartersInv, At,
                     AttentionInv, vars, connection, attention
<1> QED
  BY <1>1, <1>2, <1>3, <1>4, <1>5, <1>6, <1>7, <1>8, <1>9, <1>10, <1>11, <1>12, <1>13, <1>14, <1>15,
     <1>16 DEF Next, CallerStep

-----------------------------------------------------------------------------
(* The connection in use is the saved one, also of managers that fail      *)
(* late, as long as one client saves at a time.                            *)
PlacesInv ==
    /\ job["start"].at \in {"ready", "probing", "starting", "asking", "naming", "returned"}
    /\ job["stop"].at \in {"ready", "leaving", "settling", "closing", "returned"}
    /\ \A c \in Savers : job[c].at # "returned"
    /\ At("start", "ready") => \A c \in Savers : At(c, "ready")

SaversGone == \A c \in Savers : job[c].at \in Gone => manager = 0
ProbesTheSaved == \A c \in Callers : Probing(c) => job[c].for = config

SavingInv ==
    SeqInv /\ PlacesInv /\ NoneWhileReplacing /\ SaversGone /\ ProbesTheSaved
    /\ ConnectionIsTheSavedOne

(* A step that connects nothing and does not save.                         *)
LEMMA SavingKept ==
    ASSUME TypeOK, SavingInv, NEW c \in Callers, Others(c), UNCHANGED <<seq, config, madeFor>>,
           manager' \in {0, manager}, job'[c].at # "probing", c \in Savers => ~At(c, "ready"),
           c = "start" => job'[c].at \in {"starting", "asking", "naming", "returned"},
           c = "stop" => job'[c].at \in {"leaving", "settling", "closing", "returned"},
           c \in Savers => job'[c].at # "returned",
           c \in Savers /\ job'[c].at \in Gone => manager' = 0,
           c \in Savers /\ job'[c].at \in Replacing => job[c].at \in Replacing
    PROVE  SavingInv'
<1>0. SeqInv /\ PlacesInv /\ NoneWhileReplacing /\ SaversGone /\ ProbesTheSaved
      /\ ConnectionIsTheSavedOne
  BY DEF SavingInv
<1>1. \A d \in Callers : Probing(d)' => Probing(d) /\ job'[d] = job[d]
  BY DEF Probing, At, Others
<1>2. SeqInv'
  BY <1>0 DEF SeqInv, At, Others
<1>3. NoneWhileReplacing'
  <2>1. ASSUME NEW d \in Savers, job'[d].at \in Replacing PROVE job[d].at \in Replacing
    BY <2>1, Names DEF Others
  <2> QED
    BY <1>0, <1>1, <2>1 DEF NoneWhileReplacing
<1>4. ConnectionIsTheSavedOne'
  BY <1>0 DEF ConnectionIsTheSavedOne
<1>5. PlacesInv'
  BY <1>0, Names DEF PlacesInv, At, Others
<1>6. SaversGone'
  BY <1>0, Names DEF SaversGone, Others
<1>7. ProbesTheSaved'
  BY <1>0, <1>1 DEF ProbesTheSaved
<1> QED
  BY <1>2, <1>3, <1>4, <1>5, <1>6, <1>7 DEF SavingInv

(* A caller connects what is saved when no saver disconnects.              *)
LEMMA SavingConnects ==
    ASSUME TypeOK, SavingInv, NEW c \in Callers, c # "stop", c \in Savers => ~At(c, "ready"),
           \A d \in Savers : d # c => job[d].at \notin Replacing,
           \/ seq' = seq /\ MakeManager(c, config)
           \/ Connect(c)
    PROVE  SavingInv'
<1>0. /\ SeqInv /\ PlacesInv /\ ProbesTheSaved /\ ConnectionIsTheSavedOne
      /\ seq \in Nat /\ config \in Nat /\ \A d \in Callers : job[d].seq \in Nat
  BY DEF SavingInv, TypeOK
<1>1. /\ Others(c) /\ seq' \in {seq, seq + 1}
      /\ \/ job'[c].at = "starting"
         \/ job'[c].at = "probing" /\ job'[c].seq = seq' /\ job'[c].for = config'
      /\ UNCHANGED config
  BY <1>0, Made, Asked
<1>2. ConnectionIsTheSavedOne'
  <2>1. \/ UNCHANGED <<manager, madeFor, config>>
        \/ manager' # 0 /\ madeFor'[manager'] = config /\ config' = config
    BY <1>0, Made, Asked, Names
  <2> QED
    BY <1>0, <2>1 DEF ConnectionIsTheSavedOne
<1>3. SeqInv'
  BY <1>0, <1>1 DEF SeqInv, At, Others
<1>4. \A d \in Savers : job'[d].at \notin Replacing /\ job'[d].at # "returned"
  BY <1>0, <1>1, Names DEF PlacesInv, Others, Replacing
<1>5. NoneWhileReplacing' /\ SaversGone'
  BY <1>4 DEF NoneWhileReplacing, SaversGone, Gone, Replacing
<1>6. PlacesInv'
  BY <1>0, <1>1, <1>4, Names DEF PlacesInv, At, Others
<1>7. ProbesTheSaved'
  BY <1>0, <1>1 DEF ProbesTheSaved, Probing, At, Others, SeqInv
<1> QED
  BY <1>2, <1>3, <1>5, <1>6, <1>7 DEF SavingInv

LEMMA SavingGoesOn ==
    ASSUME OneSaver, TypeOK, SavingInv, [Next]_vars
    PROVE  SavingInv'
<1> USE Names
<1>0. /\ SeqInv /\ PlacesInv /\ NoneWhileReplacing /\ SaversGone /\ ProbesTheSaved
      /\ ConnectionIsTheSavedOne
      /\ seq \in Nat /\ config \in Nat /\ manager \in 0..MaxConnections
      /\ metaStarting \in 0..MaxConnections
      /\ \A d \in Callers : job[d].seq \in Nat
  BY DEF SavingInv, TypeOK
<1>1. CASE Start
  <2>1. At("start", "ready") /\ (Connect("start") \/ (Return("start") /\ UNCHANGED connection))
    BY <1>1 DEF Start
  <2>2. \A d \in Savers : job[d].at \notin Replacing
    BY <1>0, <2>1 DEF PlacesInv, At, Replacing
  <2>3. CASE Return("start") /\ UNCHANGED connection
    <3>1. Others("start") /\ job'["start"].at = "returned"
      BY <2>3, Returning
    <3> QED
      BY <2>1, <2>3, <3>1, SavingKept DEF connection
  <2> QED
    BY <2>1, <2>2, <2>3, SavingConnects
<1>2. CASE Stop
  <2>1. WaitFor("stop", "leaving", manager) /\ UNCHANGED <<seq, config, madeFor, manager>>
    BY <1>2 DEF Stop
  <2>2. Others("stop") /\ job'["stop"].at = "leaving"
    BY <1>0, <2>1, Waiting DEF Steps
  <2> QED
    BY <2>1, <2>2, SavingKept
<1>3. CASE PageOpens \/ PageCloses \/ GraceOver \/ UNCHANGED vars
           \/ \E n \in Connections : ConnectionStep(n)
  <2>1. UNCHANGED <<seq, config, madeFor, manager, job>>
    BY <1>3 DEF PageOpens, PageCloses, GraceOver, vars, connection, ConnectionStep, NamesAnswered,
                StoreCreated, StoreStarted, ManagerStopped, Resubscribed
  <2>2. SeqInv' /\ PlacesInv' /\ SaversGone'
    BY <1>0, <2>1 DEF SeqInv, PlacesInv, SaversGone, At
  <2>3. NoneWhileReplacing' /\ ProbesTheSaved' /\ ConnectionIsTheSavedOne'
    BY <1>0, <2>1 DEF NoneWhileReplacing, ProbesTheSaved, ConnectionIsTheSavedOne, Probing, At
  <2> QED
    BY <2>2, <2>3 DEF SavingInv
<1>4. ASSUME NEW c \in Callers, Save(c) PROVE SavingInv'
  <2>1. /\ c \in Savers /\ ~At("start", "ready") /\ WaitFor(c, "leaving", manager)
        /\ seq' = seq + 1 /\ UNCHANGED <<config, manager, madeFor>>
    BY <1>4 DEF Save
  <2>2. Others(c) /\ job'[c].at = "leaving"
    BY <1>0, <2>1, Waiting DEF Steps
  <2>3. \A d \in Callers : ~Probing(d)'
    BY <1>0, <2>1, <2>2 DEF SeqInv, Probing, At, Others
  <2>4. NoneWhileReplacing' /\ ProbesTheSaved'
    BY <2>3 DEF NoneWhileReplacing, ProbesTheSaved
  <2>5. SeqInv'
    BY <1>0, <2>1, <2>2 DEF SeqInv, At, Others
  <2>6. PlacesInv'
    BY <1>0, <2>1, <2>2 DEF PlacesInv, At, Others
  <2>7. SaversGone' /\ ConnectionIsTheSavedOne'
    BY <1>0, <2>1, <2>2 DEF SaversGone, Gone, ConnectionIsTheSavedOne, Others
  <2> QED
    BY <2>4, <2>5, <2>6, <2>7 DEF SavingInv
<1>5. ASSUME NEW c \in Callers, Probed(c) PROVE SavingInv'
  <2>1. At(c, "probing") /\ seq' = seq /\ c # "stop"
    BY <1>0, <1>5 DEF Probed, PlacesInv, At
  <2>2. CASE IsCurrent(c) /\ MakeManager(c, job[c].for)
    <3>1. Probing(c)
      BY <2>1, <2>2 DEF IsCurrent, Probing
    <3>2. job[c].for = config /\ \A d \in Savers : job[d].at \notin Replacing
      BY <1>0, <3>1 DEF ProbesTheSaved, NoneWhileReplacing
    <3> QED
      BY <2>1, <2>2, <3>2, SavingConnects DEF At
  <2>3. CASE Return(c) /\ UNCHANGED <<config, manager, madeFor>>
    <3>1. Others(c) /\ (c \in Savers => job'[c].at = "ready") /\ (c \notin Savers => job'[c].at = "returned")
      BY <2>3, Returning
    <3> QED
      BY <2>1, <2>3, <3>1, SavingKept DEF At, Gone, Replacing
  <2> QED
    BY <1>5, <2>2, <2>3 DEF Probed
<1>6. ASSUME NEW c \in Callers, StartFails(c) \/ HostKnown(c) \/ Connected(c) \/ ManagerStarted(c)
      PROVE  SavingInv'
  <2>1. /\ job[c].at \in {"starting", "asking", "naming"} /\ c # "stop"
        /\ UNCHANGED <<seq, config, madeFor>> /\ manager' \in {0, manager}
    BY <1>0, <1>6 DEF StartFails, HostKnown, Connected, ManagerStarted, connection, PlacesInv, At
  <2>2. \/ Return(c)
        \/ \E at \in {"asking", "naming"} : GoTo(c, at)
    BY <1>6 DEF StartFails, HostKnown, Connected, ManagerStarted
  <2>3. Others(c) /\ job'[c].at \in {"asking", "naming", "ready", "returned"}
        /\ (c \in Savers => job'[c].at # "returned") /\ (c = "start" => job'[c].at # "ready")
    BY <2>2, Returning, Going DEF Steps
  <2> QED
    BY <2>1, <2>3, SavingKept DEF At, Gone, Replacing
<1>7. ASSUME NEW c \in Callers,
             Left(c) \/ CloseStore(c) \/ (StoreClosed(c) /\ c = "stop") \/ Saved(c)
      PROVE  SavingInv'
  <2>1. /\ job[c].at \in {"leaving", "settling", "closing", "saving"} /\ c # "start"
        /\ UNCHANGED <<seq, config, madeFor>>
        /\ manager' = IF job[c].at = "leaving" THEN 0 ELSE manager
    BY <1>0, <1>7 DEF Left, CloseStore, StoreClosed, Saved, connection, PlacesInv, At
  <2>2. Others(c) /\ job'[c].at \in {"settling", "closing", "loading", "ready", "returned"}
        /\ (c = "stop" => job'[c].at \notin {"loading", "ready"})
        /\ (c \in Savers => job'[c].at # "returned")
    <3>1. \/ Left(c) /\ WaitFor(c, "settling", metaStarting)
          \/ CloseStore(c) /\ GoTo(c, "closing")
          \/ c = "stop" /\ Return(c)
          \/ Saved(c) /\ c \in Savers /\ (GoTo(c, "loading") \/ Return(c))
      BY <1>0, <1>7 DEF Left, CloseStore, StoreClosed, Saved, PlacesInv, At
    <3> QED
      BY <1>0, <3>1, Returning, Going, Waiting DEF Steps
  <2>3. c \in Savers => manager' = 0
    BY <1>0, <2>1 DEF SaversGone, Gone
  <2> QED
    BY <2>1, <2>2, <2>3, SavingKept DEF At, Gone, Replacing
<1>8. ASSUME NEW c \in Callers, StoreClosed(c), c # "stop" PROVE SavingInv'
  <2>1. /\ At(c, "closing") /\ config' = config + 1 /\ GoTo(c, "saving")
        /\ UNCHANGED <<seq, manager, madeFor>>
    BY <1>8 DEF StoreClosed
  <2>2. c \in Savers
    BY <1>0, <1>8, <2>1 DEF PlacesInv, At
  <2>3. manager = 0 /\ \A d \in Callers : ~Probing(d)
    BY <1>0, <2>1, <2>2 DEF SaversGone, NoneWhileReplacing, Gone, Replacing, At
  <2>4. Others(c) /\ job'[c].at = "saving"
    BY <2>1, Going DEF Steps
  <2>5. \A d \in Callers : ~Probing(d)'
    BY <2>1, <2>3, <2>4 DEF Probing, At, Others
  <2>6. SeqInv' /\ PlacesInv'
    BY <1>0, <2>1, <2>2, <2>4 DEF SeqInv, PlacesInv, At, Others
  <2>7. NoneWhileReplacing' /\ ProbesTheSaved'
    BY <2>5 DEF NoneWhileReplacing, ProbesTheSaved
  <2>8. SaversGone' /\ ConnectionIsTheSavedOne'
    BY <2>1, <2>3 DEF SaversGone, ConnectionIsTheSavedOne
  <2> QED
    BY <2>6, <2>7, <2>8 DEF SavingInv
<1>9. ASSUME NEW c \in Callers, Reconnect(c) PROVE SavingInv'
  <2>1. At(c, "loading")
    BY <1>9 DEF Reconnect
  <2>2. c \in Savers
    BY <1>0, <2>1 DEF PlacesInv, At
  <2>3. CASE Connect(c)
    <3>1. \A d \in Savers : d # c => job[d].at \notin Replacing
      BY <2>2 DEF OneSaver
    <3> QED
      BY <2>1, <2>2, <2>3, <3>1, SavingConnects DEF At
  <2>4. CASE Return(c) /\ UNCHANGED connection
    <3>1. Others(c) /\ job'[c].at = "ready"
      BY <2>2, <2>4, Returning
    <3> QED
      BY <2>1, <2>2, <2>4, <3>1, SavingKept DEF connection, At, Gone, Replacing
  <2> QED
    BY <1>9, <2>3, <2>4 DEF Reconnect
<1> QED
  BY <1>1, <1>2, <1>3, <1>4, <1>5, <1>6, <1>7, <1>8, <1>9 DEF Next, CallerStep

-----------------------------------------------------------------------------
(* With one client that saves, no manager and no store is live that the    *)
(* backend does not hold, however often it saves and wherever start(),     *)
(* stop() and the saves interleave, but for a manager that the late        *)
(* failure of a start() dropped.                                           *)
THEOREM LiveIsHeld ==
    ASSUME OneSaver
    PROVE  Spec => []OnlyTheHeldLives
<1>1. IInv => OnlyTheHeldLives
  BY DEF IInv, Rest, LiveHeld, Live, OpenIsHeld, OnlyTheHeldLives
<1> QED
  BY Invariant, <1>1, PTL

(* With one client that saves, stop() leaves no store, and no manager but  *)
(* one that a late failure had dropped.  Intervals are not spoken of: what *)
(* #resubscribe() starts may outlive stop().                               *)
THEOREM StopIsComplete ==
    ASSUME OneSaver
    PROVE  Spec => []StopLeavesNothing
<1>1. IInv => StopLeavesNothing
  BY Names DEF IInv, Rest, LiveHeld, Live, GoneInv, Gone, ClosedInv, StopLeavesNothing, At
<1> QED
  BY Invariant, <1>1, PTL

(* With one client that saves at a time the connection in use is the saved *)
(* one, also when a manager fails after it was stopped.                    *)
THEOREM SavedIsConnected ==
    ASSUME OneSaver
    PROVE  Spec => []ConnectionIsTheSavedOne
<1>1. Init => TypeOK /\ SavingInv
  <2>1. Init => IInv
    BY InitInv
  <2>2. Init => \A c \in Callers : At(c, "ready")
    BY DEF Init, At
  <2>3. IInv /\ (\A c \in Callers : At(c, "ready")) => SavingInv
    BY Names DEF IInv, Rest, SavingInv, PlacesInv, SaversGone, ProbesTheSaved, Gone, At, Probing
  <2> QED
    BY <2>1, <2>2, <2>3 DEF IInv
<1>2. TypeOK /\ SavingInv /\ [Next]_vars => (TypeOK /\ SavingInv)'
  BY TypeStep, SavingGoesOn
<1>3. SavingInv => ConnectionIsTheSavedOne
  BY DEF SavingInv
<1> QED
  BY <1>1, <1>2, <1>3, PTL DEF Spec

LEMMA Attention == Spec => []AttentionInv
<1>1. Init => TypeOK /\ AttentionInv
  <2>1. Init => IInv /\ manager = 0 /\ \A n \in Connections : phase[n] = "none"
    BY InitInv DEF Init
  <2>2. IInv /\ manager = 0 /\ (\A n \in Connections : phase[n] = "none") => AttentionInv
    BY DEF IInv, Rest, StepsInv, AttentionInv, StopInv, StartersInv, UnattendedIsSeenTo
  <2> QED
    BY <2>1, <2>2 DEF IInv
<1>2. TypeOK /\ AttentionInv /\ [Next]_vars => (TypeOK /\ AttentionInv)'
  BY TypeStep, AttentionGoesOn
<1> QED
  BY <1>1, <1>2, PTL DEF Spec

(* A manager that is looked at is not idle, however many clients save and  *)
(* however the managers fail.                                              *)
THEOREM AttendedIsNotIdle == Spec => []AttendedIsSubscribed
<1>1. AttentionInv => AttendedIsSubscribed
  BY DEF AttentionInv
<1> QED
  BY Attention, <1>1, PTL

(* A connection that nobody looks at and that is not idle yet is never     *)
(* forgotten: its grace period runs, or the caller that will start it, or  *)
(* one that disconnects, is still on its way.  That the grace period then  *)
(* ends is left to fairness (UnattendedGoesIdle).                          *)
THEOREM UnattendedIsNotForgotten == Spec => []UnattendedIsSeenTo
<1>1. AttentionInv => UnattendedIsSeenTo
  BY DEF AttentionInv
<1> QED
  BY Attention, <1>1, PTL
=============================================================================
