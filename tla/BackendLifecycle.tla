-------------------------- MODULE BackendLifecycle --------------------------
(***************************************************************************)
(* The connection of packages/backend/src/api/backend.ts: start(), stop()  *)
(* and config.set, each a chain of steps between two awaits, the sessions  *)
(* a transport reports with the idle timer and the polling they start and  *)
(* stop, and the metadata store that follows the names.                    *)
(*                                                                         *)
(* Connection number n is the n-th manager #connectNow() makes.  Of the    *)
(* manager (InterfaceManager, LiteInterfaces) this module keeps whether    *)
(* start() and stop() were called and ended and whether it is idle, which  *)
(* both set before their first await.                                      *)
(***************************************************************************)
EXTENDS Naturals, FiniteSets

CONSTANTS
    Savers,         \* the clients that may call config.set
    MaxSaves,       \* bound: how often they do
    MaxVisits       \* bound: how often the first page is opened

ASSUME BoundsAssumption ==
    /\ MaxSaves \in Nat /\ MaxVisits \in Nat
    /\ IsFiniteSet(Savers) /\ "start" \notin Savers /\ "stop" \notin Savers

Callers == Savers \union {"start", "stop"}
MaxConnections == MaxSaves + 1
Connections == 1..MaxConnections

VARIABLES
    stopped,        \* #stopped
    config,         \* the connection of #config: 0 at first, then the number of the save
    seq,            \* #connectSeq
    manager,        \* #manager, 0 for undefined
    phase,          \* what a manager is: none, starting, up, failed, stopping, stopped
    idle,           \* the managers whose subscriptions were dropped
    madeFor,        \* the connection a manager was made with
    dropped,        \* history: managers a failed start() took out of #manager and left alive
    names,          \* its ReGa names: none, asked, answered
    store,          \* its #startMeta(): none, creating, starting, settled
    metaStarting,   \* #metaStarting, 0 for undefined
    meta,           \* #meta, 0 for undefined
    open            \* the stores that are open

VARIABLES
    job,            \* of a caller: the step it is at, what it waits for, its #connectSeq
    saves,          \* how often config.set was called
    watched,        \* #sessions > 0
    visits,         \* how often it became so
    idleTimer,      \* #idleTimer
    subscribing,    \* how many #resubscribe() await a manager
    intervals,      \* the polling intervals that run
    held            \* whether #serviceMessageTimer is the handle of one

connection == <<config, seq, manager, phase, idle, madeFor, dropped>>
taxonomy == <<names, store, metaStarting, meta, open>>
attention == <<watched, visits, idleTimer, subscribing, intervals, held>>
vars == <<stopped, connection, taxonomy, job, saves, attention>>

Steps == {"ready", "probing", "starting", "asking", "naming", "leaving", "settling",
          "closing", "saving", "loading", "returned"}

TypeOK ==
    /\ stopped \in BOOLEAN /\ config \in Nat /\ seq \in Nat
    /\ manager \in 0..MaxConnections
    /\ phase \in [Connections -> {"none", "starting", "up", "failed", "stopping", "stopped"}]
    /\ idle \subseteq Connections
    /\ madeFor \in [Connections -> Nat] /\ dropped \subseteq Connections
    /\ names \in [Connections -> {"none", "asked", "answered"}]
    /\ store \in [Connections -> {"none", "creating", "starting", "settled"}]
    /\ metaStarting \in 0..MaxConnections /\ meta \in 0..MaxConnections
    /\ open \subseteq Connections
    /\ job \in [Callers -> [at : Steps, on : 0..MaxConnections, seq : Nat, for : Nat]]
    /\ saves \in 0..MaxSaves /\ visits \in 0..MaxVisits
    /\ watched \in BOOLEAN /\ idleTimer \in BOOLEAN /\ held \in BOOLEAN
    /\ subscribing \in [Connections -> Nat] /\ intervals \in Nat
    /\ held => intervals > 0

Init ==
    /\ stopped = FALSE /\ config = 0 /\ seq = 0 /\ manager = 0
    /\ phase = [n \in Connections |-> "none"] /\ idle = {}
    /\ madeFor = [n \in Connections |-> 0] /\ dropped = {}
    /\ names = [n \in Connections |-> "none"]
    /\ store = [n \in Connections |-> "none"]
    /\ metaStarting = 0 /\ meta = 0 /\ open = {}
    /\ job = [c \in Callers |-> [at |-> "ready", on |-> 0, seq |-> 0, for |-> 0]]
    /\ saves = 0 /\ watched = FALSE /\ visits = 0 /\ idleTimer = FALSE
    /\ subscribing = [n \in Connections |-> 0]
    /\ intervals = 0 /\ held = FALSE

-----------------------------------------------------------------------------
GoTo(c, at) == job' = [job EXCEPT ![c].at = at]
WaitFor(c, at, n) == job' = [job EXCEPT ![c].at = at, ![c].on = n]
At(c, at) == job[c].at = at

(* A saver may call again, start() and stop() are called once.             *)
Return(c) ==
    job' = [job EXCEPT ![c] = [at |-> IF c \in Savers THEN "ready" ELSE "returned",
                               on |-> 0, seq |-> 0, for |-> 0]]

ClearTimers ==
    /\ idleTimer' = FALSE
    /\ held' = FALSE
    /\ intervals' = IF held THEN intervals - 1 ELSE intervals

(* The interval of a handle that is overwritten runs on.                   *)
StartServiceMessagePolling ==
    /\ intervals' = intervals + 1
    /\ held' = TRUE

ArmIdleTimer == idleTimer' = (~stopped /\ ~watched')

StopManager(n) ==
    phase' = IF n # 0 /\ phase[n] \in {"starting", "up"}
             THEN [phase EXCEPT ![n] = "stopping"] ELSE phase

-----------------------------------------------------------------------------
(* #connectNow() from its start, or from the answer of the host probe, to  *)
(* `await manager.start()`.                                                *)
MakeManager(c, for) ==
    \E n \in Connections :
        /\ phase[n] = "none" /\ \A k \in 1..(n - 1) : phase[k] # "none"
        /\ manager' = n
        /\ phase' = [phase EXCEPT ![n] = "starting"]
        /\ madeFor' = [madeFor EXCEPT ![n] = for]
        /\ job' = [job EXCEPT ![c] = [at |-> "starting", on |-> n, seq |-> @.seq, for |-> for]]
        /\ UNCHANGED <<config, idle, dropped>>

(* #connect(): a remote connection with a token asks the host first.       *)
Connect(c) ==
    /\ seq' = seq + 1
    /\ \/ MakeManager(c, config)
       \/ /\ job' = [job EXCEPT ![c] = [at |-> "probing", on |-> 0, seq |-> seq + 1,
                                        for |-> config]]
          /\ UNCHANGED <<config, manager, phase, idle, madeFor, dropped>>

(* Without a valid connection start() returns at once.                     *)
Start ==
    /\ At("start", "ready") /\ At("stop", "ready")
    /\ stopped' = FALSE
    /\ Connect("start") \/ (Return("start") /\ UNCHANGED connection)
    /\ UNCHANGED <<taxonomy, saves, attention>>

(* A slip: the probe's answer is taken whatever was saved meanwhile.       *)
IsCurrentUnlessStopped(c) == ~stopped

IsCurrent(c) == ~stopped /\ seq = job[c].seq

Probed(c) ==
    /\ At(c, "probing")
    /\ \/ IsCurrent(c) /\ MakeManager(c, job[c].for)
       \/ ~IsCurrent(c) /\ Return(c) /\ UNCHANGED <<config, manager, phase, idle, madeFor, dropped>>
    /\ UNCHANGED <<stopped, seq, taxonomy, saves, attention>>

ManagerStarted(c) ==
    /\ At(c, "starting")
    /\ LET n == job[c].on IN
       phase' = IF phase[n] = "starting" THEN [phase EXCEPT ![n] = "up"] ELSE phase
    /\ GoTo(c, "asking")
    /\ UNCHANGED <<stopped, config, seq, manager, idle, madeFor, dropped, taxonomy, saves,
                   attention>>

(* manager.start() throws: at once, or when a callback port is not to be   *)
(* had, which may show after the manager was stopped and another made.     *)
StartFails(c) ==
    /\ At(c, "starting")
    /\ LET n == job[c].on IN
       phase' = IF phase[n] = "starting" THEN [phase EXCEPT ![n] = "failed"] ELSE phase
    /\ dropped' = dropped \union {m \in Connections : m = manager /\ phase'[m] # "failed"}
    /\ manager' = 0
    /\ Return(c)
    /\ UNCHANGED <<stopped, config, seq, idle, madeFor, taxonomy, saves, attention>>

(* `await hostProbe`; with the connection still the current one, ReGa is   *)
(* asked for the names.                                                    *)
HostKnown(c) ==
    /\ At(c, "asking")
    /\ IF manager = job[c].on
       THEN names' = [names EXCEPT ![manager] = "asked"] /\ GoTo(c, "naming")
       ELSE Return(c) /\ UNCHANGED names
    /\ UNCHANGED <<stopped, connection, store, metaStarting, meta, open, saves, attention>>

NamesAnswered(n) ==
    /\ names[n] = "asked"
    /\ names' = [names EXCEPT ![n] = "answered"]
    /\ IF manager = n
       THEN metaStarting' = n /\ store' = [store EXCEPT ![n] = "creating"]
       ELSE UNCHANGED <<metaStarting, store>>
    /\ UNCHANGED <<stopped, connection, meta, open, job, saves, attention>>

(* A slip, and what 3.0 had before B-70: only a page that closes arms it.  *)
ConnectedUnarmed(c) ==
    /\ At(c, "naming")
    /\ IF manager = job[c].on
       THEN StartServiceMessagePolling /\ UNCHANGED idleTimer
       ELSE UNCHANGED <<intervals, held, idleTimer>>
    /\ Return(c)
    /\ UNCHANGED <<stopped, connection, taxonomy, saves, watched, visits, subscribing>>

(* waitAtMost(): the names have answered or were waited for long enough.   *)
Connected(c) ==
    /\ At(c, "naming")
    /\ UNCHANGED watched
    /\ IF manager = job[c].on
       THEN StartServiceMessagePolling /\ ArmIdleTimer
       ELSE UNCHANGED <<intervals, held, idleTimer>>
    /\ Return(c)
    /\ UNCHANGED <<stopped, connection, taxonomy, saves, visits, subscribing>>

StoreCreated(n) ==
    /\ store[n] = "creating"
    /\ IF stopped
       THEN store' = [store EXCEPT ![n] = "settled"] /\ UNCHANGED <<meta, open>>
       ELSE /\ store' = [store EXCEPT ![n] = "starting"]
            /\ meta' = n /\ open' = open \union {n}
    /\ UNCHANGED <<stopped, connection, names, metaStarting, job, saves, attention>>

StoreStarted(n) ==
    /\ store[n] = "starting"
    /\ store' = [store EXCEPT ![n] = "settled"]
    /\ UNCHANGED <<stopped, connection, names, metaStarting, meta, open, job, saves, attention>>

-----------------------------------------------------------------------------
(* config.set: #setConfig() with #disconnect() up to its first await.      *)
Save(c) ==
    /\ c \in Savers /\ At(c, "ready") /\ At("stop", "ready") /\ ~At("start", "ready")
    /\ saves < MaxSaves
    /\ saves' = saves + 1
    /\ seq' = seq + 1
    /\ ClearTimers
    /\ StopManager(manager)
    /\ WaitFor(c, "leaving", manager)
    /\ UNCHANGED <<stopped, config, manager, idle, madeFor, dropped, taxonomy, watched, visits,
                   subscribing>>

(* stop() up to its first await.  The hosts close the transport before.    *)
Stop ==
    /\ At("stop", "ready") /\ ~At("start", "ready")
    /\ stopped' = TRUE
    /\ ClearTimers
    /\ StopManager(manager)
    /\ WaitFor("stop", "leaving", manager)
    /\ UNCHANGED <<config, seq, manager, idle, madeFor, dropped, taxonomy, saves, watched,
                   visits, subscribing>>

ManagerStopped(n) ==
    /\ phase[n] = "stopping"
    /\ phase' = [phase EXCEPT ![n] = "stopped"]
    /\ UNCHANGED <<stopped, config, seq, manager, idle, madeFor, dropped, taxonomy, job, saves,
                   attention>>

(* `await this.#manager?.stop()` has ended.                                *)
Left(c) ==
    /\ At(c, "leaving")
    /\ job[c].on # 0 => phase[job[c].on] # "stopping"
    /\ manager' = 0
    /\ WaitFor(c, "settling", metaStarting)
    /\ UNCHANGED <<stopped, config, seq, phase, idle, madeFor, dropped, taxonomy, saves,
                   attention>>

(* A slip: the store in the making is not waited for.                      *)
MayCloseAtOnce(c) == TRUE

MayClose(c) == job[c].on # 0 => store[job[c].on] = "settled"

(* #metaStarting has settled: `await this.#meta?.stop()`.                  *)
CloseStore(c) ==
    /\ At(c, "settling")
    /\ MayClose(c)
    /\ metaStarting' = 0
    /\ open' = open \ {meta}
    /\ GoTo(c, "closing")
    /\ UNCHANGED <<stopped, connection, names, store, meta, saves, attention>>

(* setConnection() takes the connection before it awaits the file.         *)
StoreClosed(c) ==
    /\ At(c, "closing")
    /\ meta' = 0
    /\ \/ c = "stop" /\ Return(c) /\ UNCHANGED config
       \/ c # "stop" /\ config' = config + 1 /\ GoTo(c, "saving")
    /\ UNCHANGED <<stopped, seq, manager, phase, idle, madeFor, dropped, names, store,
                   metaStarting, open, saves, attention>>

(* An await of nothing, no manager or no store, is over before any file    *)
(* is written or read.                                                     *)
NoneAwaitsNothing ==
    \A c \in Callers : job[c].at \in {"leaving", "settling"} => job[c].on # 0

(* The file is written and a new host has its caches loaded, or config.set *)
(* rejects as it could not be written.                                     *)
Saved(c) ==
    /\ At(c, "saving") /\ NoneAwaitsNothing
    /\ GoTo(c, "loading") \/ Return(c)
    /\ UNCHANGED <<stopped, connection, taxonomy, saves, attention>>

(* A slip: a save that outlives stop() connects again.                     *)
ReconnectAnyway(c) ==
    /\ At(c, "loading") /\ NoneAwaitsNothing
    /\ Connect(c)
    /\ UNCHANGED <<stopped, taxonomy, saves, attention>>

(* It returns without it if the load failed, after stop(), and when what   *)
(* was saved is no valid connection.                                       *)
Reconnect(c) ==
    /\ At(c, "loading") /\ NoneAwaitsNothing
    /\ \/ ~stopped /\ Connect(c)
       \/ Return(c) /\ UNCHANGED connection
    /\ UNCHANGED <<stopped, taxonomy, saves, attention>>

-----------------------------------------------------------------------------
(* #resubscribe() up to its await.                                         *)
Resubscribe ==
    IF manager # 0 /\ manager \in idle /\ ~stopped
    THEN /\ idle' = idle \ {manager}
         /\ subscribing' = [subscribing EXCEPT ![manager] = @ + 1]
    ELSE UNCHANGED <<idle, subscribing>>

(* A slip: a page in the grace period is taken for one that never left.    *)
PageOpensInGrace ==
    /\ ~watched /\ visits < MaxVisits
    /\ watched' = TRUE /\ visits' = visits + 1
    /\ idleTimer' = FALSE
    /\ IF idleTimer THEN UNCHANGED <<idle, subscribing>> ELSE Resubscribe
    /\ UNCHANGED <<stopped, config, seq, manager, phase, madeFor, dropped, taxonomy, job, saves,
                   intervals, held>>

(* noteSessions() with the first session, and without the last.            *)
PageOpens ==
    /\ ~watched /\ visits < MaxVisits
    /\ watched' = TRUE /\ visits' = visits + 1
    /\ idleTimer' = FALSE
    /\ Resubscribe
    /\ UNCHANGED <<stopped, config, seq, manager, phase, madeFor, dropped, taxonomy, job, saves,
                   intervals, held>>

PageCloses ==
    /\ watched
    /\ watched' = FALSE
    /\ ArmIdleTimer
    /\ UNCHANGED <<stopped, connection, taxonomy, job, saves, visits, subscribing,
                   intervals, held>>

Resubscribed(n) ==
    /\ subscribing[n] > 0
    /\ subscribing' = [subscribing EXCEPT ![n] = @ - 1]
    /\ StartServiceMessagePolling
    /\ UNCHANGED <<stopped, connection, taxonomy, job, saves, watched, visits, idleTimer>>

(* The grace period is over: #unsubscribeIdle().  A manager without its    *)
(* interfaces yet ignores unsubscribe().                                   *)
GraceOver ==
    /\ idleTimer
    /\ IF manager = 0 \/ watched \/ stopped \/ manager \in idle
       THEN idleTimer' = FALSE /\ UNCHANGED <<idle, intervals, held>>
       ELSE /\ ClearTimers
            /\ \/ idle' = idle \union {manager}
               \/ phase[manager] = "starting" /\ UNCHANGED idle
    /\ UNCHANGED <<stopped, config, seq, manager, phase, madeFor, dropped, taxonomy, job, saves,
                   watched, visits, subscribing>>

-----------------------------------------------------------------------------
CallerStep(c) ==
    \/ Probed(c) \/ ManagerStarted(c) \/ StartFails(c) \/ HostKnown(c) \/ Connected(c)
    \/ Left(c) \/ CloseStore(c) \/ StoreClosed(c) \/ Saved(c) \/ Reconnect(c)

ConnectionStep(n) ==
    \/ NamesAnswered(n) \/ StoreCreated(n) \/ StoreStarted(n)
    \/ ManagerStopped(n) \/ Resubscribed(n)

Next ==
    \/ Start \/ Stop \/ PageOpens \/ PageCloses \/ GraceOver
    \/ \E c \in Callers : Save(c) \/ CallerStep(c)
    \/ \E n \in Connections : ConnectionStep(n)

Spec == Init /\ [][Next]_vars

(* Every await of this module ends: calls and probes have a timeout, files *)
(* and timers are the runtime's.  Nobody has to call or to look.           *)
FairSpec ==
    /\ Spec
    /\ WF_vars(GraceOver)
    /\ \A c \in Callers : WF_vars(CallerStep(c))
    /\ \A n \in Connections : WF_vars(ConnectionStep(n))

-----------------------------------------------------------------------------
(* No manager and no store is ever live that #manager or #meta does not    *)
(* name, so what replaces or stops the connection reaches all of it        *)
(* (#connectNow(), #disconnect()), but for a manager that the late failure *)
(* of a start() dropped: its handler clears #manager whoever is there by   *)
(* then, a manager that is still being stopped or a newer one.             *)
OnlyTheHeldLives ==
    /\ \A n \in Connections \ dropped : phase[n] \in {"starting", "up"} => n = manager
    /\ open \subseteq {meta}

(* When stop() has returned, no manager and no store is live or comes      *)
(* back, wherever a start or a save stood when it was called (stop()), but *)
(* for a manager dropped as above, which stop() cannot reach.              *)
StopLeavesNothing ==
    At("stop", "returned") =>
        /\ \A n \in Connections \ dropped : phase[n] \notin {"starting", "up", "stopping"}
        /\ open = {}

(* The connection in use was made with the connection that is saved, also  *)
(* if a save overtook a start that still asked the host (#connectNow()).   *)
ConnectionIsTheSavedOne == manager # 0 => madeFor[manager] = config

(* While a page is open the manager in use is not idle (noteSessions()).   *)
AttendedIsSubscribed == watched /\ manager # 0 /\ ~stopped => manager \notin idle

(* A connection that stays is idle in the end if nobody looks any more,    *)
(* also when nobody ever did (#armIdleTimer(), B-70).                      *)
UnattendedGoesIdle ==
    <>[](~watched /\ ~stopped /\ manager # 0) => <>[](manager \in idle)
=============================================================================
