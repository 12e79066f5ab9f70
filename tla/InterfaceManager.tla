-------------------------- MODULE InterfaceManager --------------------------
(***************************************************************************)
(* Connecting to the interface processes of a CCU and staying connected:   *)
(* packages/backend/src/interfaces/manager.ts, with the parts of           *)
(* rpc/server.ts and rpc/client.ts it drives.                              *)
(*                                                                         *)
(* The manager subscribes to every interface with init(url, ident) and     *)
(* de-registers with init(url, ''), so that the process calls url or stops *)
(* doing so.  Every await of the code is a place where other steps come in *)
(* between: an #init() in flight is an attempt with a stage of its own and *)
(* an async method of the manager is pending until what it awaits is done. *)
(*                                                                         *)
(* The interface processes are modelled from how the manager uses them:    *)
(* a process that is up keeps a list of the addresses it calls, works off  *)
(* a request some time after it was sent, or after the manager gave up on  *)
(* it, and comes back from a restart without a list.                       *)
(*                                                                         *)
(* Time is abstract.  A timer that is armed may fire at any moment, and    *)
(* "how long ago" is kept as what the code's comparisons make of it.       *)
(***************************************************************************)
EXTENDS Naturals, FiniteSets

CONSTANTS
    Interfaces,         \* the configured interfaces
    Protocols,          \* xmlrpc, binrpc: one callback server each
    ProtocolOf,         \* the protocol of an interface
    FixedPorts,         \* the protocols whose callback port is configured
    PingAnswering,      \* resolved.ping: the interfaces that answer a ping
    LivenessPinged,     \* those that also have a liveness ping (HmIP-RF)
    Reachable,          \* those that reach the callback server
    Addresses,          \* the addresses this machine may have
    NoAddress,
    StartWindow,        \* startWindowMs > 0
    MaxAttempts,        \* bound: #init() calls of one interface at once
    MaxCalls,           \* bound: calls of the manager's methods after start
    MaxDisturbances     \* bound: failures, restarts and moves in a behaviour

ASSUME InterfaceAssumption ==
    /\ Interfaces # {}
    /\ ProtocolOf \in [Interfaces -> Protocols]
    /\ FixedPorts \subseteq Protocols
    /\ LivenessPinged \subseteq PingAnswering
    /\ PingAnswering \subseteq Interfaces
    /\ Reachable \subseteq Interfaces

ASSUME AddressAssumption == Addresses # {} /\ NoAddress \notin Addresses

ASSUME BoundAssumption ==
    /\ StartWindow \in BOOLEAN
    /\ MaxAttempts \in Nat
    /\ MaxCalls \in Nat
    /\ MaxDisturbances \in Nat

(* Who called #init(), or awaits a de-registration.                        *)
Callers == {"start", "subscribe", "tick", "retry", "reconnect", "lost"}
Methods == {"open", "start", "subscribe", "unsubscribe", "stop", "closing", "probe"}
Leavers == {"unsubscribe", "stop"}

VARIABLES
    configured,     \* #interfaces is filled
    idle,           \* #idle
    stopping,       \* #stopping
    watchdog,       \* #watchdog holds an interval
    leaked,         \* running intervals #watchdog does not hold any more
    calls           \* the async methods that have not returned

methodVars == <<configured, idle, stopping, watchdog, leaked, calls>>

VARIABLES
    listening,      \* the protocols whose callback server is open
    closedPorts,    \* #callbackFailures
    reopening       \* #reopening

serverVars == <<listening, closedPorts, reopening>>

VARIABLES
    entry,          \* the ManagedInterface of every interface
    attempt,        \* the #init() calls in flight, by who called
    leaving         \* the addresses the #deregister() calls in flight name

VARIABLES
    address,        \* the address of this machine
    up,             \* the interface processes that run
    handlers,       \* the addresses a process sends its events to
    late,           \* requests the manager gave up on, still to be worked off
    inbound,        \* an event or a PONG is on its way to the manager
    healthy         \* history: nothing was lost since the last init answered

worldVars == <<address, up, handlers, late, inbound, healthy>>

VARIABLES
    disturbances,   \* how many disturbances there were
    requests        \* how many calls there were

boundVars == <<disturbances, requests>>

vars == <<methodVars, serverVars, entry, attempt, leaving, worldVars, boundVars>>

-----------------------------------------------------------------------------
(* The state of one interface.                                             *)

Silences == {"fresh", "quiet", "silent"}
LivenessTimers == {"off", "armed", "pong"}
Stages == {"none", "reopen", "resolve", "sent", "worked", "sweep"}
Failures == {"refused", "unanswered", "fault"}

Entries ==
    [connected    : BOOLEAN,
     absent       : BOOLEAN,
     subscribing  : BOOLEAN,
     waiting      : BOOLEAN,
     reconnecting : BOOLEAN,    \* the state's flag and entry.reconnecting
     idle         : BOOLEAN,
     url          : Addresses \union {NoAddress},   \* state.callbackUrl
     failing      : BOOLEAN,    \* failures > 0
     backoff      : BOOLEAN,    \* retryAt has not come
     answered     : BOOLEAN,
     heard        : BOOLEAN,    \* heardSinceInit
     window       : BOOLEAN,    \* within the start window of windowStart
     silence      : Silences,   \* now - lastSeenMono: past 2/3 and past all of the timeout
     retryTimer   : BOOLEAN,
     liveness     : LivenessTimers,     \* livenessTimer and awaitingPong
     ponged       : BOOLEAN]    \* lastEventMono >= sentAt

NewEntry ==
    [connected |-> FALSE, absent |-> FALSE, subscribing |-> FALSE,
     waiting |-> FALSE, reconnecting |-> FALSE, idle |-> FALSE,
     url |-> NoAddress, failing |-> FALSE, backoff |-> FALSE,
     answered |-> FALSE, heard |-> FALSE, window |-> StartWindow,
     silence |-> "silent", retryTimer |-> FALSE, liveness |-> "off",
     ponged |-> FALSE]

NoAttempt == [stage |-> "none", url |-> NoAddress]

TypeOK ==
    /\ configured \in BOOLEAN
    /\ idle \in BOOLEAN
    /\ stopping \in BOOLEAN
    /\ watchdog \in BOOLEAN
    /\ leaked \in Nat
    /\ calls \subseteq Methods
    /\ listening \subseteq Protocols
    /\ closedPorts \subseteq FixedPorts
    /\ reopening \subseteq Protocols
    /\ entry \in [Interfaces -> Entries]
    /\ attempt \in [Interfaces -> [Callers ->
                       [stage : Stages, url : Addresses \union {NoAddress}]]]
    /\ leaving \in [Leavers -> [Interfaces -> Addresses \union {NoAddress}]]
    /\ address \in Addresses
    /\ up \subseteq Interfaces
    /\ handlers \in [Interfaces -> SUBSET Addresses]
    /\ late \in [Interfaces -> SUBSET [kind : {"init", "leave"}, url : Addresses]]
    /\ inbound \subseteq Interfaces
    /\ healthy \subseteq Interfaces
    /\ disturbances \in 0..MaxDisturbances
    /\ requests \in 0..MaxCalls

Init ==
    /\ configured = FALSE
    /\ idle = FALSE
    /\ stopping = FALSE
    /\ watchdog = FALSE
    /\ leaked = 0
    /\ calls = {}
    /\ listening = {}
    /\ closedPorts = {}
    /\ reopening = {}
    /\ entry = [i \in Interfaces |-> NewEntry]
    /\ attempt = [i \in Interfaces |-> [c \in Callers |-> NoAttempt]]
    /\ leaving = [l \in Leavers |-> [i \in Interfaces |-> NoAddress]]
    /\ address \in Addresses
    /\ up \in SUBSET Interfaces
    /\ handlers = [i \in Interfaces |-> {}]
    /\ late = [i \in Interfaces |-> {}]
    /\ inbound = {}
    /\ healthy = {}
    /\ disturbances = 0
    /\ requests = 0

-----------------------------------------------------------------------------
(* Steps of the code on one ManagedInterface.                              *)

(* #armLiveness(): the timer of the next ping, unless nothing may run.     *)
ArmLiveness(i, e) ==
    [e EXCEPT !.liveness =
        IF i \in LivenessPinged /\ ~stopping /\ ~idle THEN "armed" ELSE "off"]

(* #noteNoCallbackServer(): backs off like a failed init.                  *)
NoteNoCallbackServer(e) ==
    [e EXCEPT !.failing = TRUE, !.backoff = TRUE, !.connected = FALSE,
              !.absent = FALSE, !.subscribing = FALSE, !.url = NoAddress]

(* A failed attempt arms the next one in a manager that is stopped, or in  *)
(* one that went idle.                                                     *)
NoteWaitingWhenStopped(e) ==
    [e EXCEPT !.backoff = TRUE, !.connected = FALSE, !.absent = FALSE,
              !.subscribing = FALSE, !.waiting = ~e.reconnecting,
              !.retryTimer = ~idle]

NoteWaitingWhenIdle(e) ==
    [e EXCEPT !.backoff = TRUE, !.connected = FALSE, !.absent = FALSE,
              !.subscribing = FALSE, !.waiting = ~e.reconnecting,
              !.retryTimer = ~stopping]

(* #noteWaiting(): the next attempt gets a timer of its own.               *)
NoteWaiting(e) ==
    [e EXCEPT !.backoff = TRUE, !.connected = FALSE, !.absent = FALSE,
              !.subscribing = FALSE, !.waiting = ~e.reconnecting,
              !.retryTimer = ~stopping /\ ~idle]

InStartWindow(e) == ~e.answered /\ e.window

(* The flag "waiting" outlives the start window.                           *)
NoteInitFailureKeepsWaiting(e, failure) ==
    IF failure \in {"refused", "unanswered"} /\ InStartWindow(e)
    THEN NoteWaiting(e)
    ELSE [e EXCEPT !.failing = TRUE, !.reconnecting = FALSE, !.backoff = TRUE,
                   !.connected = FALSE, !.absent = (failure = "refused"),
                   !.subscribing = FALSE]

(* #noteInitFailure(): a refused or unanswered init in the start window    *)
(* means waiting, everything else is a failure with a back-off.            *)
NoteInitFailure(e, failure) ==
    IF failure \in {"refused", "unanswered"} /\ InStartWindow(e)
    THEN NoteWaiting(e)
    ELSE [e EXCEPT !.failing = TRUE, !.reconnecting = FALSE, !.backoff = TRUE,
                   !.connected = FALSE, !.absent = (failure = "refused"),
                   !.subscribing = FALSE, !.waiting = FALSE]

(* The success branch of #init(), up to the await of onConnected().        *)
NoteSubscribed(i, e) ==
    ArmLiveness(i,
        [e EXCEPT !.silence = "fresh", !.heard = FALSE, !.failing = FALSE,
                  !.backoff = FALSE, !.answered = TRUE, !.reconnecting = FALSE,
                  !.connected = TRUE, !.absent = FALSE, !.subscribing = TRUE,
                  !.waiting = FALSE])

(* The loop of unsubscribe() after its await.                              *)
NoteUnsubscribed(e) ==
    [e EXCEPT !.retryTimer = FALSE, !.liveness = "off", !.reconnecting = FALSE,
              !.silence = "silent", !.failing = e.failing /\ e.absent,
              !.backoff = FALSE, !.answered = FALSE, !.connected = FALSE,
              !.idle = TRUE, !.subscribing = FALSE, !.waiting = FALSE]

(* noteEvent(): a callback of the interface arrived.                       *)
NoteEvent(i, e, kind) ==
    LET seen == [e EXCEPT !.silence = "fresh", !.connected = TRUE]
    IN  IF kind = "event" THEN
            [seen EXCEPT !.ponged = TRUE, !.heard = TRUE]
        ELSE IF e.liveness = "armed" /\ ~e.subscribing THEN
            ArmLiveness(i, seen)
        ELSE seen

(* #noteLost(): the PONG did not come.                                     *)
NoteLost(e) ==
    [e EXCEPT !.liveness = "off", !.reconnecting = TRUE, !.answered = FALSE,
              !.window = StartWindow, !.retryTimer = FALSE,
              !.connected = FALSE, !.waiting = FALSE, !.subscribing = FALSE]
-----------------------------------------------------------------------------
(* #init(): from the call to the answer.                                   *)

InFlight(i) == {c \in Callers : attempt[i][c].stage # "none"}

(* Bound: one #init() in flight per interface and caller, MaxAttempts in   *)
(* all.                                                                    *)
CanInit(c, names) ==
    \A i \in names : c \notin InFlight(i) /\ Cardinality(InFlight(i)) < MaxAttempts

PortClosed(i, closed) == ProtocolOf[i] \in closed

FirstStageOfAnyPort(i, e, closed) == IF stopping THEN "none" ELSE "resolve"

(* Where a call of #init() is at its first await.                          *)
FirstStage(i, e, closed) ==
    CASE stopping -> "none"
      [] ~stopping /\ ~PortClosed(i, closed) -> "resolve"
      [] ~stopping /\ PortClosed(i, closed) -> IF e.failing THEN "reopen" ELSE "none"

(* What #init() did to the interface up to there.                          *)
FirstEntry(i, e, closed) ==
    IF ~stopping /\ PortClosed(i, closed) /\ ~e.failing
    THEN NoteNoCallbackServer(e)
    ELSE e

(* The caller c leaves the interfaces as `after` says and calls #init()    *)
(* for those in names; `closed` is #callbackFailures at that moment.       *)
BeginInit(c, names, after, closed) ==
    /\ CanInit(c, names)
    /\ entry' = [i \in Interfaces |->
                    IF i \in names THEN FirstEntry(i, after[i], closed) ELSE after[i]]
    /\ attempt' = [i \in Interfaces |->
                      IF i \in names
                      THEN [attempt[i] EXCEPT ![c] =
                               [stage |-> FirstStage(i, after[i], closed), url |-> NoAddress]]
                      ELSE attempt[i]]
    /\ reopening' = reopening \union
           {ProtocolOf[i] : i \in {j \in names : FirstStage(j, after[j], closed) = "reopen"}}

At(i, c, stage) == attempt[i][c].stage = stage

MoveTo(i, c, stage) == attempt' = [attempt EXCEPT ![i][c].stage = stage]

EndAttempt(i, c) == attempt' = [attempt EXCEPT ![i][c] = NoAttempt]

SetEntry(i, e) == entry' = [entry EXCEPT ![i] = e]

Disturb == disturbances < MaxDisturbances /\ disturbances' = disturbances + 1

(* #reopenCallbackServer() ended, for every #init() that waited for it.    *)
Reopened(p, works) ==
    LET waiting(i, c) == ProtocolOf[i] = p /\ At(i, c, "reopen")
    IN  /\ p \in reopening
        /\ reopening' = reopening \ {p}
        /\ attempt' = [i \in Interfaces |-> [c \in Callers |->
              CASE ~waiting(i, c) -> attempt[i][c]
                [] waiting(i, c) /\ works -> [attempt[i][c] EXCEPT !.stage = "resolve"]
                [] waiting(i, c) /\ ~works -> NoAttempt]]
        /\ IF works THEN
               /\ listening' = listening \union {p}
               /\ closedPorts' = closedPorts \ {p}
               /\ UNCHANGED entry
           ELSE
               /\ entry' = [i \in Interfaces |->
                     IF \E c \in Callers : waiting(i, c)
                     THEN NoteNoCallbackServer(entry[i])
                     ELSE entry[i]]
               /\ UNCHANGED <<listening, closedPorts>>
        /\ UNCHANGED <<methodVars, leaving, worldVars, boundVars>>

(* The check for a stop is left out, or the request goes out with the URL  *)
(* of before the look-up.                                                  *)
ResolvedAfterStop(i, c) ==
    /\ At(i, c, "resolve")
    /\ attempt' = [attempt EXCEPT ![i][c] = [stage |-> "sent", url |-> address]]
    /\ SetEntry(i, [entry[i] EXCEPT !.url = address])
    /\ UNCHANGED <<methodVars, serverVars, leaving, worldVars, boundVars>>

ResolvedWithOldUrl(i, c) ==
    /\ At(i, c, "resolve")
    /\ IF stopping THEN
           /\ EndAttempt(i, c)
           /\ UNCHANGED entry
       ELSE
           /\ attempt' = [attempt EXCEPT ![i][c] = [stage |-> "sent", url |-> entry[i].url]]
           /\ SetEntry(i, [entry[i] EXCEPT !.url = address])
    /\ UNCHANGED <<methodVars, serverVars, leaving, worldVars, boundVars>>

(* #refreshCallback() answered: the check for a stop, then the request.    *)
Resolved(i, c) ==
    /\ At(i, c, "resolve")
    /\ IF stopping THEN
           /\ EndAttempt(i, c)
           /\ UNCHANGED entry
       ELSE
           /\ attempt' = [attempt EXCEPT ![i][c] = [stage |-> "sent", url |-> address]]
           /\ SetEntry(i, [entry[i] EXCEPT !.url = address])
    /\ UNCHANGED <<methodVars, serverVars, leaving, worldVars, boundVars>>

(* The interface process works the request off.                            *)
InitWorked(i, c) ==
    /\ At(i, c, "sent")
    /\ i \in up
    /\ handlers' = [handlers EXCEPT ![i] = @ \union {attempt[i][c].url}]
    /\ MoveTo(i, c, "worked")
    /\ UNCHANGED <<methodVars, serverVars, entry, leaving, address, up, late,
                   inbound, healthy, boundVars>>

(* Its answer arrives: connected, and onConnected() sweeps the devices.    *)
InitAnswered(i, c) ==
    /\ At(i, c, "worked")
    /\ SetEntry(i, NoteSubscribed(i, entry[i]))
    /\ MoveTo(i, c, "sweep")
    /\ healthy' = IF i \in up /\ address \in handlers[i]
                  THEN healthy \union {i} ELSE healthy \ {i}
    /\ UNCHANGED <<methodVars, serverVars, leaving, address, up, handlers, late,
                   inbound, boundVars>>

(* No answer, or not the one hoped for.  A process that is up and did not  *)
(* answer in time may still work the request off.                          *)
InitFailed(i, c, failure) ==
    /\ \/ At(i, c, "sent")
       \/ At(i, c, "worked") /\ failure # "refused"
    /\ failure = "refused" => i \notin up
    /\ SetEntry(i, NoteInitFailure(entry[i], failure))
    /\ EndAttempt(i, c)
    /\ late' = IF i \in up /\ failure = "unanswered" /\ At(i, c, "sent")
               THEN [late EXCEPT ![i] = @ \union {[kind |-> "init", url |-> attempt[i][c].url]}]
               ELSE late
    /\ IF i \in up THEN Disturb ELSE UNCHANGED disturbances
    /\ UNCHANGED <<methodVars, serverVars, leaving, address, up, handlers, inbound,
                   healthy, requests>>

(* onConnected() is through; if it throws, the init counts as failed.      *)
SweepDone(i, c) ==
    /\ At(i, c, "sweep")
    /\ SetEntry(i, [entry[i] EXCEPT !.subscribing = FALSE])
    /\ EndAttempt(i, c)
    /\ UNCHANGED <<methodVars, serverVars, leaving, worldVars, boundVars>>

SweepFailed(i, c, failure) ==
    /\ At(i, c, "sweep")
    /\ Disturb
    /\ SetEntry(i, NoteInitFailure([entry[i] EXCEPT !.subscribing = FALSE], failure))
    /\ EndAttempt(i, c)
    /\ UNCHANGED <<methodVars, serverVars, leaving, worldVars, requests>>

-----------------------------------------------------------------------------
(* The manager's methods.                                                  *)

Request == requests < MaxCalls /\ requests' = requests + 1

WatchdogNotStarted == UNCHANGED <<watchdog, leaked>>

(* #startWatchdog(): the handle of an interval it overwrites is gone.      *)
StartWatchdog ==
    /\ watchdog' = TRUE
    /\ leaked' = IF watchdog THEN leaked + 1 ELSE leaked

(* start(), up to the await of the callback servers.                       *)
Start ==
    /\ ~configured /\ ~stopping /\ calls \intersect {"open", "start"} = {}
    /\ calls' = calls \union {"open"}
    /\ UNCHANGED <<configured, idle, stopping, watchdog, leaked, serverVars, entry,
                   attempt, leaving, worldVars, boundVars>>

(* The servers are open, or a fixed port is taken: the clients are made    *)
(* and every interface is subscribed.                                      *)
StartOpened(failed) ==
    /\ "open" \in calls
    /\ configured' = TRUE
    /\ calls' = (calls \ {"open"}) \union {"start"}
    /\ closedPorts' = failed
    /\ listening' = {ProtocolOf[i] : i \in Interfaces} \ failed
    /\ BeginInit("start", Interfaces, [i \in Interfaces |-> NewEntry], failed)
    /\ UNCHANGED <<idle, stopping, watchdog, leaked, leaving, worldVars, boundVars>>

AllEnded(c) == \A i \in Interfaces : c \notin InFlight(i)

(* Every init was attempted: the background probe, and the watchdog.       *)
StartDone(probes) ==
    /\ "start" \in calls /\ AllEnded("start")
    /\ calls' = (calls \ {"start"}) \union probes
    /\ StartWatchdog
    /\ UNCHANGED <<configured, idle, stopping, serverVars, entry, attempt, leaving,
                   worldVars, boundVars>>

(* #deregister() of every interface: the address in its state, or the      *)
(* current one while it has none.                                          *)
BeginLeaving(l) ==
    leaving' = [leaving EXCEPT ![l] = [i \in Interfaces |->
        IF ~configured \/ PortClosed(i, closedPorts) THEN NoAddress
        ELSE IF entry[i].url = NoAddress THEN address ELSE entry[i].url]]

AllLeft(l) == \A i \in Interfaces : leaving[l][i] = NoAddress

Unsubscribe ==
    /\ configured /\ ~idle
    /\ "unsubscribe" \notin calls      \* bound: one at a time
    /\ Request
    /\ idle' = TRUE
    /\ watchdog' = FALSE
    /\ calls' = calls \union {"unsubscribe"}
    /\ BeginLeaving("unsubscribe")
    /\ UNCHANGED <<configured, stopping, leaked, serverVars, entry, attempt,
                   worldVars, disturbances>>

UnsubscribeDone ==
    /\ "unsubscribe" \in calls /\ AllLeft("unsubscribe")
    /\ calls' = calls \ {"unsubscribe"}
    /\ entry' = IF configured THEN [i \in Interfaces |-> NoteUnsubscribed(entry[i])]
                ELSE entry
    /\ UNCHANGED <<configured, idle, stopping, watchdog, leaked, serverVars, attempt,
                   leaving, worldVars, boundVars>>

(* subscribe(): an interface known to be absent gets no start window.      *)
Subscribe ==
    /\ configured /\ idle
    /\ "subscribe" \notin calls        \* bound: one at a time
    /\ Request
    /\ idle' = FALSE
    /\ calls' = calls \union {"subscribe"}
    /\ BeginInit("subscribe", Interfaces,
           [i \in Interfaces |->
               [entry[i] EXCEPT !.window = StartWindow /\ ~entry[i].absent,
                                !.idle = FALSE]], closedPorts)
    /\ UNCHANGED <<configured, stopping, watchdog, leaked, listening, closedPorts,
                   leaving, worldVars, disturbances>>

SubscribeDoneUnwatched ==
    /\ "subscribe" \in calls /\ AllEnded("subscribe")
    /\ calls' = calls \ {"subscribe"}
    /\ UNCHANGED <<configured, idle, stopping, watchdog, leaked, serverVars, entry,
                   attempt, leaving, worldVars, boundVars>>

SubscribeDone ==
    /\ "subscribe" \in calls /\ AllEnded("subscribe")
    /\ calls' = calls \ {"subscribe"}
    /\ StartWatchdog
    /\ UNCHANGED <<configured, idle, stopping, serverVars, entry, attempt, leaving,
                   worldVars, boundVars>>

(* stop(): every timer goes, then the interfaces are de-registered.        *)
Stop ==
    /\ ~stopping /\ (configured \/ "open" \in calls)
    /\ Request
    /\ stopping' = TRUE
    /\ watchdog' = FALSE
    /\ calls' = calls \union {"stop"}
    /\ entry' = [i \in Interfaces |->
                    [entry[i] EXCEPT !.retryTimer = FALSE, !.liveness = "off"]]
    /\ BeginLeaving("stop")
    /\ UNCHANGED <<configured, idle, leaked, serverVars, attempt, worldVars,
                   disturbances>>

(* Every process is left or given up: the interfaces are forgotten, and    *)
(* the servers close.  What still reaches one finds no interface.          *)
StopLeft ==
    /\ "stop" \in calls /\ AllLeft("stop")
    /\ calls' = (calls \ {"stop"}) \union {"closing"}
    /\ configured' = FALSE
    /\ listening' = {}
    /\ UNCHANGED <<idle, stopping, watchdog, leaked, closedPorts, reopening, entry,
                   attempt, leaving, worldVars, boundVars>>

(* `await this.#servers.stop()`: the sockets that were open are closed,    *)
(* which nothing bounds.                                                   *)
StopDone ==
    /\ "closing" \in calls
    /\ calls' = calls \ {"closing"}
    /\ UNCHANGED <<configured, idle, stopping, watchdog, leaked, serverVars, entry,
                   attempt, leaving, worldVars, boundVars>>

(* reconnect(): a session asks for one interface or for all; there is no   *)
(* session while the manager is idle.                                      *)
Reconnect(names) ==
    /\ configured /\ ~idle
    /\ Request
    /\ BeginInit("reconnect", names,
           [i \in Interfaces |->
               IF i \in names
               THEN [entry[i] EXCEPT !.backoff = FALSE, !.retryTimer = FALSE]
               ELSE entry[i]], closedPorts)
    /\ UNCHANGED <<methodVars, listening, closedPorts, leaving, worldVars,
                   disturbances>>

(* probeInterfaces(): a refused port is absent, an unanswered one is not;  *)
(* what is connected or waiting is left alone.                             *)
ProbeDone(refused, mute) ==
    /\ "probe" \in calls
    /\ calls' = calls \ {"probe"}
    /\ refused \intersect mute = {}
    /\ refused \intersect up = {}
    /\ entry' = [i \in Interfaces |->
           IF ~configured \/ entry[i].connected \/ entry[i].waiting THEN entry[i]
           ELSE [entry[i] EXCEPT !.absent = (i \in refused \/ (@ /\ i \notin mute))]]
    /\ UNCHANGED <<configured, idle, stopping, watchdog, leaked, serverVars, attempt,
                   leaving, worldVars, boundVars>>

-----------------------------------------------------------------------------
(* Timers and callbacks.                                                   *)

(* The process calls this machine: it runs, it has its address, and the    *)
(* callback server is there.                                               *)
CallsUs(i) ==
    /\ i \in up \intersect Reachable
    /\ address \in handlers[i]
    /\ ProtocolOf[i] \in listening

(* #quietByNature(): without a ping and without a device, silence is no    *)
(* sign of anything.                                                       *)
QuietByNature(i, listing) ==
    i \notin PingAnswering /\ entry[i].connected /\ i \notin listing

(* The silent interfaces tick() subscribes again: not before their         *)
(* back-off is over, and not those that have a retry timer of their own.   *)
DueUnlessAbsent(i) == ~entry[i].backoff /\ ~entry[i].retryTimer /\ ~entry[i].absent

Due(i) == ~entry[i].backoff /\ ~entry[i].retryTimer

(* tick(), with the interfaces that list a device.                         *)
Tick(listing) ==
    LET mute == {i \in Interfaces : ~QuietByNature(i, listing) /\ entry[i].silence = "silent"}
        due == {i \in mute : Due(i)}
        pinged == {i \in PingAnswering : entry[i].silence = "quiet" /\ CallsUs(i)}
    IN  /\ watchdog \/ leaked > 0
        /\ configured /\ ~idle
        /\ BeginInit("tick", due,
               [i \in Interfaces |->
                   CASE QuietByNature(i, listing) -> [entry[i] EXCEPT !.silence = "fresh"]
                     [] i \in mute -> [entry[i] EXCEPT !.connected = FALSE]
                     [] OTHER -> entry[i]], closedPorts)
        /\ inbound' = inbound \union pinged
        /\ UNCHANGED <<methodVars, listening, closedPorts, leaving, address, up,
                       handlers, late, healthy, boundVars>>

(* The timer of #noteWaiting().                                            *)
RetryFires(i) ==
    /\ entry[i].retryTimer
    /\ BeginInit("retry", {i}, [entry EXCEPT ![i].retryTimer = FALSE], closedPorts)
    /\ UNCHANGED <<methodVars, listening, closedPorts, leaving, worldVars, boundVars>>

(* The liveness timer, while nothing may run any more.                     *)
LivenessDropped(i) ==
    /\ entry[i].liveness # "off" /\ (stopping \/ idle)
    /\ SetEntry(i, [entry[i] EXCEPT !.liveness = "off"])
    /\ UNCHANGED <<methodVars, serverVars, attempt, leaving, worldVars, boundVars>>

(* The liveness ping goes out, after the silence of the ping interval or   *)
(* at once.                                                                *)
LivenessPing(i) ==
    /\ entry[i].liveness = "armed" /\ ~stopping /\ ~idle
    /\ SetEntry(i, [entry[i] EXCEPT !.liveness = "pong", !.ponged = FALSE])
    /\ inbound' = IF CallsUs(i) THEN inbound \union {i} ELSE inbound
    /\ UNCHANGED <<methodVars, serverVars, attempt, leaving, address, up, handlers,
                   late, healthy, boundVars>>

(* The PONG timeout.  A callback is not held up that long, or it counts as *)
(* a disturbance (CallbackHeldUp).                                         *)
PongDue(i) == entry[i].liveness = "pong" /\ ~stopping /\ ~idle /\ (i \in healthy => i \notin inbound)

(* A slip: what came since the ping is forgotten.                          *)
PongLostUnlessSilent(i) == entry[i].heard

(* No event since the ping was sent, from an interface that did send some  *)
(* since its init: one that never does cannot reach the callback server.   *)
PongLost(i) == ~entry[i].ponged /\ entry[i].heard

PongCame(i) ==
    /\ PongDue(i) /\ ~PongLost(i)
    /\ SetEntry(i, ArmLiveness(i, entry[i]))
    /\ UNCHANGED <<methodVars, serverVars, attempt, leaving, worldVars, boundVars>>

PongMissing(i) ==
    /\ PongDue(i) /\ PongLost(i)
    /\ BeginInit("lost", {i}, [entry EXCEPT ![i] = NoteLost(entry[i])], closedPorts)
    /\ UNCHANGED <<methodVars, listening, closedPorts, leaving, worldVars, boundVars>>

(* An event, or the PONG that answers a ping, arrives.                     *)
EventArrives(i) ==
    /\ i \in inbound
    /\ inbound' = inbound \ {i}
    /\ entry' = IF configured /\ ProtocolOf[i] \in listening
                THEN [entry EXCEPT ![i] = NoteEvent(i, entry[i], "event")]
                ELSE entry
    /\ UNCHANGED <<methodVars, serverVars, attempt, leaving, address, up, handlers,
                   late, healthy, boundVars>>

(* newDevices and its like: also from a restarted process that read its    *)
(* list back and sends no event.                                           *)
DeviceCallbackArrives(i) ==
    /\ configured /\ i \in up \intersect Reachable /\ ProtocolOf[i] \in listening
    /\ Disturb
    /\ SetEntry(i, NoteEvent(i, entry[i], "device"))
    /\ UNCHANGED <<methodVars, serverVars, attempt, leaving, worldVars, requests>>

(* Time passes.                                                            *)
FallsSilent(i) ==
    /\ configured /\ entry[i].silence # "silent"
    /\ SetEntry(i, [entry[i] EXCEPT !.silence = IF @ = "fresh" THEN "quiet" ELSE "silent"])
    /\ UNCHANGED <<methodVars, serverVars, attempt, leaving, worldVars, boundVars>>

BackoffEnds(i) ==
    /\ configured /\ entry[i].backoff
    /\ SetEntry(i, [entry[i] EXCEPT !.backoff = FALSE])
    /\ UNCHANGED <<methodVars, serverVars, attempt, leaving, worldVars, boundVars>>

WindowCloses(i) ==
    /\ configured /\ entry[i].window
    /\ SetEntry(i, [entry[i] EXCEPT !.window = FALSE])
    /\ UNCHANGED <<methodVars, serverVars, attempt, leaving, worldVars, boundVars>>

-----------------------------------------------------------------------------
(* The CCU and the network, from how the manager uses them.                *)

SendsEvent(i) ==
    /\ CallsUs(i) /\ i \notin inbound
    /\ inbound' = inbound \union {i}
    /\ UNCHANGED <<methodVars, serverVars, entry, attempt, leaving, address, up,
                   handlers, late, healthy, boundVars>>

(* A de-registration is worked off and answered.                           *)
LeaveWorked(l, i) ==
    /\ leaving[l][i] # NoAddress /\ i \in up
    /\ handlers' = [handlers EXCEPT ![i] = @ \ {leaving[l][i]}]
    /\ healthy' = healthy \ {i}
    /\ leaving' = [leaving EXCEPT ![l][i] = NoAddress]
    /\ UNCHANGED <<methodVars, serverVars, entry, attempt, address, up, late, inbound,
                   boundVars>>

(* stop() and unsubscribe() wait until the process is there to answer.     *)
LeaveGivenUpByLiving(l, i) ==
    /\ leaving[l][i] # NoAddress /\ i \in up /\ Disturb
    /\ leaving' = [leaving EXCEPT ![l][i] = NoAddress]
    /\ late' = [late EXCEPT ![i] = @ \union {[kind |-> "leave", url |-> leaving[l][i]]}]
    /\ UNCHANGED <<methodVars, serverVars, entry, attempt, address, up, handlers,
                   inbound, healthy, requests>>

(* It fails, or runs into the five seconds of SHUTDOWN_TIMEOUT_MS.         *)
LeaveGivenUp(l, i) ==
    /\ leaving[l][i] # NoAddress
    /\ leaving' = [leaving EXCEPT ![l][i] = NoAddress]
    /\ IF i \in up THEN
           /\ Disturb
           /\ late' = [late EXCEPT ![i] = @ \union {[kind |-> "leave", url |-> leaving[l][i]]}]
       ELSE UNCHANGED <<disturbances, late>>
    /\ UNCHANGED <<methodVars, serverVars, entry, attempt, address, up, handlers,
                   inbound, healthy, requests>>

(* A request nobody waits for any more is worked off, or never is.         *)
LateWorked(i, r) ==
    /\ r \in late[i] /\ i \in up
    /\ late' = [late EXCEPT ![i] = @ \ {r}]
    /\ handlers' = [handlers EXCEPT ![i] = IF r.kind = "init" THEN @ \union {r.url}
                                                            ELSE @ \ {r.url}]
    /\ healthy' = IF r.kind = "init" THEN healthy ELSE healthy \ {i}
    /\ UNCHANGED <<methodVars, serverVars, entry, attempt, leaving, address, up,
                   inbound, boundVars>>

LateLost(i, r) ==
    /\ r \in late[i]
    /\ late' = [late EXCEPT ![i] = @ \ {r}]
    /\ UNCHANGED <<methodVars, serverVars, entry, attempt, leaving, address, up,
                   handlers, inbound, healthy, boundVars>>

(* A process ends, and with it its list and the requests in it.            *)
Dies(i) ==
    /\ i \in up /\ Disturb
    /\ up' = up \ {i}
    /\ handlers' = [handlers EXCEPT ![i] = {}]
    /\ late' = [late EXCEPT ![i] = {}]
    /\ healthy' = healthy \ {i}
    /\ UNCHANGED <<methodVars, serverVars, entry, attempt, leaving, address, inbound,
                   requests>>

Restarts(i) ==
    /\ i \notin up
    /\ up' = up \union {i}
    /\ UNCHANGED <<methodVars, serverVars, entry, attempt, leaving, address, handlers,
                   late, inbound, healthy, boundVars>>

(* A new lease, another network.                                           *)
AddressMoves ==
    /\ Disturb
    /\ address' \in Addresses \ {address}
    /\ healthy' = {}
    /\ UNCHANGED <<methodVars, serverVars, entry, attempt, leaving, up, handlers, late,
                   inbound, requests>>

(* A callback takes longer than the PONG timeout.                          *)
CallbackHeldUp(i) ==
    /\ i \in inbound \intersect healthy /\ Disturb
    /\ healthy' = healthy \ {i}
    /\ UNCHANGED <<methodVars, serverVars, entry, attempt, leaving, address, up,
                   handlers, late, inbound, requests>>

-----------------------------------------------------------------------------
ManagerNext ==
    \/ Start
    \/ \E failed \in SUBSET FixedPorts : StartOpened(failed)
    \/ \E probes \in SUBSET {"probe"} : StartDone(probes)
    \/ Unsubscribe
    \/ UnsubscribeDone
    \/ Subscribe
    \/ SubscribeDone
    \/ Stop
    \/ StopLeft
    \/ StopDone
    \/ \E i \in Interfaces : Reconnect({i})
    \/ Reconnect(Interfaces)
    \/ \E refused, mute \in SUBSET Interfaces : ProbeDone(refused, mute)

AttemptNext ==
    \/ \E p \in Protocols, works \in BOOLEAN : Reopened(p, works)
    \/ \E i \in Interfaces, c \in Callers :
          \/ Resolved(i, c)
          \/ InitWorked(i, c)
          \/ InitAnswered(i, c)
          \/ \E failure \in Failures : InitFailed(i, c, failure)
          \/ SweepDone(i, c)
          \/ \E failure \in Failures : SweepFailed(i, c, failure)

TimerNext ==
    \/ \E listing \in SUBSET Interfaces : Tick(listing)
    \/ \E i \in Interfaces :
          \/ RetryFires(i)
          \/ LivenessDropped(i)
          \/ LivenessPing(i)
          \/ PongCame(i)
          \/ PongMissing(i)
          \/ FallsSilent(i)
          \/ BackoffEnds(i)
          \/ WindowCloses(i)

WorldNext ==
    \/ \E i \in Interfaces :
          \/ EventArrives(i)
          \/ DeviceCallbackArrives(i)
          \/ SendsEvent(i)
          \/ \E l \in Leavers : LeaveWorked(l, i) \/ LeaveGivenUp(l, i)
          \/ \E r \in late[i] : LateWorked(i, r) \/ LateLost(i, r)
          \/ Dies(i)
          \/ Restarts(i)
          \/ CallbackHeldUp(i)
    \/ AddressMoves

Next == ManagerNext \/ AttemptNext \/ TimerNext \/ WorldNext

Spec == Init /\ [][Next]_vars

(* An #init() in flight goes on: every RPC has a timeout.                  *)
AttemptGoesOn(i, c) ==
    \/ Resolved(i, c)
    \/ InitWorked(i, c)
    \/ InitAnswered(i, c)
    \/ \E failure \in Failures : InitFailed(i, c, failure)
    \/ SweepDone(i, c)

(* Timers that are armed fire, a promise that is settled is taken up, and  *)
(* a request that is sent is answered or given up on: no assumption on the *)
(* CCU is needed for that.                                                 *)
OwnFairness ==
    /\ WF_vars(Start) /\ WF_vars(StartOpened({})) /\ WF_vars(StartDone({}))
    /\ WF_vars(UnsubscribeDone) /\ WF_vars(SubscribeDone) /\ WF_vars(StopLeft)
    /\ WF_vars(\E listing \in SUBSET Interfaces : Tick(listing))
    /\ \A i \in Interfaces :
        /\ \A c \in Callers : WF_vars(AttemptGoesOn(i, c))
        /\ \A l \in Leavers : WF_vars(LeaveWorked(l, i) \/ LeaveGivenUp(l, i))
        /\ WF_vars(RetryFires(i))
        /\ WF_vars(LivenessPing(i))
        /\ WF_vars(PongCame(i) \/ PongMissing(i))
        /\ WF_vars(FallsSilent(i)) /\ WF_vars(BackoffEnds(i))
    /\ \A p \in Protocols : WF_vars(\E works \in BOOLEAN : Reopened(p, works))

(* A process that died is started again, and what it sends arrives.        *)
CcuFairness ==
    \A i \in Interfaces : WF_vars(EventArrives(i)) /\ WF_vars(Restarts(i))

OwnSpec == Spec /\ OwnFairness

FairSpec == Spec /\ OwnFairness /\ CcuFairness

-----------------------------------------------------------------------------
(* No retry timer and no liveness timer survives stop(), whatever fails or *)
(* arrives during it.  The watchdog is not meant: an interval that start() *)
(* or subscribe() starts after stop() ticks on, over no interface.         *)
StoppedIsQuiet ==
    stopping => \A i \in Interfaces :
                   ~entry[i].retryTimer /\ entry[i].liveness = "off"

(* After stop() was called no interface process is asked for a             *)
(* subscription any more, even by an #init() that was looking up the       *)
(* callback address or reopening a port when it was.                       *)
NoInitAfterStop ==
    [][\A i \in Interfaces, c \in Callers :
          stopping /\ ~At(i, c, "sent") => ~At(i, c, "sent")']_vars

(* Once unsubscribe() has returned and until somebody subscribes, no retry *)
(* and no liveness timer is armed; a watchdog that ticks on does nothing.  *)
IdleIsQuiet ==
    idle /\ "unsubscribe" \notin calls =>
        \A i \in Interfaces : ~entry[i].retryTimer /\ entry[i].liveness = "off"

(* "waiting" is a promise that the interface is tried again within         *)
(* seconds; the watchdog leaves it to the retry timer, so one of the two   *)
(* must be under way.                                                      *)
WaitingIsRetried ==
    \A i \in Interfaces :
        entry[i].waiting /\ configured /\ ~stopping /\ ~idle
            => entry[i].retryTimer \/ InFlight(i) # {}

(* The liveness ping never takes down a subscription that delivers: it     *)
(* subscribes again only after the process lost the handler, the address   *)
(* moved or a callback was held up - and never for an address the process  *)
(* cannot reach, which a new init would not change.                        *)
LostMeansLost ==
    [][\A i \in Interfaces :
          ~entry[i].reconnecting /\ entry'[i].reconnecting => i \notin healthy]_vars

(* A fixed callback port that could not be opened is never replaced: no    *)
(* init is sent with a URL nobody listens on.                              *)
InitNamesOpenPort ==
    [][\A i \in Interfaces, c \in Callers :
          ~At(i, c, "sent") /\ At(i, c, "sent")' => ProtocolOf[i] \in listening]_vars

(* Whatever is lost on the way - an init, the process, the address - an    *)
(* interface that answers pings comes to be subscribed at this machine's   *)
(* address, as long as the manager wants its events.                       *)
Resubscribed ==
    \A i \in PingAnswering :
        configured ~> (address \in handlers[i] \/ idle \/ stopping)

(* And it comes to be shown as connected.                                  *)
ConnectedIsShown ==
    \A i \in PingAnswering : configured ~> (entry[i].connected \/ idle \/ stopping)

(* Resubscribed with what it needs of the world as a hypothesis, for a run *)
(* in which the CCU may be gone, or a fixed port taken, for good.          *)
PortsOpen == <>(\A i \in PingAnswering : ProtocolOf[i] \in listening)

ResubscribedByCcu == CcuFairness /\ PortsOpen => Resubscribed

(* No method of the manager waits for a CCU that does not answer or is     *)
(* gone: the application can start, go idle and stop, up to the closing of *)
(* its own callback servers, of which nothing is assumed.                  *)
MethodsReturn ==
    \A m \in Methods \ {"probe", "closing"} : m \in calls ~> m \notin calls
=============================================================================
