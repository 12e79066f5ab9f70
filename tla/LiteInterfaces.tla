---------------------------- MODULE LiteInterfaces ---------------------------
(***************************************************************************)
(* The interfaces of an openccu-lite system                                *)
(* (packages/backend/src/interfaces/lite.ts): one client of the package    *)
(* occulite-client at a time, opened, closed and tried again, whose stream *)
(* says how the interface processes fare, and the states the user sees.    *)
(*                                                                         *)
(* A client is a number.  An older one may still be connecting when it is  *)
(* replaced, and its outcome arrives later.  The client's own reliability  *)
(* (resuming the stream, a resync after a gap) and the system are external.*)
(* Values, devices and requests pass through and change nothing here.      *)
(***************************************************************************)
EXTENDS Naturals

CONSTANTS
    Interfaces,     \* the interfaces of the connection
    Clients,        \* bound: the clients that are open or awaited at one time
    NoClient,       \* undefined
    MaxCalls,       \* bound: calls of methods after start()
    MaxFaults,      \* bound: what goes wrong at the system
    MaxListings     \* bound: onConnected() of one interface under way at one time

ASSUME BoundsAssumption ==
    /\ NoClient \notin Clients
    /\ MaxCalls \in Nat /\ MaxFaults \in Nat /\ MaxListings \in Nat \ {0}

VARIABLES
    configured,     \* whether #entries is filled
    stopping,       \* #stopping
    idle,           \* #idle
    box,            \* #box
    ready,          \* #ready
    retry,          \* #retryTimer
    opening,        \* the clients whose ready() an #open() awaits
    listing,        \* of an interface: the onConnected() the current client made
    shown           \* the flags of its InterfaceState that are present

VARIABLES
    system,         \* whether the system answers, and what the token is good for
    process,        \* its interfaces: running, down, missing
    client,         \* the state of each client
    view,           \* what the client in use last heard of the interfaces
    calls, faults   \* counted against the bounds

own == <<configured, stopping, idle, box, ready, retry, opening, listing, shown>>
world == <<system, process, client, view>>
vars == <<own, world, calls, faults>>

Flags == {"connected", "absent", "unreachable", "subscribing", "idle", "waiting",
          "reconnecting"}
InterfaceStates == {"running", "down", "missing"}
ClientStates == {"free", "connecting", "ready", "names", "degraded", "offline", "failed",
                 "refused", "closed"}

TypeOK ==
    /\ configured \in BOOLEAN /\ stopping \in BOOLEAN /\ idle \in BOOLEAN
    /\ ready \in BOOLEAN /\ retry \in BOOLEAN
    /\ box \in Clients \union {NoClient}
    /\ opening \subseteq Clients
    /\ listing \in [Interfaces -> Nat]
    /\ shown \in [Interfaces -> SUBSET Flags]
    /\ system \in {"up", "away", "refusing", "names"}
    /\ process \in [Interfaces -> InterfaceStates]
    /\ view \in [Interfaces -> InterfaceStates]
    /\ client \in [Clients -> ClientStates]
    /\ calls \in 0..MaxCalls /\ faults \in 0..MaxFaults

Init ==
    /\ configured = FALSE /\ stopping = FALSE /\ idle = FALSE
    /\ box = NoClient /\ ready = FALSE /\ retry = FALSE /\ opening = {}
    /\ listing = [i \in Interfaces |-> 0]
    /\ shown = [i \in Interfaces |-> {}]
    /\ system \in {"up", "away", "refusing", "names"}
    /\ process \in [Interfaces -> InterfaceStates]
    /\ view = process
    /\ client = [c \in Clients |-> "free"]
    /\ calls = 0 /\ faults = 0

-----------------------------------------------------------------------------
(* #update(): flags of a state that are set and deleted.                   *)
Update(flags, on, off) == (flags \ off) \union on
UpdateAll(on, off) == shown' = [i \in Interfaces |-> Update(shown[i], on, off)]

(* #applyInterfaces(): the picture the client has, into a state.           *)
Applied(flags, is) ==
    CASE is = "running" -> Update(flags, {"connected"},
                                  {"absent", "unreachable", "waiting", "reconnecting"})
      [] is = "down" -> Update(flags, {}, {"connected", "absent", "unreachable", "waiting",
                                           "reconnecting"})
      [] is = "missing" -> Update(flags, {"absent"}, {"connected", "unreachable", "waiting",
                                                      "reconnecting"})

(* #connected() up to its await.                                           *)
Connecting(flags) == Update(flags, {"connected", "subscribing"},
                            {"waiting", "reconnecting", "absent", "unreachable"})

(* #connectAll() of the interfaces in names, on what is shown by then.     *)
ConnectThem(names, flags) ==
    /\ \A i \in names : listing[i] < MaxListings
    /\ shown' = [i \in Interfaces |-> IF i \in names THEN Connecting(flags[i]) ELSE flags[i]]
    /\ listing' = [i \in Interfaces |-> IF i \in names THEN listing[i] + 1 ELSE listing[i]]

(* #running(): a client that reads names only has no interfaces to tell of. *)
Running ==
    {i \in Interfaces : view[i] = "running" /\ (box # NoClient => client[box] # "names")}

(* The current client is closed.  What it had listed is for nobody.        *)
Closed == IF box = NoClient THEN client
          ELSE [client EXCEPT ![box] = IF box \in opening THEN "closed" ELSE "free"]

CloseBox ==
    /\ client' = Closed
    /\ box' = NoClient
    /\ ready' = FALSE
    /\ listing' = [i \in Interfaces |-> 0]

(* A slip: the client that is replaced is left open.                       *)
OpenBeside ==
    IF stopping' \/ idle' THEN UNCHANGED <<box, ready, retry, opening, listing, client>>
    ELSE \E c \in Clients :
        /\ client[c] = "free" /\ c \notin opening
        /\ client' = [client EXCEPT ![c] = "connecting"]
        /\ box' = c /\ ready' = FALSE /\ retry' = FALSE
        /\ opening' = opening \union {c}
        /\ listing' = [i \in Interfaces |-> 0]

(* #open() up to its await.                                                *)
Open ==
    IF stopping' \/ idle' THEN UNCHANGED <<box, ready, retry, opening, listing, client>>
    ELSE \E c \in Clients :
        /\ Closed[c] = "free" /\ c \notin opening
        /\ client' = [Closed EXCEPT ![c] = "connecting"]
        /\ box' = c /\ ready' = FALSE /\ retry' = FALSE
        /\ opening' = opening \union {c}
        /\ listing' = [i \in Interfaces |-> 0]

(* A slip: only stop() makes a client an old one.                          *)
IsCurrentUnlessStopping(c) == ~stopping

IsCurrent(c) == c = box /\ ~stopping

-----------------------------------------------------------------------------
(* A connection without an address or an interface is refused before       *)
(* anything changes.                                                       *)
Start ==
    /\ ~configured /\ ~stopping
    /\ configured' = TRUE
    /\ UpdateAll({"waiting"}, Flags)
    /\ UNCHANGED <<stopping, idle, system, process, view, calls, faults>>
    /\ Open

Call == configured /\ calls < MaxCalls /\ calls' = calls + 1

(* What the system said it does not have stays noted ("absent").           *)
Unsubscribe ==
    /\ Call /\ ~idle
    /\ idle' = TRUE
    /\ CloseBox
    /\ UpdateAll({"idle"}, Flags \ {"absent"})
    /\ UNCHANGED <<configured, stopping, retry, opening, system, process, view, faults>>

Subscribe ==
    /\ Call /\ idle
    /\ idle' = FALSE
    /\ UpdateAll({"waiting"}, {"idle"})
    /\ UNCHANGED <<configured, stopping, system, process, view, faults>>
    /\ Open

(* The user's "try now": a client that is up reads the devices again.      *)
Reconnect(names) ==
    /\ Call
    /\ UNCHANGED <<configured, stopping, idle, system, process, view, faults>>
    /\ IF box = NoClient \/ ~ready \/ client[box] = "offline"
       THEN /\ UNCHANGED shown
            /\ IF idle THEN retry' = FALSE /\ UNCHANGED <<box, ready, opening, listing, client>>
               ELSE Open
       ELSE /\ ConnectThem(names \intersect Running, shown)
            /\ UNCHANGED <<box, ready, retry, opening, client>>

Stop ==
    /\ configured
    /\ stopping' = TRUE /\ configured' = FALSE
    /\ retry' = FALSE
    /\ CloseBox
    /\ shown' = [i \in Interfaces |-> {}]
    /\ UNCHANGED <<idle, opening, system, process, view, calls, faults>>

-----------------------------------------------------------------------------
(* box.ready() of a client nobody waits for any more settles.              *)
Forgotten(c) ==
    /\ opening' = opening \ {c}
    /\ client' = [client EXCEPT ![c] = IF @ = "closed" THEN "free" ELSE @]
    /\ UNCHANGED <<configured, stopping, idle, box, ready, retry, listing, shown>>

(* #open() goes on: the client is ready.                                   *)
Opened(c) ==
    /\ c \in opening /\ client[c] \in {"ready", "degraded", "offline"}
    /\ IF IsCurrent(c)
       THEN /\ opening' = opening \ {c}
            /\ ready' = TRUE
            /\ ConnectThem(Running, [i \in Interfaces |-> Applied(shown[i], view[i])])
            /\ UNCHANGED <<configured, stopping, idle, box, retry, client>>
       ELSE Forgotten(c)
    /\ UNCHANGED <<system, process, view, calls, faults>>

(* A token of the metadata store's days reads names and nothing else.      *)
OpenedForNames(c) ==
    /\ c \in opening /\ client[c] = "names"
    /\ IsCurrent(c)
    /\ opening' = opening \ {c}
    /\ ready' = TRUE
    /\ UpdateAll({}, {"connected", "waiting", "unreachable"})
    /\ UNCHANGED <<configured, stopping, idle, box, retry, listing, world, calls, faults>>

(* #noteFailure() after ready() was rejected: a refused token or           *)
(* certificate is not tried again, and a system that is too old is not     *)
(* shown as waiting.                                                       *)
OpenFails(c) ==
    /\ c \in opening /\ client[c] \in {"failed", "refused", "closed"}
    /\ IF IsCurrent(c)
       THEN /\ opening' = opening \ {c}
            /\ retry' = (client[c] # "refused")
            /\ \/ client[c] # "refused" /\ UpdateAll({"unreachable", "waiting"},
                                                     {"connected", "reconnecting", "subscribing"})
               \/ UpdateAll({}, {"connected", "unreachable", "waiting", "reconnecting",
                                 "subscribing"})
            /\ UNCHANGED <<configured, stopping, idle, box, ready, listing, client>>
       ELSE Forgotten(c)
    /\ UNCHANGED <<system, process, view, calls, faults>>

(* A slip: the timer fires and leaves it to the next one.                  *)
RetryFiresInVain ==
    /\ retry
    /\ retry' = FALSE
    /\ UNCHANGED <<configured, stopping, idle, box, ready, opening, listing, shown, world, calls,
                   faults>>

RetryFires ==
    /\ retry
    /\ UNCHANGED <<configured, stopping, idle, shown, system, process, view, calls, faults>>
    /\ IF idle THEN retry' = FALSE /\ UNCHANGED <<box, ready, opening, listing, client>>
       ELSE Open

(* onConnected() has ended.                                                *)
Listed(i) ==
    /\ listing[i] > 0
    /\ listing' = [listing EXCEPT ![i] = @ - 1]
    /\ shown' = [shown EXCEPT ![i] = @ \ {"subscribing"}]
    /\ UNCHANGED <<configured, stopping, idle, box, ready, retry, opening, world, calls, faults>>

-----------------------------------------------------------------------------
(* The client in use reports, and what is done with it ("current()").      *)
Heard(c) == c = box /\ IsCurrent(c)

Fault == faults < MaxFaults /\ faults' = faults + 1

ClientReady(c) ==
    /\ client[c] = "connecting" /\ system \in {"up", "names"}
    /\ client' = [client EXCEPT ![c] = IF system = "up" THEN "ready" ELSE "names"]
    /\ view' = process
    /\ UNCHANGED <<own, system, process, calls, faults>>

(* The system refuses the token, or does not answer in time.               *)
ClientFails(c) ==
    /\ client[c] = "connecting"
    /\ IF system = "up" THEN Fault ELSE UNCHANGED faults
    /\ client' = [client EXCEPT ![c] = IF system = "refusing" THEN "refused" ELSE "failed"]
    /\ UNCHANGED <<own, system, process, view, calls>>

(* Status degraded: the stream is lost and the client reopens it.          *)
StreamLost(c) ==
    /\ client[c] = "ready"
    /\ IF system = "up" THEN Fault ELSE UNCHANGED faults
    /\ client' = [client EXCEPT ![c] = "degraded"]
    /\ shown' = [i \in Interfaces |->
                    IF Heard(c) /\ "connected" \in shown[i]
                    THEN Update(shown[i], {"reconnecting"}, {"connected"}) ELSE shown[i]]
    /\ UNCHANGED <<configured, stopping, idle, box, ready, retry, opening, listing, system,
                   process, view, calls>>

(* A slip: only a resync has the interfaces looked at.                     *)
StreamBackUnread(c, gap) ==
    /\ client[c] = "degraded" /\ system = "up"
    /\ Heard(c)
    /\ client' = [client EXCEPT ![c] = "ready"]
    /\ view' = process
    /\ ConnectThem(IF gap THEN {i \in Interfaces : view'[i] = "running"} ELSE {}, shown)
    /\ UNCHANGED <<configured, stopping, idle, box, ready, retry, opening, system, process,
                   calls, faults>>

(* Status ready again, and after a gap the event resync.                   *)
StreamBack(c, gap) ==
    /\ client[c] = "degraded" /\ system = "up"
    /\ Heard(c)
    /\ client' = [client EXCEPT ![c] = "ready"]
    /\ view' = process
    /\ ConnectThem(IF gap THEN {i \in Interfaces : view'[i] = "running"} ELSE {},
                   IF ready THEN [i \in Interfaces |-> Applied(shown[i], view'[i])] ELSE shown)
    /\ UNCHANGED <<configured, stopping, idle, box, ready, retry, opening, system, process,
                   calls, faults>>

(* Status offline: the system refuses the token of a client that was up.   *)
TokenRefused(c) ==
    /\ client[c] \in {"ready", "degraded"} /\ system = "refusing"
    /\ Heard(c)
    /\ client' = [client EXCEPT ![c] = "offline"]
    /\ UpdateAll({}, {"connected", "reconnecting", "waiting"})
    /\ UNCHANGED <<configured, stopping, idle, box, ready, retry, opening, listing, system,
                   process, view, calls, faults>>

(* #onInterface().                                                         *)
ProcessIsUp(i) ==
    IF ready THEN ConnectThem({i}, shown) ELSE UNCHANGED <<shown, listing>>

ProcessIsGone(i, is) ==
    /\ shown' = [shown EXCEPT ![i] =
                    IF is = "missing" THEN Update(@, {"absent"}, {"connected", "reconnecting"})
                    ELSE Update(@, {}, {"connected", "reconnecting", "absent"})]
    /\ UNCHANGED listing

InterfaceEvent(c, i) ==
    /\ client[c] = "ready" /\ system = "up"
    /\ Heard(c)
    /\ \/ view[i] # process[i] /\ UNCHANGED faults
       \/ process[i] = "running" /\ Fault          \* restarted
    /\ view' = [view EXCEPT ![i] = process[i]]
    /\ IF process[i] = "running" THEN ProcessIsUp(i) ELSE ProcessIsGone(i, process[i])
    /\ UNCHANGED <<configured, stopping, idle, box, ready, retry, opening, system, process,
                   client, calls>>

(* noteEvent() of a value, which may come before the stream counts as back.*)
ValueArrives(c, i) ==
    /\ client[c] \in {"ready", "degraded"} /\ system = "up" /\ process[i] = "running"
    /\ Heard(c)
    /\ "connected" \notin shown[i] /\ ready /\ view[i] = "running"
    /\ shown' = [shown EXCEPT ![i] =
                    Update(@, {"connected"}, {"unreachable", "reconnecting"})]
    /\ UNCHANGED <<configured, stopping, idle, box, ready, retry, opening, listing, world, calls,
                   faults>>

SystemChanges ==
    /\ Fault
    /\ system' \in {"up", "away", "refusing", "names"} \ {system}
    /\ UNCHANGED <<own, process, client, view, calls>>

ProcessChanges(i) ==
    /\ Fault
    /\ \E is \in InterfaceStates \ {process[i]} : process' = [process EXCEPT ![i] = is]
    /\ UNCHANGED <<own, system, client, view, calls>>

-----------------------------------------------------------------------------
Continues(c) == Opened(c) \/ OpenedForNames(c) \/ OpenFails(c)

Reports(c) ==
    \/ ClientReady(c) \/ ClientFails(c) \/ TokenRefused(c)
    \/ \E gap \in BOOLEAN : StreamBack(c, gap)
    \/ \E i \in Interfaces : InterfaceEvent(c, i)

Next ==
    \/ Start \/ Unsubscribe \/ Subscribe \/ Stop
    \/ \E names \in {Interfaces} \union {{i} : i \in Interfaces} : Reconnect(names)
    \/ RetryFires
    \/ \E c \in Clients : Continues(c) \/ Reports(c) \/ StreamLost(c)
    \/ \E i \in Interfaces : Listed(i) \/ ProcessChanges(i)
    \/ \E c \in Clients, i \in Interfaces : ValueArrives(c, i)
    \/ SystemChanges

Spec == Init /\ [][Next]_vars

(* Promises and timers go on; connects have a timeout; the client reopens  *)
(* its stream and passes on what it hears.                                 *)
Fairness ==
    /\ WF_vars(RetryFires)
    /\ \A c \in Clients : WF_vars(Continues(c)) /\ WF_vars(Reports(c))
    /\ \A i \in Interfaces : WF_vars(Listed(i))

FairSpec == Spec /\ Fairness

-----------------------------------------------------------------------------
(* "the system allows two streams per token": whatever overlaps, the       *)
(* client in use is the only one that is not closed, and an idle or a      *)
(* stopped connection has none.  What is idle shows nothing else but that  *)
(* an interface is absent (#open(), unsubscribe(), stop()).                *)
OneStream ==
    /\ \A c \in Clients : client[c] \notin {"free", "closed"} => c = box
    /\ idle \/ stopping => box = NoClient
    /\ idle /\ configured => \A i \in Interfaces : shown[i] \ {"absent"} = {"idle"}

(* A retry never closes a client that works, and an interface is shown as  *)
(* waiting only while an attempt is under way or will be (#noteFailure()). *)
RetriesWhatFailed ==
    /\ retry /\ box # NoClient => client[box] = "failed"
    /\ \A i \in Interfaces : "waiting" \in shown[i] => retry \/ box \in opening

(* While the stream is up the states say what the client last heard of     *)
(* the processes, whatever was lost, closed or reopened before.            *)
ShownIsTheSystem ==
    ready /\ client[box] = "ready" =>
        \A i \in Interfaces :
            /\ "connected" \in shown[i] <=> view[i] = "running"
            /\ "absent" \in shown[i] <=> view[i] = "missing"
            /\ shown[i] \intersect {"waiting", "reconnecting", "unreachable", "idle"} = {}

(* A system that answers in the end, to a token it never refuses, has its  *)
(* running interfaces connected in the end (LITE_RETRY_DELAYS_MS).         *)
ConnectsInTheEnd ==
    [](system \in {"up", "away"}) /\ <>[](system = "up" /\ configured /\ ~idle) =>
        \A i \in Interfaces : <>[](process[i] = "running" => "connected" \in shown[i])
=============================================================================
