---------------------------- MODULE ApiTransport ----------------------------
(***************************************************************************)
(* The contract between the pages and the backend over WebSocket:          *)
(* WebSocketTransport of packages/ui/src/lib/transport and                 *)
(* ApiWebSocketServer of packages/backend/src/transport/wsServer.ts, with  *)
(* a network that resets a connection or lets it die without a word.       *)
(*                                                                         *)
(* A request is a number; its handler in the backend may emit one event    *)
(* before it answers, which is told to every page.  Payloads, tokens and   *)
(* sessions are left out.                                                  *)
(***************************************************************************)
EXTENDS Naturals, Sequences, FiniteSets

CONSTANTS
    Pages,          \* the open pages
    MaxSockets,     \* bound: how many sockets all of them open
    MaxRequests     \* bound: how many requests they make

ASSUME BoundsAssumption ==
    /\ IsFiniteSet(Pages) /\ MaxSockets \in Nat /\ MaxRequests \in Nat
    /\ "nobody" \notin Pages

Sockets == 1..MaxSockets
Requests == 1..MaxRequests
NoPage == "nobody"

VARIABLES
    here,           \* the pages that have not been left
    socket,         \* #socket of a page, 0 for undefined
    connected,      \* #connected of a page
    retry,          \* #reconnectTimer of a page
    requests,       \* of a request: its page, the socket it was sent on, what became of it
    seen            \* the events a page was told: pairs of page and request

VARIABLES
    wire,           \* of a socket: its state, and the frames under way up and down
    sockets,        \* #sockets of the server
    answered,       \* the sockets whose last ping was answered (#keepAlive)
    handling,       \* the requests the backend works at
    emitted,        \* the requests that caused their event
    pending         \* #pending of the server: what of it would go to each socket

page == <<here, socket, connected, retry, requests, seen>>
server == <<sockets, answered, handling, emitted, pending>>
vars == <<page, wire, server>>

Fates == {"none", "waiting", "pending", "resolved", "rejected"}
States == {"unused", "opening", "accepted", "open", "cut", "closed"}
Frames == [t : {"ev", "res"}, id : Requests]

TypeOK ==
    /\ here \subseteq Pages
    /\ socket \in [Pages -> 0..MaxSockets]
    /\ connected \in [Pages -> BOOLEAN] /\ retry \in [Pages -> BOOLEAN]
    /\ requests \in [Requests -> [of : Pages \union {NoPage}, on : 0..MaxSockets, fate : Fates]]
    /\ seen \subseteq Pages \X Requests
    /\ wire \in [Sockets -> [is : States, up : Seq(Requests), down : Seq(Frames)]]
    /\ sockets \subseteq Sockets /\ answered \subseteq Sockets
    /\ handling \subseteq Requests /\ emitted \subseteq Requests
    /\ pending \in [Sockets -> Seq(Frames)]
    /\ \A p \in Pages : connected[p] => socket[p] # 0

Init ==
    /\ here = Pages
    /\ socket = [p \in Pages |-> 0]
    /\ connected = [p \in Pages |-> FALSE]
    /\ retry = [p \in Pages |-> TRUE]
    /\ requests = [r \in Requests |-> [of |-> NoPage, on |-> 0, fate |-> "none"]]
    /\ seen = {}
    /\ wire = [s \in Sockets |-> [is |-> "unused", up |-> <<>>, down |-> <<>>]]
    /\ sockets = {} /\ answered = {} /\ handling = {} /\ emitted = {}
    /\ pending = [s \in Sockets |-> <<>>]

-----------------------------------------------------------------------------
(* The page.                                                               *)

Becomes(s, is) == wire' = [wire EXCEPT ![s] = [is |-> is, up |-> <<>>, down |-> <<>>]]

(* connect(), from the constructor or the reconnect timer.                 *)
Connect(p) ==
    /\ p \in here /\ retry[p]
    /\ retry' = [retry EXCEPT ![p] = FALSE]
    /\ \E s \in Sockets :
        /\ wire[s].is = "unused" /\ \A k \in 1..(s - 1) : wire[k].is # "unused"
        /\ IF socket[p] # 0 THEN UNCHANGED <<socket, wire>>
           ELSE Becomes(s, "opening") /\ socket' = [socket EXCEPT ![p] = s]
    /\ UNCHANGED <<here, connected, requests, seen, server>>

(* onopen: every request that waited for it is sent.                       *)
Opens(p) ==
    LET s == socket[p]
        waiting == {r \in Requests : requests[r].of = p /\ requests[r].fate = "waiting"} IN
    /\ s # 0 /\ wire[s].is = "accepted"
    /\ connected' = [connected EXCEPT ![p] = TRUE]
    /\ requests' = [r \in Requests |-> IF r \in waiting
                        THEN [requests[r] EXCEPT !.on = s, !.fate = "pending"] ELSE requests[r]]
    /\ \E up \in [1..Cardinality(waiting) -> waiting] :
        /\ \A i, j \in DOMAIN up : i < j => up[i] < up[j]
        /\ wire' = [wire EXCEPT ![s] = [is |-> "open", up |-> up, down |-> <<>>]]
    /\ UNCHANGED <<here, socket, retry, seen, server>>

(* request(), sent at once or when the socket opens.                       *)
Ask(p) ==
    \E r \in Requests :
        /\ p \in here
        /\ requests[r].fate = "none" /\ \A k \in 1..(r - 1) : requests[k].fate # "none"
        /\ IF connected[p]
           THEN /\ requests' = [requests EXCEPT ![r] = [of |-> p, on |-> socket[p], fate |-> "pending"]]
                /\ wire' = IF wire[socket[p]].is = "open"
                           THEN [wire EXCEPT ![socket[p]].up = Append(@, r)] ELSE wire
           ELSE /\ requests' = [requests EXCEPT ![r] = [of |-> p, on |-> 0, fate |-> "waiting"]]
                /\ UNCHANGED wire
        /\ UNCHANGED <<here, socket, connected, retry, seen, server>>

TimesOut(r) ==
    /\ requests[r].fate \in {"waiting", "pending"}
    /\ requests' = [requests EXCEPT ![r].fate = "rejected"]
    /\ UNCHANGED <<here, socket, connected, retry, seen, wire, server>>

(* A slip: only requests that wait for the socket to open are failed.      *)
FailWaiting(p) ==
    requests' = [r \in Requests |->
        IF requests[r].of = p /\ requests[r].fate = "waiting"
        THEN [requests[r] EXCEPT !.fate = "rejected"] ELSE requests[r]]

FailAll(p) ==
    requests' = [r \in Requests |->
        IF requests[r].of = p /\ requests[r].fate \in {"waiting", "pending"}
        THEN [requests[r] EXCEPT !.fate = "rejected"] ELSE requests[r]]

(* A slip: the reconnect is only planned for a socket that had opened.     *)
ClosesIfOpened(p) ==
    /\ p \in here /\ socket[p] # 0 /\ wire[socket[p]].is = "closed"
    /\ socket' = [socket EXCEPT ![p] = 0]
    /\ connected' = [connected EXCEPT ![p] = FALSE]
    /\ retry' = [retry EXCEPT ![p] = connected[p]]
    /\ FailAll(p)
    /\ UNCHANGED <<here, seen, wire, server>>

(* onclose: #handleClose().                                                *)
Closes(p) ==
    /\ p \in here /\ socket[p] # 0 /\ wire[socket[p]].is = "closed"
    /\ socket' = [socket EXCEPT ![p] = 0]
    /\ connected' = [connected EXCEPT ![p] = FALSE]
    /\ retry' = [retry EXCEPT ![p] = TRUE]
    /\ FailAll(p)
    /\ UNCHANGED <<here, seen, wire, server>>

(* onmessage: #handleMessage() with #settle().                             *)
Told(p) ==
    LET s == socket[p] IN
    /\ p \in here /\ s # 0 /\ wire[s].is = "open" /\ wire[s].down # <<>>
    /\ LET frame == Head(wire[s].down) IN
       IF frame.t = "ev"
       THEN seen' = seen \union {<<p, frame.id>>} /\ UNCHANGED requests
       ELSE /\ requests' = IF requests[frame.id].fate = "pending"
                           THEN [requests EXCEPT ![frame.id].fate = "resolved"] ELSE requests
            /\ UNCHANGED seen
    /\ wire' = [wire EXCEPT ![s].down = Tail(@)]
    /\ UNCHANGED <<here, socket, connected, retry, server>>

-----------------------------------------------------------------------------
(* The network.                                                            *)

(* A connection ends with both sides told, or a page is left.              *)
Reset(s) ==
    /\ wire[s].is \in {"opening", "accepted", "open"}
    /\ Becomes(s, "closed")
    /\ UNCHANGED <<page, server>>

Leave(p) ==
    /\ p \in here
    /\ here' = here \ {p}
    /\ wire' = [s \in Sockets |-> IF s = socket[p] /\ wire[s].is \in {"opening", "accepted", "open"}
                    THEN [is |-> "closed", up |-> <<>>, down |-> <<>>] ELSE wire[s]]
    /\ UNCHANGED <<socket, connected, retry, requests, seen, server>>

(* A connection ends with neither side told: a laptop that suspends.       *)
Cut(s) ==
    /\ wire[s].is = "open"
    /\ Becomes(s, "cut")
    /\ UNCHANGED <<page, server>>

(* The operating system of a page gives up on it at some time, or never.   *)
CutNoticed(s) ==
    /\ wire[s].is = "cut" /\ s \notin sockets
    /\ Becomes(s, "closed")
    /\ UNCHANGED <<page, server>>

-----------------------------------------------------------------------------
(* The server.                                                             *)

(* #accept(); noteSessions() is told the number of #sockets here and       *)
(* wherever one leaves.                                                    *)
Accept(s) ==
    /\ wire[s].is = "opening"
    /\ Becomes(s, "accepted")
    /\ sockets' = sockets \union {s}
    /\ answered' = answered \union {s}
    /\ UNCHANGED <<page, handling, emitted, pending>>

SocketClosed(s) ==
    /\ s \in sockets /\ wire[s].is = "closed"
    /\ sockets' = sockets \ {s}
    /\ answered' = answered \ {s}
    /\ UNCHANGED <<page, wire, handling, emitted, pending>>

(* A slip: the next ping is sent whether the last was answered or not.     *)
KeepAliveForever(s) ==
    /\ s \in sockets /\ wire[s].is \in {"accepted", "open", "cut"}
    /\ answered' = answered \ {s}
    /\ UNCHANGED <<page, wire, sockets, handling, emitted, pending>>

(* The interval of #keepAlive(): a ping, or terminate() without a pong.    *)
KeepAlive(s) ==
    /\ s \in sockets /\ wire[s].is \in {"accepted", "open", "cut"}
    /\ answered' = answered \ {s}
    /\ IF s \in answered THEN UNCHANGED <<wire, sockets>>
       ELSE /\ sockets' = sockets \ {s}
            /\ IF wire[s].is = "cut" THEN UNCHANGED wire ELSE Becomes(s, "closed")
    /\ UNCHANGED <<page, handling, emitted, pending>>

Pong(s) ==
    /\ s \in sockets \ answered /\ wire[s].is \in {"accepted", "open"}
    /\ answered' = answered \union {s}
    /\ UNCHANGED <<page, wire, sockets, handling, emitted, pending>>

(* #handle() up to the call of the backend.                                *)
Handle(s) ==
    /\ s \in sockets /\ wire[s].is = "open" /\ wire[s].up # <<>>
    /\ handling' = handling \union {Head(wire[s].up)}
    /\ wire' = [wire EXCEPT ![s].up = Tail(@)]
    /\ UNCHANGED <<page, sockets, answered, emitted, pending>>

(* broadcast() of the event a request causes.                              *)
Broadcast(r) ==
    /\ r \in handling \ emitted
    /\ emitted' = emitted \union {r}
    /\ pending' = IF sockets = {} THEN pending
                  ELSE [s \in Sockets |-> Append(pending[s], [t |-> "ev", id |-> r])]
    /\ UNCHANGED <<page, wire, sockets, answered, handling>>

Sent(w, s, frame) ==
    IF s \in sockets /\ w[s].is = "open" THEN [w EXCEPT ![s].down = Append(@, frame)] ELSE w

(* A slip: what task 73 was without #answer(), which lets an answer wait.  *)
AnswerAtOnce(r) ==
    /\ r \in handling
    /\ handling' = handling \ {r}
    /\ wire' = Sent(wire, requests[r].on, [t |-> "res", id |-> r])
    /\ UNCHANGED <<page, sockets, answered, emitted, pending>>

(* #answer(), of a result or an error.                                     *)
Answer(r) ==
    LET s == requests[r].on
        frame == [t |-> "res", id |-> r] IN
    /\ r \in handling
    /\ handling' = handling \ {r}
    /\ IF \A k \in Sockets : pending[k] = <<>>
       THEN wire' = Sent(wire, s, frame) /\ UNCHANGED pending
       ELSE pending' = [pending EXCEPT ![s] = Append(@, frame)] /\ UNCHANGED wire
    /\ UNCHANGED <<page, sockets, answered, emitted>>

(* #flush(): every frame to the sockets it is for, in order.               *)
Flush ==
    /\ \E s \in Sockets : pending[s] # <<>>
    /\ pending' = [s \in Sockets |-> <<>>]
    /\ wire' = [s \in Sockets |-> IF s \in sockets /\ wire[s].is = "open"
                    THEN [wire[s] EXCEPT !.down = @ \o pending[s]] ELSE wire[s]]
    /\ UNCHANGED <<page, sockets, answered, handling, emitted>>

-----------------------------------------------------------------------------
PageStep(p) == Opens(p) \/ Closes(p) \/ Told(p)
SocketStep(s) == Accept(s) \/ SocketClosed(s) \/ Handle(s)

Next ==
    \/ \E p \in Pages : Connect(p) \/ Ask(p) \/ Leave(p) \/ PageStep(p)
    \/ \E s \in Sockets : SocketStep(s) \/ Reset(s) \/ Cut(s) \/ CutNoticed(s)
                          \/ KeepAlive(s) \/ Pong(s)
    \/ \E r \in Requests : TimesOut(r) \/ Broadcast(r) \/ Answer(r)
    \/ Flush

Spec == Init /\ [][Next]_vars

(* Timers fire, the server reads its sockets and its backend answers, a    *)
(* live page answers a ping before the next; nothing makes a network tell. *)
FairSpec ==
    /\ Spec
    /\ \A p \in Pages : WF_vars(Connect(p)) /\ WF_vars(PageStep(p))
    /\ \A s \in Sockets : WF_vars(SocketStep(s)) /\ WF_vars(KeepAlive(s))
    /\ WF_vars(Flush)

-----------------------------------------------------------------------------
(* A page has seen the event its request caused before the answer, though  *)
(* events wait for the next turn and answers do not (wsServer.ts, task 73).*)
EventBeforeAnswer ==
    \A r \in Requests : requests[r].fate = "resolved" /\ r \in emitted => <<requests[r].of, r>> \in seen

(* No request waits for an answer on a socket its page has given up, where *)
(* none can come ("rather than hanging", WebSocketTransport.ts).           *)
NoneWaitsOnALostSocket ==
    \A r \in Requests : requests[r].fate = "pending" /\ requests[r].of \in here
        => socket[requests[r].of] = requests[r].on

(* A page left, suspended or reset is no session in the end, so that the   *)
(* backend can go idle (#keepAlive(), the close handler of #accept()).     *)
TheDeadAreNotCounted == \A s \in Sockets : wire[s].is \in {"cut", "closed"} ~> s \notin sockets

(* A page that stays tries again as long as it is not connected (connect())*)
(* - until the sockets of this instance are used up.                       *)
StaysConnected ==
    \A p \in Pages : [](p \in here /\ ~connected[p]
        => <>(connected[p] \/ p \notin here \/ \A s \in Sockets : wire[s].is # "unused"))
=============================================================================
