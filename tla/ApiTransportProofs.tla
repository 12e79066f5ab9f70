------------------------- MODULE ApiTransportProofs -------------------------
(***************************************************************************)
(* What ApiTransport keeps for every number of pages, sockets and          *)
(* requests: an event a request caused is told before its answer, no       *)
(* request waits on a socket its page has given up, and no page that is    *)
(* offline is left that way.                                               *)
(***************************************************************************)
EXTENDS ApiTransport, SequenceTheorems, FiniteSetTheorems, TLAPS

Ev(r) == [t |-> "ev", id |-> r]
Res(r) == [t |-> "res", id |-> r]

(* What is on its way to a page: on the wire, and then what waits for the  *)
(* next turn of the server.                                                *)
Down(s) == wire[s].down \o pending[s]

(* Every socket is one page's, and only an open one carries frames.        *)
SocketInv ==
    /\ \A p \in Pages : socket[p] # 0 => wire[socket[p]].is # "unused"
    /\ \A p, q \in Pages : socket[p] # 0 /\ socket[p] = socket[q] => p = q
    /\ \A p \in Pages : connected[p] => /\ socket[p] # 0
                                        /\ wire[socket[p]].is \in {"open", "cut", "closed"}
    /\ \A s \in Sockets : wire[s].is \in {"accepted", "open"} => s \in sockets
    /\ \A s \in Sockets : wire[s].is # "open" => wire[s].down = <<>> /\ wire[s].up = <<>>

(* A request that was sent was sent on a socket of its page.               *)
SentInv ==
    \A r \in Requests :
        /\ requests[r].fate # "none" => requests[r].of \in Pages
        /\ requests[r].fate \in {"none", "waiting"} => requests[r].on = 0
        /\ requests[r].fate = "pending" => requests[r].on # 0
        /\ requests[r].on # 0 =>
              /\ wire[requests[r].on].is \in {"open", "cut", "closed"}
              /\ \A p \in Pages : socket[p] = requests[r].on => p = requests[r].of

(* A request is on its way up once, then at work, then answered, in this   *)
(* order; it causes its event while the backend works at it.               *)
OrderInv ==
    /\ \A s \in Sockets : \A k \in DOMAIN wire[s].up :
          LET r == wire[s].up[k] IN
          /\ requests[r].on = s /\ requests[r].fate # "resolved"
          /\ r \notin handling /\ r \notin emitted
          /\ \A j \in DOMAIN wire[s].up : wire[s].up[j] = r => j = k
    /\ \A r \in handling : requests[r].on # 0 /\ requests[r].fate # "resolved"
    /\ \A r \in emitted : requests[r].on # 0
    /\ \A s \in Sockets : \A k \in DOMAIN Down(s) :
          LET r == Down(s)[k].id IN
          Down(s)[k].t = "res" =>
              /\ requests[r].on = s /\ r \notin handling
              /\ \A j \in DOMAIN wire[s].up : wire[s].up[j] # r

Seen(r) == <<requests[r].of, r>> \in seen

(* The event is ahead of the answer on every open socket.                  *)
EventInv ==
    \A s \in Sockets : wire[s].is = "open" =>
        /\ \A r \in emitted : requests[r].on = s =>
              Seen(r) \/ \E j \in DOMAIN Down(s) : Down(s)[j] = Ev(r)
        /\ \A k \in DOMAIN Down(s) : \A r \in emitted : Down(s)[k] = Res(r) =>
              Seen(r) \/ \E j \in DOMAIN Down(s) : j < k /\ Down(s)[j] = Ev(r)

IInv == /\ TypeOK /\ SocketInv /\ SentInv /\ OrderInv /\ EventInv
        /\ EventBeforeAnswer /\ NoneWaitsOnALostSocket

-----------------------------------------------------------------------------
RequestRecords == [of : Pages \union {NoPage}, on : 0..MaxSockets, fate : Fates]
WireRecords == [is : States, up : Seq(Requests), down : Seq(Frames)]

LEMMA SocketNumbers ==
    /\ MaxSockets \in Nat /\ 0 \notin Sockets /\ Sockets \subseteq 0..MaxSockets
    /\ \A n \in 0..MaxSockets : n # 0 => n \in Sockets
  BY BoundsAssumption DEF Sockets

LEMMA FrameType ==
    ASSUME NEW r \in Requests
    PROVE  Ev(r) \in Frames /\ Res(r) \in Frames /\ Ev(r) # Res(r)
  BY DEF Ev, Res, Frames

LEMMA Typed ==
    ASSUME TypeOK
    PROVE  /\ requests \in [Requests -> RequestRecords]
           /\ wire \in [Sockets -> WireRecords]
           /\ \A r \in Requests : requests[r] \in RequestRecords
           /\ \A s \in Sockets : /\ wire[s] \in WireRecords
                                 /\ wire[s].up \in Seq(Requests)
                                 /\ wire[s].down \in Seq(Frames)
                                 /\ pending[s] \in Seq(Frames)
                                 /\ Down(s) \in Seq(Frames)
<1>1. /\ requests \in [Requests -> RequestRecords]
      /\ wire \in [Sockets -> WireRecords]
      /\ pending \in [Sockets -> Seq(Frames)]
  BY DEF TypeOK, RequestRecords, WireRecords
<1>2. \A s \in Sockets : wire[s].up \in Seq(Requests) /\ wire[s].down \in Seq(Frames)
  BY <1>1 DEF WireRecords
<1> QED
  BY <1>1, <1>2, ConcatProperties DEF Down

LEMMA ClosedType == \A is \in States : [is |-> is, up |-> <<>>, down |-> <<>>] \in WireRecords
<1>1. <<>> \in Seq(Requests) /\ <<>> \in Seq(Frames)
  BY EmptySeq
<1> QED
  BY <1>1 DEF WireRecords

(* What waits is a part of what is on its way; nothing else is when the    *)
(* wire is empty.                                                          *)
LEMMA PartOfDown ==
    ASSUME NEW one \in Seq(Frames), NEW two \in Seq(Frames), NEW k \in DOMAIN two
    PROVE  \E j \in DOMAIN (one \o two) : (one \o two)[j] = two[k]
<1>1. /\ one \o two \in Seq(Frames) /\ Len(one \o two) = Len(one) + Len(two)
      /\ \A i \in 1 .. Len(one) + Len(two) : (one \o two)[i] =
             IF i <= Len(one) THEN one[i] ELSE two[i - Len(one)]
  BY ConcatProperties
<1>2. /\ Len(one) \in Nat /\ Len(two) \in Nat
      /\ DOMAIN two = 1..Len(two) /\ DOMAIN (one \o two) = 1..(Len(one) + Len(two))
  BY <1>1, LenProperties
<1>3. Len(one) + k \in DOMAIN (one \o two) /\ (one \o two)[Len(one) + k] = two[k]
  BY <1>1, <1>2
<1> QED
  BY <1>3

(* A sequence with one more frame at the end, and without its first.       *)
LEMMA FrameAdded ==
    ASSUME NEW q \in Seq(Frames), NEW f \in Frames
    PROVE  /\ Append(q, f) \in Seq(Frames)
           /\ DOMAIN q \subseteq DOMAIN Append(q, f)
           /\ \A k \in DOMAIN q : Append(q, f)[k] = q[k]
           /\ \A k \in DOMAIN Append(q, f) : k \in DOMAIN q \/ k = Len(q) + 1
           /\ Len(q) + 1 \in DOMAIN Append(q, f) /\ Append(q, f)[Len(q) + 1] = f
           /\ \A k \in DOMAIN q : k < Len(q) + 1 /\ k \in Nat
           /\ Len(q) \in Nat
<1>1. /\ Append(q, f) \in Seq(Frames) /\ Len(Append(q, f)) = Len(q) + 1
      /\ \A i \in 1..Len(q) : Append(q, f)[i] = q[i]
      /\ Append(q, f)[Len(q) + 1] = f
  BY AppendProperties
<1>2. /\ Len(q) \in Nat /\ DOMAIN q = 1..Len(q) /\ DOMAIN Append(q, f) = 1..(Len(q) + 1)
  BY <1>1, LenProperties
<1> QED
  BY <1>1, <1>2

LEMMA AddedLast ==
    ASSUME NEW one \in Seq(Frames), NEW two \in Seq(Frames), NEW f \in Frames
    PROVE  /\ one \o Append(two, f) = Append(one \o two, f)
           /\ two = <<>> => Append(one, f) \o two = Append(one \o two, f)
           /\ one \o <<>> = one /\ <<>> \o two = two
           /\ (one \o two) \o <<>> = one \o two
<1>1. <<f>> \in Seq(Frames) /\ one \o two \in Seq(Frames)
  BY ConcatProperties
<1>2. /\ Append(two, f) = two \o <<f>>
      /\ Append(one \o two, f) = (one \o two) \o <<f>>
  BY <1>1, AppendIsConcat
<1>3. one \o (two \o <<f>>) = (one \o two) \o <<f>>
  BY <1>1, ConcatAssociative
<1>4. /\ one \o <<>> = one /\ <<>> \o two = two /\ (one \o two) \o <<>> = one \o two
  BY <1>1, ConcatEmptySeq
<1>5. Append(one, f) \o <<>> = Append(one, f)
  BY AppendProperties, ConcatEmptySeq
<1> QED
  BY <1>2, <1>3, <1>4, <1>5

LEMMA FirstFrameTaken ==
    ASSUME NEW S, NEW q \in Seq(S), q # <<>>
    PROVE  /\ Head(q) \in S /\ Tail(q) \in Seq(S) /\ Head(q) = q[1]
           /\ 1 \in DOMAIN q /\ DOMAIN q \subseteq Nat
           /\ \A k \in DOMAIN Tail(q) : k + 1 \in DOMAIN q /\ k \in Nat \ {0} /\ Tail(q)[k] = q[k + 1]
           /\ \A k \in DOMAIN q : k # 1 => k - 1 \in DOMAIN Tail(q) /\ Tail(q)[k - 1] = q[k]
<1>1. /\ Head(q) \in S /\ Tail(q) \in Seq(S) /\ Head(q) = q[1]
      /\ Len(Tail(q)) = Len(q) - 1 /\ \A i \in 1..Len(Tail(q)) : Tail(q)[i] = q[i + 1]
  BY HeadTailProperties
<1>2. /\ Len(q) \in Nat \ {0} /\ DOMAIN q = 1..Len(q) /\ DOMAIN Tail(q) = 1..(Len(q) - 1)
  BY <1>1, EmptySeq, LenProperties
<1> QED
  BY <1>1, <1>2

LEMMA FirstOfTwo ==
    ASSUME NEW one \in Seq(Frames), NEW two \in Seq(Frames), one # <<>>
    PROVE  /\ Tail(one \o two) = Tail(one) \o two
           /\ Head(one \o two) = Head(one)
           /\ one \o two # <<>>
<1>1. /\ one \o two \in Seq(Frames) /\ Len(one \o two) = Len(one) + Len(two)
      /\ \A i \in 1 .. Len(one) + Len(two) : (one \o two)[i] =
             IF i <= Len(one) THEN one[i] ELSE two[i - Len(one)]
  BY ConcatProperties
<1>2. Len(one) \in Nat \ {0} /\ Len(two) \in Nat
  BY EmptySeq, LenProperties
<1>3. /\ Tail(one) \in Seq(Frames) /\ Len(Tail(one)) = Len(one) - 1
      /\ \A i \in 1..Len(Tail(one)) : Tail(one)[i] = one[i + 1]
      /\ Head(one) = one[1]
  BY HeadTailProperties
<1>4. one \o two # <<>>
  BY <1>1, <1>2, EmptySeq
<1>5. /\ Tail(one \o two) \in Seq(Frames) /\ Len(Tail(one \o two)) = Len(one) + Len(two) - 1
      /\ \A i \in 1..Len(Tail(one \o two)) : Tail(one \o two)[i] = (one \o two)[i + 1]
      /\ Head(one \o two) = (one \o two)[1]
  BY <1>1, <1>4, HeadTailProperties
<1>6. /\ Tail(one) \o two \in Seq(Frames) /\ Len(Tail(one) \o two) = Len(one) + Len(two) - 1
      /\ \A i \in 1 .. Len(Tail(one)) + Len(two) : (Tail(one) \o two)[i] =
             IF i <= Len(Tail(one)) THEN Tail(one)[i] ELSE two[i - Len(Tail(one))]
  BY <1>2, <1>3, ConcatProperties
<1>7. \A i \in 1..Len(Tail(one \o two)) : Tail(one \o two)[i] = (Tail(one) \o two)[i]
  BY <1>1, <1>2, <1>3, <1>5, <1>6
<1>8. Tail(one \o two) = Tail(one) \o two
  BY <1>5, <1>6, <1>7, SeqEqual
<1> QED
  BY <1>1, <1>2, <1>3, <1>4, <1>5, <1>8

-----------------------------------------------------------------------------
LEMMA InitInv == Init => IInv
<1> SUFFICES ASSUME Init PROVE IInv
  OBVIOUS
<1> USE DEF Init
<1>1. <<>> \in Seq(Requests) /\ <<>> \in Seq(Frames)
  BY EmptySeq
<1>2. TypeOK
  BY <1>1, SocketNumbers DEF TypeOK, Fates, States
<1>3. \A s \in Sockets : /\ wire[s].is = "unused" /\ wire[s].up = <<>> /\ wire[s].down = <<>>
                         /\ DOMAIN wire[s].up = {}
  OBVIOUS
<1>4. \A s \in Sockets : Down(s) = <<>> /\ DOMAIN Down(s) = {}
  <2> TAKE s \in Sockets
  <2>1. Down(s) = <<>> \o <<>>
    BY DEF Down
  <2>2. Down(s) = <<>>
    BY <2>1, <1>1, ConcatEmptySeq
  <2> QED
    BY <2>2
<1>5. SocketInv /\ SentInv
  BY <1>3 DEF SocketInv, SentInv
<1>6. OrderInv /\ EventInv
  BY <1>3, <1>4 DEF OrderInv, EventInv
<1>7. EventBeforeAnswer /\ NoneWaitsOnALostSocket
  BY DEF EventBeforeAnswer, NoneWaitsOnALostSocket
<1> QED
  BY <1>2, <1>5, <1>6, <1>7 DEF IInv

-----------------------------------------------------------------------------
(* Every step keeps the types.                                             *)

LEMMA BecomesType ==
    ASSUME TypeOK, NEW s \in Sockets, NEW is \in States, Becomes(s, is)
    PROVE  wire' \in [Sockets -> WireRecords]
  BY Typed, ClosedType DEF Becomes

LEMMA FailAllType ==
    ASSUME TypeOK, NEW p, FailAll(p)
    PROVE  requests' \in [Requests -> RequestRecords]
<1>1. \A r \in Requests : [requests[r] EXCEPT !.fate = "rejected"] \in RequestRecords
  BY Typed DEF RequestRecords, Fates
<1> QED
  BY <1>1, Typed DEF FailAll

LEMMA PageTypes ==
    ASSUME IInv, NEW p \in Pages, Connect(p) \/ Ask(p) \/ Leave(p) \/ PageStep(p)
    PROVE  TypeOK'
<1>0. TypeOK /\ SocketInv
  BY DEF IInv
<1>a. UNCHANGED <<sockets, answered, handling, emitted, pending>>
  BY DEF Connect, Ask, Leave, PageStep, Opens, Closes, Told, server
<1>b. ASSUME here' \subseteq Pages, socket' \in [Pages -> 0..MaxSockets],
             connected' \in [Pages -> BOOLEAN], retry' \in [Pages -> BOOLEAN],
             requests' \in [Requests -> RequestRecords], seen' \subseteq Pages \X Requests,
             wire' \in [Sockets -> WireRecords], \A q \in Pages : connected'[q] => socket'[q] # 0
      PROVE  TypeOK'
  BY <1>0, <1>a, <1>b DEF TypeOK, RequestRecords, WireRecords
<1>1. ASSUME Connect(p) PROVE TypeOK'
  <2>1. PICK s \in Sockets :
          IF socket[p] # 0 THEN UNCHANGED <<socket, wire>>
          ELSE Becomes(s, "opening") /\ socket' = [socket EXCEPT ![p] = s]
    BY <1>1 DEF Connect
  <2>2. wire' \in [Sockets -> WireRecords] /\ socket' \in [Pages -> 0..MaxSockets]
    BY <1>0, <2>1, Typed, BecomesType, SocketNumbers DEF TypeOK, States
  <2>3. \A q \in Pages : socket[q] # 0 => socket'[q] # 0
    BY <1>0, <2>1, SocketNumbers DEF TypeOK
  <2> QED
    BY <1>0, <1>1, <1>b, <2>2, <2>3 DEF Connect, TypeOK, RequestRecords
<1>2. ASSUME Ask(p) PROVE TypeOK'
  <2>1. PICK r \in Requests :
          IF connected[p]
          THEN /\ requests' = [requests EXCEPT ![r] = [of |-> p, on |-> socket[p], fate |-> "pending"]]
               /\ wire' = IF wire[socket[p]].is = "open"
                          THEN [wire EXCEPT ![socket[p]].up = Append(@, r)] ELSE wire
          ELSE /\ requests' = [requests EXCEPT ![r] = [of |-> p, on |-> 0, fate |-> "waiting"]]
               /\ UNCHANGED wire
    BY <1>2 DEF Ask
  <2>2. /\ [of |-> p, on |-> socket[p], fate |-> "pending"] \in RequestRecords
        /\ [of |-> p, on |-> 0, fate |-> "waiting"] \in RequestRecords
    BY <1>0, SocketNumbers DEF TypeOK, RequestRecords, Fates
  <2>3. requests' \in [Requests -> RequestRecords]
    BY <1>0, <2>1, <2>2, Typed
  <2>4. wire' \in [Sockets -> WireRecords]
    <3>1. CASE connected[p] /\ wire[socket[p]].is = "open"
      <4>1. socket[p] \in Sockets
        BY <1>0, <3>1, SocketNumbers DEF TypeOK
      <4>2. Append(wire[socket[p]].up, r) \in Seq(Requests)
        BY <1>0, <4>1, Typed, AppendProperties
      <4>3. [wire[socket[p]] EXCEPT !.up = Append(@, r)] \in WireRecords
        BY <1>0, <4>1, <4>2, Typed DEF WireRecords
      <4> QED
        BY <1>0, <2>1, <3>1, <4>1, <4>3, Typed
    <3>2. CASE ~(connected[p] /\ wire[socket[p]].is = "open")
      BY <1>0, <2>1, <3>2, Typed
    <3> QED
      BY <3>1, <3>2
  <2> QED
    BY <1>0, <1>2, <1>b, <2>3, <2>4 DEF Ask, TypeOK
<1>3. ASSUME Leave(p) PROVE TypeOK'
  <2>1. wire' \in [Sockets -> WireRecords]
    <3>1. \A s \in Sockets : [is |-> "closed", up |-> <<>>, down |-> <<>>] \in WireRecords
      BY ClosedType DEF States
    <3> QED
      BY <1>0, <1>3, <3>1, Typed DEF Leave
  <2> QED
    BY <1>0, <1>3, <1>b, <2>1 DEF Leave, TypeOK, RequestRecords
<1>4. ASSUME Opens(p) PROVE TypeOK'
  <2> DEFINE s == socket[p]
             waiting == {r \in Requests : requests[r].of = p /\ requests[r].fate = "waiting"}
  <2>1. s \in Sockets
    BY <1>0, <1>4, SocketNumbers DEF Opens, TypeOK
  <2>2. PICK up \in [1..Cardinality(waiting) -> waiting] :
          wire' = [wire EXCEPT ![s] = [is |-> "open", up |-> up, down |-> <<>>]]
    BY <1>4 DEF Opens
  <2>3. up \in Seq(Requests)
    <3>1. IsFiniteSet(Requests)
      BY FS_Interval, BoundsAssumption DEF Requests
    <3>2. IsFiniteSet(waiting)
      BY <3>1, FS_Subset
    <3>3. Cardinality(waiting) \in Nat
      BY <3>2, FS_CardinalityType
    <3>4. PICK n \in Nat : n = Cardinality(waiting)
      BY <3>3
    <3>5. up \in [1..n -> Requests]
      BY <2>2, <3>4
    <3>6. [1..n -> Requests] \subseteq Seq(Requests)
      BY SeqDef
    <3> QED
      BY <3>5, <3>6
  <2>4. wire' \in [Sockets -> WireRecords]
    <3>1. [is |-> "open", up |-> up, down |-> <<>>] \in WireRecords
      BY <2>3, EmptySeq DEF WireRecords, States
    <3> QED
      BY <1>0, <2>1, <2>2, <3>1, Typed
  <2>5. requests' \in [Requests -> RequestRecords]
    <3>1. \A r \in Requests : [requests[r] EXCEPT !.on = s, !.fate = "pending"] \in RequestRecords
      BY <1>0, <2>1, Typed, SocketNumbers DEF RequestRecords, Fates
    <3> QED
      BY <1>0, <1>4, <3>1, Typed DEF Opens
  <2> QED
    BY <1>0, <1>4, <1>b, <2>4, <2>5 DEF Opens, TypeOK
<1>5. ASSUME Closes(p) PROVE TypeOK'
  <2>1. requests' \in [Requests -> RequestRecords]
    BY <1>0, <1>5, FailAllType DEF Closes
  <2>2. wire' \in [Sockets -> WireRecords]
    BY <1>0, <1>5, Typed DEF Closes
  <2> QED
    BY <1>0, <1>5, <1>b, <2>1, <2>2, SocketNumbers DEF Closes, TypeOK
<1>6. ASSUME Told(p) PROVE TypeOK'
  <2> DEFINE s == socket[p]
             frame == Head(wire[s].down)
  <2>1. s \in Sockets /\ wire[s].down # <<>>
    BY <1>0, <1>6, SocketNumbers DEF Told, TypeOK
  <2>2. frame \in Frames /\ Tail(wire[s].down) \in Seq(Frames)
    BY <1>0, <2>1, Typed, FirstFrameTaken
  <2>3. [wire[s] EXCEPT !.down = Tail(@)] \in WireRecords
    BY <1>0, <2>1, <2>2, Typed DEF WireRecords
  <2>4. wire' \in [Sockets -> WireRecords]
    BY <1>0, <1>6, <2>1, <2>3, Typed DEF Told
  <2>5. frame.id \in Requests
    BY <2>2 DEF Frames
  <2>6. [requests[frame.id] EXCEPT !.fate = "resolved"] \in RequestRecords
    BY <1>0, <2>5, Typed DEF RequestRecords, Fates
  <2>7. requests' = requests \/ requests' = [requests EXCEPT ![frame.id].fate = "resolved"]
    BY <1>6 DEF Told
  <2>8. requests' \in [Requests -> RequestRecords]
    BY <1>0, <2>5, <2>6, <2>7, Typed
  <2>9. seen' = seen \/ seen' = seen \union {<<p, frame.id>>}
    BY <1>6 DEF Told
  <2>10. seen' \subseteq Pages \X Requests
    BY <1>0, <2>5, <2>9 DEF TypeOK
  <2> QED
    BY <1>0, <1>6, <1>b, <2>4, <2>8, <2>10 DEF Told, TypeOK
<1> QED
  BY <1>1, <1>2, <1>3, <1>4, <1>5, <1>6 DEF PageStep

LEMMA WireTypes ==
    ASSUME IInv, NEW s \in Sockets,
           Reset(s) \/ Cut(s) \/ CutNoticed(s) \/ KeepAlive(s) \/ Pong(s) \/ SocketStep(s)
    PROVE  TypeOK'
<1>0. TypeOK
  BY DEF IInv
<1>a. ASSUME UNCHANGED <<page, pending, emitted>>, sockets' \subseteq Sockets,
             answered' \subseteq Sockets, handling' \subseteq Requests,
             wire' \in [Sockets -> WireRecords]
      PROVE  TypeOK'
  BY <1>0, <1>a DEF TypeOK, page, WireRecords
<1>1. ASSUME Reset(s) \/ Cut(s) \/ CutNoticed(s) PROVE TypeOK'
  <2>1. wire' \in [Sockets -> WireRecords]
    BY <1>0, <1>1, BecomesType DEF Reset, Cut, CutNoticed, States
  <2> QED
    BY <1>0, <1>1, <1>a, <2>1 DEF Reset, Cut, CutNoticed, TypeOK, server
<1>2. ASSUME Accept(s) PROVE TypeOK'
  <2>1. wire' \in [Sockets -> WireRecords]
    BY <1>0, <1>2, BecomesType DEF Accept, States
  <2> QED
    BY <1>0, <1>2, <1>a, <2>1 DEF Accept, TypeOK
<1>3. ASSUME SocketClosed(s) \/ Pong(s) PROVE TypeOK'
  BY <1>0, <1>3, <1>a, Typed DEF SocketClosed, Pong, TypeOK
<1>4. ASSUME KeepAlive(s) PROVE TypeOK'
  <2>1. wire' = wire \/ Becomes(s, "closed")
    BY <1>4 DEF KeepAlive
  <2>2. wire' \in [Sockets -> WireRecords]
    BY <1>0, <2>1, Typed, BecomesType DEF States
  <2> QED
    BY <1>0, <1>4, <1>a, <2>2 DEF KeepAlive, TypeOK
<1>5. ASSUME Handle(s) PROVE TypeOK'
  <2>1. Head(wire[s].up) \in Requests /\ Tail(wire[s].up) \in Seq(Requests)
    BY <1>0, <1>5, Typed, FirstFrameTaken DEF Handle
  <2>2. [wire[s] EXCEPT !.up = Tail(@)] \in WireRecords
    BY <1>0, <2>1, Typed DEF WireRecords
  <2>3. wire' \in [Sockets -> WireRecords]
    BY <1>0, <1>5, <2>2, Typed DEF Handle
  <2> QED
    BY <1>0, <1>5, <1>a, <2>1, <2>3 DEF Handle, TypeOK
<1> QED
  BY <1>1, <1>2, <1>3, <1>4, <1>5 DEF SocketStep

LEMMA AnswerTypes ==
    ASSUME IInv, NEW r \in Requests, TimesOut(r) \/ Broadcast(r) \/ Answer(r)
    PROVE  TypeOK'
<1>0. TypeOK
  BY DEF IInv
<1>1. ASSUME TimesOut(r) PROVE TypeOK'
  <2>1. [requests[r] EXCEPT !.fate = "rejected"] \in RequestRecords
    BY <1>0, Typed DEF RequestRecords, Fates
  <2>2. requests' \in [Requests -> RequestRecords]
    BY <1>0, <1>1, <2>1, Typed DEF TimesOut
  <2> QED
    BY <1>0, <1>1, <2>2 DEF TimesOut, TypeOK, server, RequestRecords
<1>2. ASSUME Broadcast(r) PROVE TypeOK'
  <2>1. \A s \in Sockets : Append(pending[s], Ev(r)) \in Seq(Frames)
    BY <1>0, Typed, FrameType, FrameAdded
  <2>2. pending' \in [Sockets -> Seq(Frames)]
    BY <1>0, <1>2, <2>1 DEF Broadcast, TypeOK, Ev
  <2> QED
    BY <1>0, <1>2, <2>2 DEF Broadcast, TypeOK, page
<1>3. ASSUME Answer(r) PROVE TypeOK'
  <2> DEFINE s == requests[r].on
  <2>1. s \in Sockets
    BY <1>0, <1>3, Typed, SocketNumbers DEF Answer, IInv, OrderInv, RequestRecords
  <2>2. \/ wire' = wire /\ pending' = [pending EXCEPT ![s] = Append(@, Res(r))]
        \/ wire' = wire /\ pending' = pending
        \/ wire' = [wire EXCEPT ![s].down = Append(@, Res(r))] /\ pending' = pending
    BY <1>3 DEF Answer, Sent, Res
  <2>3. /\ Append(pending[s], Res(r)) \in Seq(Frames)
        /\ Append(wire[s].down, Res(r)) \in Seq(Frames)
    BY <1>0, <2>1, Typed, FrameType, FrameAdded
  <2>4. [wire[s] EXCEPT !.down = Append(@, Res(r))] \in WireRecords
    BY <1>0, <2>1, <2>3, Typed DEF WireRecords
  <2> HIDE DEF s
  <2>5. wire' \in [Sockets -> WireRecords] /\ pending' \in [Sockets -> Seq(Frames)]
    BY <1>0, <2>1, <2>2, <2>3, <2>4, Typed DEF TypeOK
  <2> QED
    BY <1>0, <1>3, <2>5 DEF Answer, TypeOK, page, WireRecords
<1> QED
  BY <1>1, <1>2, <1>3

LEMMA FlushTypes ==
    ASSUME IInv, Flush
    PROVE  TypeOK'
<1>0. TypeOK
  BY DEF IInv
<1>1. ASSUME NEW s \in Sockets
      PROVE  [wire[s] EXCEPT !.down = @ \o pending[s]] \in WireRecords
  <2>1. wire[s].down \o pending[s] \in Seq(Frames)
    BY <1>0, Typed DEF Down
  <2> QED
    BY <1>0, <2>1, Typed DEF WireRecords
<1>2. wire' \in [Sockets -> WireRecords]
  BY <1>0, <1>1, Typed DEF Flush
<1>3. pending' \in [Sockets -> Seq(Frames)]
  BY EmptySeq DEF Flush
<1> QED
  BY <1>0, <1>2, <1>3 DEF Flush, TypeOK, page, WireRecords

LEMMA TypeStep ==
    ASSUME IInv, [Next]_vars
    PROVE  TypeOK'
<1>1. CASE UNCHANGED vars
  BY <1>1 DEF IInv, TypeOK, vars, page, server
<1> QED
  BY <1>1, PageTypes, WireTypes, AnswerTypes, FlushTypes DEF Next

-----------------------------------------------------------------------------
(* How a step changes the sockets: what each action does to a wire.        *)

Same(s) == wire'[s].is = wire[s].is /\ (wire[s].is # "open" => wire'[s] = wire[s])
Empty(s) == wire'[s].up = <<>> /\ wire'[s].down = <<>>
Ended(s) == wire'[s].is \in {"cut", "closed"} /\ wire[s].is # "unused" /\ Empty(s)

LEMMA BecomesDoes ==
    ASSUME TypeOK, NEW s \in Sockets, NEW is, Becomes(s, is)
    PROVE  /\ wire'[s].is = is /\ Empty(s)
           /\ \A k \in Sockets : k # s => wire'[k] = wire[k]
  BY Typed DEF Becomes, Empty

(* Nothing opens: the states of the sockets stay or end.                   *)
LEMMA SocketsKept ==
    ASSUME TypeOK, SocketInv,
           \A p \in Pages : socket'[p] = socket[p] \/ (socket'[p] = 0 /\ ~connected'[p]),
           \A p \in Pages : connected'[p] => connected[p],
           \A s \in Sockets : Same(s) \/ Ended(s),
           \A s \in Sockets : s \in sockets /\ s \notin sockets' => wire'[s].is \in {"cut", "closed"}
    PROVE  SocketInv'
<1>1. \A p \in Pages : socket[p] # 0 => socket[p] \in Sockets
  BY SocketNumbers DEF TypeOK
<1>2. \A s \in Sockets : wire[s].is # "unused" => wire'[s].is # "unused"
  BY DEF Same, Ended
<1>3. \A s \in Sockets : wire[s].is \in {"open", "cut", "closed"} => wire'[s].is \in {"open", "cut", "closed"}
  BY DEF Same, Ended
<1>4. \A s \in Sockets : wire'[s].is \in {"accepted", "open"} => s \in sockets'
  BY DEF Same, Ended, SocketInv
<1>5. \A s \in Sockets : wire'[s].is # "open" => wire'[s].down = <<>> /\ wire'[s].up = <<>>
  BY DEF Same, Ended, Empty, SocketInv
<1>6. \A p \in Pages : socket'[p] # 0 => wire'[socket'[p]].is # "unused"
  BY <1>1, <1>2 DEF SocketInv
<1>7. \A p, q \in Pages : socket'[p] # 0 /\ socket'[p] = socket'[q] => p = q
  BY DEF SocketInv
<1>8. \A p \in Pages : connected'[p] => socket'[p] # 0 /\ wire'[socket'[p]].is \in {"open", "cut", "closed"}
  BY <1>1, <1>3 DEF SocketInv
<1> QED
  BY <1>4, <1>5, <1>6, <1>7, <1>8 DEF SocketInv

(* The requests keep their sockets where no request is sent.               *)
LEMMA SentKept ==
    ASSUME TypeOK, SentInv,
           \A p \in Pages : socket'[p] = socket[p] \/ socket'[p] = 0,
           \A s \in Sockets : Same(s) \/ Ended(s),
           \A r \in Requests : /\ requests'[r].of = requests[r].of /\ requests'[r].on = requests[r].on
                               /\ requests'[r].fate = requests[r].fate
                                  \/ (requests[r].fate # "none"
                                        /\ requests'[r].fate \in {"resolved", "rejected"})
    PROVE  SentInv'
<1>1. \A r \in Requests : requests[r].on # 0 => requests[r].on \in Sockets
  BY Typed, SocketNumbers DEF RequestRecords
<1>2. \A s \in Sockets : wire[s].is \in {"open", "cut", "closed"} => wire'[s].is \in {"open", "cut", "closed"}
  BY DEF Same, Ended
<1> SUFFICES ASSUME NEW r \in Requests
             PROVE  /\ requests'[r].fate # "none" => requests'[r].of \in Pages
                    /\ requests'[r].fate \in {"none", "waiting"} => requests'[r].on = 0
                    /\ requests'[r].fate = "pending" => requests'[r].on # 0
                    /\ requests'[r].on # 0 =>
                          /\ wire'[requests'[r].on].is \in {"open", "cut", "closed"}
                          /\ \A p \in Pages : socket'[p] = requests'[r].on => p = requests'[r].of
  BY DEF SentInv
<1>3. requests'[r].fate # "none" => requests'[r].of \in Pages
  BY DEF SentInv
<1>4. /\ requests'[r].fate \in {"none", "waiting"} => requests'[r].on = 0
      /\ requests'[r].fate = "pending" => requests'[r].on # 0
  BY DEF SentInv
<1>5. requests'[r].on # 0 =>
          /\ wire'[requests'[r].on].is \in {"open", "cut", "closed"}
          /\ \A p \in Pages : socket'[p] = requests'[r].on => p = requests'[r].of
  BY <1>1, <1>2 DEF SentInv
<1> QED
  BY <1>3, <1>4, <1>5

(* No frame is sent or taken: what is on its way stays or is gone.         *)
LEMMA FramesKept ==
    ASSUME TypeOK, TypeOK', OrderInv, EventInv, EventBeforeAnswer,
           UNCHANGED <<seen, handling, emitted, pending>>,
           \A s \in Sockets : wire'[s] = wire[s] \/ (wire'[s].is # "open" /\ Empty(s)),
           \A r \in Requests : /\ requests'[r].of = requests[r].of /\ requests'[r].on = requests[r].on
                               /\ requests'[r].fate = "resolved" => requests[r].fate = "resolved"
    PROVE  OrderInv' /\ EventInv' /\ EventBeforeAnswer'
<1>0. \A r \in Requests : Seen(r)' <=> Seen(r)
  BY DEF Seen
<1>a. /\ handling \subseteq Requests /\ emitted \subseteq Requests
      /\ \A s \in Sockets : \A k \in DOMAIN Down(s) : Down(s)[k].id \in Requests
      /\ \A s \in Sockets : \A k \in DOMAIN wire[s].up : wire[s].up[k] \in Requests
  <2>1. handling \subseteq Requests /\ emitted \subseteq Requests
    BY DEF TypeOK
  <2>2. ASSUME NEW s \in Sockets, NEW k \in DOMAIN Down(s)
        PROVE  Down(s)[k].id \in Requests
    <3>1. Down(s)[k] \in Frames
      BY Typed, ElementOfSeq, LenProperties
    <3> QED
      BY <3>1 DEF Frames
  <2>3. ASSUME NEW s \in Sockets, NEW k \in DOMAIN wire[s].up
        PROVE  wire[s].up[k] \in Requests
    BY Typed, ElementOfSeq, LenProperties
  <2> QED
    BY <2>1, <2>2, <2>3
<1>1. ASSUME NEW s \in Sockets
      PROVE  \A k \in DOMAIN Down(s)' : \E j \in DOMAIN Down(s) : Down(s)[j] = Down(s)'[k]
  <2>1. CASE wire'[s] = wire[s]
    BY <2>1 DEF Down
  <2>2. CASE Empty(s)
    <3>1. Down(s)' = pending[s]
      BY <2>2, Typed, ConcatEmptySeq DEF Down, Empty
    <3>2. wire[s].down \in Seq(Frames) /\ pending[s] \in Seq(Frames)
      BY Typed
    <3>3. \A k \in DOMAIN pending[s] : \E j \in DOMAIN Down(s) : Down(s)[j] = pending[s][k]
      BY <3>2, PartOfDown DEF Down
    <3> QED
      BY <3>1, <3>3
  <2> QED
    BY <2>1, <2>2
<1>2. \A s \in Sockets : wire'[s].up = wire[s].up \/ wire'[s].up = <<>>
  BY DEF Empty
<1>3. OrderInv'
  <2>1. ASSUME NEW s \in Sockets, NEW k \in DOMAIN wire'[s].up
        PROVE  LET r == wire'[s].up[k] IN
               /\ requests'[r].on = s /\ requests'[r].fate # "resolved"
               /\ r \notin handling' /\ r \notin emitted'
               /\ \A j \in DOMAIN wire'[s].up : wire'[s].up[j] = r => j = k
    <3>1. wire'[s].up = wire[s].up
      <4>1. wire'[s].up # <<>>
        BY DOMAIN <<>> = {}
      <4> QED
        BY <4>1, <1>2
    <3> QED
      BY <3>1, <1>a DEF OrderInv
  <2>2. /\ \A r \in handling' : requests'[r].on # 0 /\ requests'[r].fate # "resolved"
        /\ \A r \in emitted' : requests'[r].on # 0
    BY <1>a DEF OrderInv
  <2>3. ASSUME NEW s \in Sockets, NEW k \in DOMAIN Down(s)', Down(s)'[k].t = "res"
        PROVE  LET r == Down(s)'[k].id IN
               /\ requests'[r].on = s /\ r \notin handling'
               /\ \A j \in DOMAIN wire'[s].up : wire'[s].up[j] # r
    <3>1. PICK i \in DOMAIN Down(s) : Down(s)[i] = Down(s)'[k]
      BY <1>1
    <3>2. /\ requests[Down(s)[i].id].on = s /\ Down(s)[i].id \notin handling
          /\ \A j \in DOMAIN wire[s].up : wire[s].up[j] # Down(s)[i].id
      BY <2>3, <3>1 DEF OrderInv
    <3>3. \A j \in DOMAIN wire'[s].up : j \in DOMAIN wire[s].up /\ wire'[s].up[j] = wire[s].up[j]
      BY <1>2, DOMAIN <<>> = {}
    <3> QED
      BY <3>1, <3>2, <3>3, <1>a
  <2> QED
    BY <2>1, <2>2, <2>3 DEF OrderInv
<1>4. EventInv'
  <2>1. \A s \in Sockets : wire'[s].is = "open" => wire[s].is = "open" /\ Down(s)' = Down(s)
    BY DEF Down
  <2> QED
    BY <2>1, <1>0, <1>a DEF EventInv
<1>5. EventBeforeAnswer'
  BY <1>0 DEF EventBeforeAnswer, Seen
<1> QED
  BY <1>3, <1>4, <1>5

-----------------------------------------------------------------------------
(* The steps that send and take no frame.                                  *)

Rest == SocketInv /\ SentInv /\ OrderInv /\ EventInv /\ EventBeforeAnswer /\ NoneWaitsOnALostSocket

LEMMA ConnectStep ==
    ASSUME IInv, TypeOK', NEW p \in Pages, Connect(p)
    PROVE  Rest'
<1>0. TypeOK /\ SocketInv /\ SentInv /\ OrderInv /\ EventInv /\ EventBeforeAnswer
      /\ NoneWaitsOnALostSocket
  BY DEF IInv
<1>1. PICK s \in Sockets :
        /\ wire[s].is = "unused"
        /\ IF socket[p] # 0 THEN UNCHANGED <<socket, wire>>
           ELSE Becomes(s, "opening") /\ socket' = [socket EXCEPT ![p] = s]
  BY DEF Connect
<1>2. UNCHANGED <<here, connected, requests, seen, sockets, handling, emitted, pending>>
  BY DEF Connect, server
<1>3. CASE socket[p] # 0
  <2>1. UNCHANGED <<socket, wire>>
    BY <1>1, <1>3
  <2>2. SocketInv' /\ SentInv' /\ NoneWaitsOnALostSocket'
    BY <1>0, <1>2, <2>1 DEF SocketInv, SentInv, NoneWaitsOnALostSocket
  <2>3. OrderInv' /\ EventInv' /\ EventBeforeAnswer'
    BY <1>0, <1>2, <2>1, FramesKept
  <2> QED
    BY <2>2, <2>3 DEF Rest
<1>4. CASE socket[p] = 0
  <2>1. /\ Becomes(s, "opening") /\ s # 0
        /\ socket' = [socket EXCEPT ![p] = s] /\ socket'[p] = s
        /\ \A q \in Pages : q # p => socket'[q] = socket[q]
    BY <1>0, <1>1, <1>4, SocketNumbers DEF TypeOK
  <2>2. /\ wire'[s].is = "opening" /\ Empty(s)
        /\ \A k \in Sockets : k # s => wire'[k] = wire[k]
    BY <1>0, <2>1, BecomesDoes
  <2>3. \A q \in Pages : socket[q] # s
    BY <1>0, <1>1, <2>1 DEF SocketInv
  <2>4. \A q \in Pages : socket[q] # 0 => socket[q] \in Sockets
    BY <1>0, SocketNumbers DEF TypeOK
  <2>5. ~connected[p]
    BY <1>0, <1>4 DEF SocketInv
  <2>6. SocketInv'
    <3>1. \A q \in Pages : socket'[q] # 0 => wire'[socket'[q]].is # "unused"
      BY <1>0, <2>1, <2>2, <2>3, <2>4 DEF SocketInv
    <3>2. \A q, t \in Pages : socket'[q] # 0 /\ socket'[q] = socket'[t] => q = t
      BY <1>0, <2>1, <2>3 DEF SocketInv
    <3>3. \A q \in Pages : connected'[q] => /\ socket'[q] # 0
                                           /\ wire'[socket'[q]].is \in {"open", "cut", "closed"}
      BY <1>0, <1>2, <2>1, <2>2, <2>3, <2>4, <2>5 DEF SocketInv
    <3>4. \A k \in Sockets : wire'[k].is \in {"accepted", "open"} => k \in sockets'
      BY <1>0, <1>2, <2>2 DEF SocketInv
    <3>5. \A k \in Sockets : wire'[k].is # "open" => wire'[k].down = <<>> /\ wire'[k].up = <<>>
      BY <1>0, <2>2 DEF SocketInv, Empty
    <3> QED
      BY <3>1, <3>2, <3>3, <3>4, <3>5 DEF SocketInv
  <2>7. \A r \in Requests : requests[r].on # 0 => requests[r].on \in Sockets /\ requests[r].on # s
    BY <1>0, <1>1, Typed, SocketNumbers DEF SentInv, RequestRecords
  <2>8. SentInv'
    BY <1>0, <1>2, <2>1, <2>2, <2>7 DEF SentInv
  <2>9. OrderInv' /\ EventInv' /\ EventBeforeAnswer'
    BY <1>0, <1>2, <2>2, FramesKept
  <2>10. NoneWaitsOnALostSocket'
    BY <1>0, <1>2, <1>4, <2>1 DEF NoneWaitsOnALostSocket, SentInv
  <2> QED
    BY <2>6, <2>8, <2>9, <2>10 DEF Rest
<1> QED
  BY <1>3, <1>4

LEMMA AcceptStep ==
    ASSUME IInv, TypeOK', NEW s \in Sockets, Accept(s)
    PROVE  Rest'
<1>0. TypeOK /\ SocketInv /\ SentInv /\ OrderInv /\ EventInv /\ EventBeforeAnswer
      /\ NoneWaitsOnALostSocket
  BY DEF IInv
<1>1. /\ wire[s].is = "opening" /\ Becomes(s, "accepted") /\ sockets' = sockets \union {s}
      /\ UNCHANGED <<here, socket, connected, requests, seen, handling, emitted, pending>>
  BY DEF Accept, page
<1>2. /\ wire'[s].is = "accepted" /\ Empty(s)
      /\ \A k \in Sockets : k # s => wire'[k] = wire[k]
  BY <1>0, <1>1, BecomesDoes
<1>3. \A q \in Pages : socket[q] # 0 => socket[q] \in Sockets
  BY <1>0, SocketNumbers DEF TypeOK
<1>4. \A r \in Requests : requests[r].on # 0 => requests[r].on \in Sockets /\ requests[r].on # s
  BY <1>0, <1>1, Typed, SocketNumbers DEF SentInv, RequestRecords
<1>5. SocketInv'
  <2>1. /\ \A q \in Pages : socket'[q] # 0 => wire'[socket'[q]].is # "unused"
        /\ \A q, t \in Pages : socket'[q] # 0 /\ socket'[q] = socket'[t] => q = t
    BY <1>0, <1>1, <1>2, <1>3 DEF SocketInv
  <2>2. \A q \in Pages : connected'[q] => /\ socket'[q] # 0
                                         /\ wire'[socket'[q]].is \in {"open", "cut", "closed"}
    BY <1>0, <1>1, <1>2, <1>3 DEF SocketInv
  <2>3. /\ \A k \in Sockets : wire'[k].is \in {"accepted", "open"} => k \in sockets'
        /\ \A k \in Sockets : wire'[k].is # "open" => wire'[k].down = <<>> /\ wire'[k].up = <<>>
    BY <1>0, <1>1, <1>2 DEF SocketInv, Empty
  <2> QED
    BY <2>1, <2>2, <2>3 DEF SocketInv
<1>6. SentInv'
  BY <1>0, <1>1, <1>2, <1>4 DEF SentInv
<1>7. OrderInv' /\ EventInv' /\ EventBeforeAnswer'
  BY <1>0, <1>1, <1>2, FramesKept
<1>8. NoneWaitsOnALostSocket'
  BY <1>0, <1>1 DEF NoneWaitsOnALostSocket
<1> QED
  BY <1>5, <1>6, <1>7, <1>8 DEF Rest

(* A socket ends, or its page lets go of it.                               *)
LEMMA EndStep ==
    ASSUME IInv, TypeOK', UNCHANGED <<seen, handling, emitted, pending>>,
           here' \subseteq here,
           \A p \in Pages : socket'[p] = socket[p] \/ (socket'[p] = 0 /\ ~connected'[p]),
           \A p \in Pages : connected'[p] => connected[p],
           \A s \in Sockets : wire'[s] = wire[s] \/ Ended(s),
           \A s \in Sockets : s \in sockets /\ s \notin sockets' => wire'[s].is \in {"cut", "closed"},
           \A r \in Requests :
              /\ requests'[r].of = requests[r].of /\ requests'[r].on = requests[r].on
              /\ requests'[r].fate = requests[r].fate
                   \/ (requests[r].fate # "none" /\ requests'[r].fate = "rejected")
              /\ \A p \in Pages : requests'[r].fate = "pending" /\ requests'[r].of = p
                                    => socket'[p] = socket[p]
    PROVE  Rest'
<1>0. TypeOK /\ SocketInv /\ SentInv /\ OrderInv /\ EventInv /\ EventBeforeAnswer
      /\ NoneWaitsOnALostSocket
  BY DEF IInv
<1>1. \A s \in Sockets : Same(s) \/ Ended(s)
  BY DEF Same
<1>2. SocketInv'
  BY <1>0, <1>1, SocketsKept
<1>3. SentInv'
  BY <1>0, <1>1, SentKept
<1>4. OrderInv' /\ EventInv' /\ EventBeforeAnswer'
  <2>1. \A s \in Sockets : wire'[s] = wire[s] \/ (wire'[s].is # "open" /\ Empty(s))
    BY DEF Ended
  <2> QED
    BY <1>0, <2>1, FramesKept
<1>5. NoneWaitsOnALostSocket'
  <2> SUFFICES ASSUME NEW r \in Requests, requests'[r].fate = "pending", requests'[r].of \in here'
               PROVE  socket'[requests'[r].of] = requests'[r].on
    BY DEF NoneWaitsOnALostSocket
  <2>1. requests[r].fate = "pending" /\ requests[r].of \in here /\ requests[r].of \in Pages
    BY <1>0 DEF TypeOK
  <2> QED
    BY <1>0, <2>1 DEF NoneWaitsOnALostSocket
<1> QED
  BY <1>2, <1>3, <1>4, <1>5 DEF Rest

LEMMA CalmStep ==
    ASSUME IInv, TypeOK',
           \/ \E r \in Requests : TimesOut(r)
           \/ \E p \in Pages : Closes(p) \/ Leave(p)
           \/ \E s \in Sockets : Reset(s) \/ Cut(s) \/ CutNoticed(s) \/ SocketClosed(s)
                                 \/ KeepAlive(s) \/ Pong(s)
           \/ UNCHANGED vars
    PROVE  Rest'
<1>0. TypeOK /\ SocketInv /\ SentInv
  BY DEF IInv
<1>1. CASE \E r \in Requests : TimesOut(r)
  <2>1. PICK r \in Requests : TimesOut(r)
    BY <1>1
  <2>2. UNCHANGED <<here, socket, connected, wire, seen, sockets, handling, emitted, pending>>
    BY <2>1 DEF TimesOut, server
  <2>3. /\ requests[r].fate \in {"waiting", "pending"}
        /\ requests'[r] = [requests[r] EXCEPT !.fate = "rejected"]
        /\ \A q \in Requests : q # r => requests'[q] = requests[q]
    BY <1>0, <2>1, Typed DEF TimesOut
  <2>4. /\ requests'[r].of = requests[r].of /\ requests'[r].on = requests[r].on
        /\ requests'[r].fate = "rejected"
    BY <1>0, <2>3, Typed DEF RequestRecords
  <2>5. \A q \in Requests : /\ requests'[q].of = requests[q].of /\ requests'[q].on = requests[q].on
                            /\ requests'[q].fate = requests[q].fate
                                 \/ (requests[q].fate # "none" /\ requests'[q].fate = "rejected")
    BY <2>3, <2>4
  <2> QED
    BY <2>2, <2>5, EndStep
<1>2. CASE \E p \in Pages : Closes(p)
  <2>1. PICK p \in Pages : Closes(p)
    BY <1>2
  <2>2. /\ UNCHANGED <<here, wire, seen, sockets, handling, emitted, pending>>
        /\ socket' = [socket EXCEPT ![p] = 0] /\ connected' = [connected EXCEPT ![p] = FALSE]
        /\ FailAll(p)
    BY <2>1 DEF Closes, server
  <2>3. /\ socket'[p] = 0 /\ ~connected'[p]
        /\ \A q \in Pages : q # p => socket'[q] = socket[q] /\ connected'[q] = connected[q]
    BY <1>0, <2>2 DEF TypeOK
  <2>4. ASSUME NEW r \in Requests
        PROVE  /\ requests'[r].of = requests[r].of /\ requests'[r].on = requests[r].on
               /\ requests'[r].fate = requests[r].fate
                    \/ (requests[r].fate # "none" /\ requests'[r].fate = "rejected")
               /\ requests'[r].fate = "pending" => requests'[r].of # p
    <3>1. requests'[r] = IF requests[r].of = p /\ requests[r].fate \in {"waiting", "pending"}
                         THEN [requests[r] EXCEPT !.fate = "rejected"] ELSE requests[r]
      BY <2>2 DEF FailAll
    <3>2. requests[r] \in RequestRecords
      BY <1>0, Typed
    <3> QED
      BY <3>1, <3>2 DEF RequestRecords
  <2>5. /\ \A q \in Pages : socket'[q] = socket[q] \/ (socket'[q] = 0 /\ ~connected'[q])
        /\ \A q \in Pages : connected'[q] => connected[q]
        /\ \A r \in Requests : \A q \in Pages :
              requests'[r].fate = "pending" /\ requests'[r].of = q => socket'[q] = socket[q]
    BY <2>3, <2>4
  <2> QED
    BY <2>2, <2>4, <2>5, EndStep
<1>3. CASE \E p \in Pages : Leave(p)
  <2>1. PICK p \in Pages : Leave(p)
    BY <1>3
  <2>2. /\ UNCHANGED <<socket, connected, requests, seen, sockets, handling, emitted, pending>>
        /\ here' \subseteq here
    BY <2>1 DEF Leave, server
  <2>3. ASSUME NEW s \in Sockets
        PROVE  wire'[s] = wire[s] \/ Ended(s)
    <3>1. wire'[s] = wire[s]
             \/ (wire[s].is \in {"opening", "accepted", "open"}
                   /\ wire'[s] = [is |-> "closed", up |-> <<>>, down |-> <<>>])
      BY <2>1 DEF Leave
    <3> QED
      BY <3>1 DEF Ended, Empty
  <2> QED
    BY <2>2, <2>3, EndStep
<1>4. CASE \E s \in Sockets : Reset(s) \/ Cut(s) \/ CutNoticed(s)
  <2>1. PICK s \in Sockets : Reset(s) \/ Cut(s) \/ CutNoticed(s)
    BY <1>4
  <2>2. /\ UNCHANGED <<here, socket, connected, requests, seen, sockets, handling, emitted, pending>>
        /\ wire[s].is # "unused" /\ (Becomes(s, "cut") \/ Becomes(s, "closed"))
    BY <2>1 DEF Reset, Cut, CutNoticed, page, server
  <2>3. \A k \in Sockets : wire'[k] = wire[k] \/ Ended(k)
    BY <1>0, <2>2, BecomesDoes DEF Ended
  <2> QED
    BY <2>2, <2>3, EndStep
<1>5. CASE \E s \in Sockets : SocketClosed(s) \/ Pong(s)
  <2>1. PICK s \in Sockets : SocketClosed(s) \/ Pong(s)
    BY <1>5
  <2>2. /\ UNCHANGED <<here, socket, connected, requests, seen, wire, handling, emitted, pending>>
        /\ \A k \in Sockets : k \in sockets /\ k \notin sockets' => wire[k].is = "closed"
    BY <2>1 DEF SocketClosed, Pong, page
  <2> QED
    BY <2>2, EndStep
<1>6. CASE \E s \in Sockets : KeepAlive(s)
  <2>1. PICK s \in Sockets : KeepAlive(s)
    BY <1>6
  <2>2. /\ UNCHANGED <<here, socket, connected, requests, seen, handling, emitted, pending>>
        /\ wire[s].is \in {"accepted", "open", "cut"}
        /\ \/ UNCHANGED <<wire, sockets>>
           \/ /\ sockets' = sockets \ {s}
              /\ (wire[s].is = "cut" /\ wire' = wire) \/ Becomes(s, "closed")
    BY <2>1 DEF KeepAlive, page
  <2>3. \A k \in Sockets : wire'[k] = wire[k] \/ Ended(k)
    BY <1>0, <2>2, BecomesDoes DEF Ended
  <2>4. \A k \in Sockets : k \in sockets /\ k \notin sockets' => wire'[k].is \in {"cut", "closed"}
    BY <1>0, <2>2, BecomesDoes
  <2> QED
    BY <2>2, <2>3, <2>4, EndStep
<1>7. CASE UNCHANGED vars
  BY <1>7, EndStep DEF vars, page, server
<1> QED
  BY <1>1, <1>2, <1>3, <1>4, <1>5, <1>6, <1>7

-----------------------------------------------------------------------------
(* The steps that send or take a frame.                                    *)

LEMMA Identified ==
    ASSUME TypeOK
    PROVE  /\ handling \subseteq Requests /\ emitted \subseteq Requests
           /\ \A s \in Sockets : \A k \in DOMAIN Down(s) :
                 Down(s)[k] \in Frames /\ Down(s)[k].id \in Requests
           /\ \A s \in Sockets : \A k \in DOMAIN wire[s].up : wire[s].up[k] \in Requests
           /\ \A r \in Requests : requests[r].on # 0 => requests[r].on \in Sockets
<1>1. handling \subseteq Requests /\ emitted \subseteq Requests
  BY DEF TypeOK
<1>2. ASSUME NEW s \in Sockets, NEW k \in DOMAIN Down(s)
      PROVE  Down(s)[k] \in Frames /\ Down(s)[k].id \in Requests
  <2>1. Down(s)[k] \in Frames
    BY Typed, ElementOfSeq, LenProperties
  <2> QED
    BY <2>1 DEF Frames
<1>3. ASSUME NEW s \in Sockets, NEW k \in DOMAIN wire[s].up
      PROVE  wire[s].up[k] \in Requests
  BY Typed, ElementOfSeq, LenProperties
<1>4. \A r \in Requests : requests[r].on # 0 => requests[r].on \in Sockets
  BY Typed, SocketNumbers DEF RequestRecords
<1> QED
  BY <1>1, <1>2, <1>3, <1>4

LEMMA BroadcastStep ==
    ASSUME IInv, TypeOK', NEW r \in Requests, Broadcast(r)
    PROVE  Rest'
<1>0. TypeOK /\ SocketInv /\ SentInv /\ OrderInv /\ EventInv /\ EventBeforeAnswer
      /\ NoneWaitsOnALostSocket
  BY DEF IInv
<1>1. /\ r \in handling /\ emitted' = emitted \union {r}
      /\ UNCHANGED <<here, socket, connected, requests, seen, wire, sockets, handling>>
      /\ pending' = IF sockets = {} THEN pending
                    ELSE [s \in Sockets |-> Append(pending[s], Ev(r))]
  BY DEF Broadcast, page, Ev
<1>2. SocketInv' /\ SentInv' /\ NoneWaitsOnALostSocket'
  BY <1>0, <1>1 DEF SocketInv, SentInv, NoneWaitsOnALostSocket
<1>3. EventBeforeAnswer'
  BY <1>0, <1>1 DEF EventBeforeAnswer, OrderInv
<1>4. \A s \in Sockets : Down(s)' = IF sockets = {} THEN Down(s) ELSE Append(Down(s), Ev(r))
  BY ZenonT(40), <1>0, <1>1, Typed, FrameType, AddedLast DEF Down
<1>5. \A s \in Sockets : Down(s) \in Seq(Frames) /\ Ev(r) \in Frames /\ Ev(r).t = "ev"
                         /\ \A q \in Requests : Ev(r) # Res(q)
  BY <1>0, Typed, FrameType DEF Ev, Res
<1>6. ASSUME NEW s \in Sockets
      PROVE  /\ \A k \in DOMAIN Down(s)' : (k \in DOMAIN Down(s) /\ Down(s)'[k] = Down(s)[k])
                                            \/ Down(s)'[k] = Ev(r)
             /\ \A k \in DOMAIN Down(s) : k \in DOMAIN Down(s)' /\ Down(s)'[k] = Down(s)[k]
             /\ sockets # {} => \E k \in DOMAIN Down(s)' : Down(s)'[k] = Ev(r)
  BY <1>4, <1>5, FrameAdded
<1>7. OrderInv'
  <2>1. ASSUME NEW s \in Sockets, NEW k \in DOMAIN wire'[s].up
        PROVE  LET q == wire'[s].up[k] IN
               /\ requests'[q].on = s /\ requests'[q].fate # "resolved"
               /\ q \notin handling' /\ q \notin emitted'
               /\ \A j \in DOMAIN wire'[s].up : wire'[s].up[j] = q => j = k
    BY <1>0, <1>1 DEF OrderInv
  <2>2. /\ \A q \in handling' : requests'[q].on # 0 /\ requests'[q].fate # "resolved"
        /\ \A q \in emitted' : requests'[q].on # 0
    BY <1>0, <1>1 DEF OrderInv
  <2>3. ASSUME NEW s \in Sockets, NEW k \in DOMAIN Down(s)', Down(s)'[k].t = "res"
        PROVE  LET q == Down(s)'[k].id IN
               /\ requests'[q].on = s /\ q \notin handling'
               /\ \A j \in DOMAIN wire'[s].up : wire'[s].up[j] # q
    <3>1. k \in DOMAIN Down(s) /\ Down(s)'[k] = Down(s)[k]
      BY <1>5, <1>6, <2>3
    <3> QED
      BY <1>0, <1>1, <2>3, <3>1 DEF OrderInv
  <2> QED
    BY <2>1, <2>2, <2>3 DEF OrderInv
<1>8. EventInv'
  <2> SUFFICES ASSUME NEW s \in Sockets, wire'[s].is = "open"
               PROVE  /\ \A q \in emitted' : requests'[q].on = s =>
                            Seen(q)' \/ \E j \in DOMAIN Down(s)' : Down(s)'[j] = Ev(q)
                      /\ \A k \in DOMAIN Down(s)' : \A q \in emitted' : Down(s)'[k] = Res(q) =>
                            Seen(q)' \/ \E j \in DOMAIN Down(s)' : j < k /\ Down(s)'[j] = Ev(q)
    BY DEF EventInv
  <2>1. sockets # {} /\ wire[s].is = "open"
    BY <1>0, <1>1 DEF SocketInv
  <2>2. \A q : Seen(q)' <=> Seen(q)
    BY <1>1 DEF Seen
  <2>3. ASSUME NEW q \in emitted', requests'[q].on = s
        PROVE  Seen(q)' \/ \E j \in DOMAIN Down(s)' : Down(s)'[j] = Ev(q)
    <3>1. CASE q = r
      BY <1>6, <2>1, <3>1
    <3>2. CASE q # r
      BY <1>0, <1>1, <1>6, <2>1, <2>2, <2>3, <3>2 DEF EventInv
    <3> QED
      BY <3>1, <3>2
  <2>4. ASSUME NEW k \in DOMAIN Down(s)', NEW q \in emitted', Down(s)'[k] = Res(q)
        PROVE  Seen(q)' \/ \E j \in DOMAIN Down(s)' : j < k /\ Down(s)'[j] = Ev(q)
    <3>1. q \in Requests
      BY <1>0, <1>1, Identified
    <3>2. k \in DOMAIN Down(s) /\ Down(s)[k] = Res(q)
      BY <1>5, <1>6, <2>4, <3>1
    <3>3. Res(q).t = "res" /\ Res(q).id = q
      BY DEF Res
    <3>4. q # r
      BY <1>0, <1>1, <3>2, <3>3 DEF OrderInv
    <3>5. Seen(q) \/ \E j \in DOMAIN Down(s) : j < k /\ Down(s)[j] = Ev(q)
      BY <1>0, <1>1, <2>1, <2>4, <3>2, <3>4 DEF EventInv
    <3> QED
      BY <1>6, <2>2, <3>5
  <2> QED
    BY <2>3, <2>4
<1> QED
  BY <1>2, <1>3, <1>7, <1>8 DEF Rest

(* The server's own steps leave the pages as they are.                     *)
LEMMA ServerKeeps ==
    ASSUME IInv, UNCHANGED <<here, socket, connected, requests, seen, sockets>>,
           \A s \in Sockets : Same(s)
    PROVE  SocketInv' /\ SentInv' /\ NoneWaitsOnALostSocket'
<1>0. TypeOK /\ SocketInv /\ SentInv /\ NoneWaitsOnALostSocket
  BY DEF IInv
<1>1. SocketInv'
  BY <1>0, SocketsKept
<1>2. SentInv'
  BY <1>0, SentKept
<1>3. NoneWaitsOnALostSocket'
  BY <1>0 DEF NoneWaitsOnALostSocket
<1> QED
  BY <1>1, <1>2, <1>3

LEMMA AnswerStep ==
    ASSUME IInv, TypeOK', NEW r \in Requests, Answer(r)
    PROVE  Rest'
<1>0. TypeOK /\ SocketInv /\ SentInv /\ OrderInv /\ EventInv /\ EventBeforeAnswer
  BY DEF IInv
<1>2. PICK s \in Sockets : s = requests[r].on
  BY <1>0, Identified DEF OrderInv, Answer
<1>1. /\ r \in handling /\ handling' = handling \ {r}
      /\ UNCHANGED <<here, socket, connected, requests, seen, sockets, emitted>>
      /\ \/ wire' = wire /\ pending' = pending
         \/ wire' = wire /\ pending' = [pending EXCEPT ![s] = Append(@, Res(r))]
         \/ /\ \A k \in Sockets : pending[k] = <<>>
            /\ wire[s].is = "open" /\ pending' = pending
            /\ wire' = [wire EXCEPT ![s].down = Append(@, Res(r))]
  BY <1>2 DEF Answer, Sent, page, Res
<1>3. \A k \in Sockets : Same(k) /\ wire'[k].up = wire[k].up
  <2>1. \A k \in Sockets : wire'[k] = wire[k]
            \/ (k = s /\ wire[s].is = "open" /\ wire'[s] = [wire[s] EXCEPT !.down = Append(@, Res(r))])
    BY <1>0, <1>1, <1>2, Typed
  <2>2. \A k \in Sockets : wire[k] \in WireRecords
    BY <1>0, Typed
  <2> QED
    BY <2>1, <2>2 DEF Same, WireRecords
<1>4. SocketInv' /\ SentInv' /\ NoneWaitsOnALostSocket'
  BY <1>1, <1>3, ServerKeeps
<1>5. EventBeforeAnswer'
  BY <1>0, <1>1 DEF EventBeforeAnswer
<1>6. /\ \A k \in Sockets : k # s => Down(k)' = Down(k)
      /\ Down(s)' = Down(s) \/ Down(s)' = Append(Down(s), Res(r))
  <2>1. CASE wire' = wire /\ pending' = pending
    BY <2>1 DEF Down
  <2>2. CASE wire' = wire /\ pending' = [pending EXCEPT ![s] = Append(@, Res(r))]
    <3>1. /\ \A k \in Sockets : k # s => pending'[k] = pending[k]
          /\ pending'[s] = Append(pending[s], Res(r))
      BY <1>0, <1>2, <2>2 DEF TypeOK
    <3>2. wire[s].down \in Seq(Frames) /\ pending[s] \in Seq(Frames)
      BY <1>0, Typed
    <3>3. wire[s].down \o Append(pending[s], Res(r)) = Append(wire[s].down \o pending[s], Res(r))
      BY <3>2, FrameType, AddedLast
    <3> QED
      BY <2>2, <3>1, <3>3 DEF Down
  <2>3. CASE /\ \A k \in Sockets : pending[k] = <<>>
             /\ pending' = pending
             /\ wire' = [wire EXCEPT ![s].down = Append(@, Res(r))]
    <3>1. /\ \A k \in Sockets : k # s => wire'[k] = wire[k]
          /\ wire'[s].down = Append(wire[s].down, Res(r))
      <4>1. /\ \A k \in Sockets : k # s => wire'[k] = wire[k]
            /\ wire'[s] = [wire[s] EXCEPT !.down = Append(@, Res(r))]
        BY <1>0, <1>2, <2>3, Typed
      <4>2. wire[s] \in WireRecords
        BY <1>0, <1>2, Typed
      <4> QED
        BY <4>1, <4>2 DEF WireRecords
    <3>2. wire[s].down \in Seq(Frames) /\ pending[s] \in Seq(Frames) /\ pending[s] = <<>>
      BY <1>0, <1>2, <2>3, Typed
    <3>3. Append(wire[s].down, Res(r)) \o pending[s] = Append(wire[s].down \o pending[s], Res(r))
      BY <3>2, FrameType, AddedLast
    <3> QED
      BY <2>3, <3>1, <3>3 DEF Down
  <2> QED
    BY <1>1, <2>1, <2>2, <2>3
<1>7. /\ Down(s) \in Seq(Frames) /\ Res(r) \in Frames
      /\ Res(r).id = r /\ \A q : Res(q) = Res(r) => q = r
  <2>1. \A q : Res(q).id = q
    BY DEF Res
  <2> QED
    BY <1>0, <1>2, <2>1, Typed, FrameType
<1>8. ASSUME NEW k \in Sockets
      PROVE  /\ \A j \in DOMAIN Down(k) : j \in DOMAIN Down(k)' /\ Down(k)'[j] = Down(k)[j]
             /\ \A j \in DOMAIN Down(k)' : \/ j \in DOMAIN Down(k) /\ Down(k)'[j] = Down(k)[j]
                                           \/ /\ k = s /\ Down(k)'[j] = Res(r)
                                              /\ \A i \in DOMAIN Down(k) : i < j
  <2>1. CASE Down(k)' = Down(k)
    BY <2>1
  <2>2. CASE k = s /\ Down(k)' = Append(Down(k), Res(r))
    BY <2>2, <1>7, FrameAdded
  <2> QED
    BY <1>6, <2>1, <2>2
<1>9. OrderInv'
  <2>1. ASSUME NEW k \in Sockets, NEW i \in DOMAIN wire'[k].up
        PROVE  LET q == wire'[k].up[i] IN
               /\ requests'[q].on = k /\ requests'[q].fate # "resolved"
               /\ q \notin handling' /\ q \notin emitted'
               /\ \A j \in DOMAIN wire'[k].up : wire'[k].up[j] = q => j = i
    BY <1>0, <1>1, <1>3 DEF OrderInv
  <2>2. /\ \A q \in handling' : requests'[q].on # 0 /\ requests'[q].fate # "resolved"
        /\ \A q \in emitted' : requests'[q].on # 0
    BY <1>0, <1>1 DEF OrderInv
  <2>3. ASSUME NEW k \in Sockets, NEW i \in DOMAIN Down(k)', Down(k)'[i].t = "res"
        PROVE  LET q == Down(k)'[i].id IN
               /\ requests'[q].on = k /\ q \notin handling'
               /\ \A j \in DOMAIN wire'[k].up : wire'[k].up[j] # q
    <3>1. CASE i \in DOMAIN Down(k) /\ Down(k)'[i] = Down(k)[i]
      BY <1>0, <1>1, <1>3, <2>3, <3>1 DEF OrderInv
    <3>2. CASE k = s /\ Down(k)'[i] = Res(r)
      <4>1. \A j \in DOMAIN wire[s].up : wire[s].up[j] # r
        BY <1>0, <1>1, <1>2 DEF OrderInv
      <4>2. requests'[r].on = s
        BY <1>1, <1>2
      <4>3. Down(k)'[i].id = r /\ r \notin handling'
        BY <1>1, <1>7, <3>2
      <4> QED
        BY <1>3, <3>2, <4>1, <4>2, <4>3
    <3> QED
      BY <1>8, <3>1, <3>2
  <2> QED
    BY <2>1, <2>2, <2>3 DEF OrderInv
<1>10. EventInv'
  <2> SUFFICES ASSUME NEW k \in Sockets, wire'[k].is = "open"
               PROVE  /\ \A q \in emitted' : requests'[q].on = k =>
                            Seen(q)' \/ \E j \in DOMAIN Down(k)' : Down(k)'[j] = Ev(q)
                      /\ \A i \in DOMAIN Down(k)' : \A q \in emitted' : Down(k)'[i] = Res(q) =>
                            Seen(q)' \/ \E j \in DOMAIN Down(k)' : j < i /\ Down(k)'[j] = Ev(q)
    BY DEF EventInv
  <2>1. wire[k].is = "open"
    BY <1>3 DEF Same
  <2>2. \A q : Seen(q)' <=> Seen(q)
    BY <1>1 DEF Seen
  <2>3. ASSUME NEW q \in emitted', requests'[q].on = k
        PROVE  Seen(q)' \/ \E j \in DOMAIN Down(k)' : Down(k)'[j] = Ev(q)
    <3>1. Seen(q) \/ \E j \in DOMAIN Down(k) : Down(k)[j] = Ev(q)
      BY <1>0, <1>1, <2>1, <2>3 DEF EventInv
    <3> QED
      BY <1>8, <2>2, <3>1
  <2>4. ASSUME NEW i \in DOMAIN Down(k)', NEW q \in emitted', Down(k)'[i] = Res(q)
        PROVE  Seen(q)' \/ \E j \in DOMAIN Down(k)' : j < i /\ Down(k)'[j] = Ev(q)
    <3>1. CASE i \in DOMAIN Down(k) /\ Down(k)'[i] = Down(k)[i]
      <4>1. Seen(q) \/ \E j \in DOMAIN Down(k) : j < i /\ Down(k)[j] = Ev(q)
        BY <1>0, <1>1, <2>1, <2>4, <3>1 DEF EventInv
      <4> QED
        BY <1>8, <2>2, <4>1
    <3>2. CASE k = s /\ Down(k)'[i] = Res(r) /\ \A j \in DOMAIN Down(k) : j < i
      <4>1. q = r
        BY <1>7, <2>4, <3>2
      <4>2. requests[q].on = k
        BY <1>2, <3>2, <4>1
      <4>3. Seen(q) \/ \E j \in DOMAIN Down(k) : Down(k)[j] = Ev(q)
        BY <1>0, <1>1, <2>1, <2>4, <4>2 DEF EventInv
      <4> QED
        BY <1>8, <2>2, <3>2, <4>3
    <3> QED
      BY <1>8, <3>1, <3>2
  <2> QED
    BY <2>3, <2>4
<1> QED
  BY <1>4, <1>5, <1>9, <1>10 DEF Rest

LEMMA FlushStep ==
    ASSUME IInv, TypeOK', Flush
    PROVE  Rest'
<1>0. TypeOK /\ SocketInv /\ SentInv /\ OrderInv /\ EventInv /\ EventBeforeAnswer
  BY DEF IInv
<1>1. /\ UNCHANGED <<here, socket, connected, requests, seen, sockets, handling, emitted>>
      /\ pending' = [s \in Sockets |-> <<>>]
      /\ wire' = [s \in Sockets |-> IF s \in sockets /\ wire[s].is = "open"
                     THEN [wire[s] EXCEPT !.down = @ \o pending[s]] ELSE wire[s]]
  BY DEF Flush, page
<1>2. ASSUME NEW s \in Sockets
      PROVE  /\ Same(s) /\ wire'[s].up = wire[s].up
             /\ wire'[s].down = IF wire[s].is = "open" THEN Down(s) ELSE <<>>
  <2>1. CASE wire[s].is = "open"
    <3>1. wire'[s] = [wire[s] EXCEPT !.down = Down(s)]
      BY <1>0, <1>1, <2>1 DEF SocketInv, Down
    <3>2. wire[s] \in WireRecords
      BY <1>0, Typed
    <3> QED
      BY <2>1, <3>1, <3>2 DEF Same, WireRecords
  <2>2. CASE wire[s].is # "open"
    BY <1>0, <1>1, <2>2 DEF Same, SocketInv
  <2> QED
    BY <2>1, <2>2
<1>3. \A s \in Sockets : Down(s)' = IF wire[s].is = "open" THEN Down(s) ELSE <<>>
  <2> TAKE s \in Sockets
  <2>1. Down(s)' = wire'[s].down \o <<>>
    BY <1>1 DEF Down
  <2>2. wire'[s].down \in Seq(Frames)
    BY <1>0, <1>2, Typed, EmptySeq
  <2>3. Down(s)' = wire'[s].down
    BY <2>1, <2>2, ConcatEmptySeq
  <2> QED
    BY <1>2, <2>3
<1>4. SocketInv' /\ SentInv' /\ NoneWaitsOnALostSocket'
  BY <1>1, <1>2, ServerKeeps
<1>5. EventBeforeAnswer'
  BY <1>0, <1>1 DEF EventBeforeAnswer
<1>6. OrderInv'
  <2>1. ASSUME NEW s \in Sockets, NEW k \in DOMAIN wire'[s].up
        PROVE  LET q == wire'[s].up[k] IN
               /\ requests'[q].on = s /\ requests'[q].fate # "resolved"
               /\ q \notin handling' /\ q \notin emitted'
               /\ \A j \in DOMAIN wire'[s].up : wire'[s].up[j] = q => j = k
    BY <1>0, <1>1, <1>2 DEF OrderInv
  <2>2. /\ \A q \in handling' : requests'[q].on # 0 /\ requests'[q].fate # "resolved"
        /\ \A q \in emitted' : requests'[q].on # 0
    BY <1>0, <1>1 DEF OrderInv
  <2>3. ASSUME NEW s \in Sockets, NEW k \in DOMAIN Down(s)', Down(s)'[k].t = "res"
        PROVE  LET q == Down(s)'[k].id IN
               /\ requests'[q].on = s /\ q \notin handling'
               /\ \A j \in DOMAIN wire'[s].up : wire'[s].up[j] # q
    <3>1. Down(s)' = Down(s)
      BY <1>3, <2>3, DOMAIN <<>> = {}
    <3> QED
      BY <1>0, <1>1, <1>2, <2>3, <3>1 DEF OrderInv
  <2> QED
    BY <2>1, <2>2, <2>3 DEF OrderInv
<1>7. EventInv'
  <2>1. \A s \in Sockets : wire'[s].is = "open" => wire[s].is = "open" /\ Down(s)' = Down(s)
    BY <1>2, <1>3 DEF Same
  <2>2. \A q : Seen(q)' <=> Seen(q)
    BY <1>1 DEF Seen
  <2> QED
    BY <1>0, <1>1, <2>1, <2>2 DEF EventInv
<1> QED
  BY <1>4, <1>5, <1>6, <1>7 DEF Rest

LEMMA HandleStep ==
    ASSUME IInv, TypeOK', NEW s \in Sockets, Handle(s)
    PROVE  Rest'
<1>0. TypeOK /\ SocketInv /\ SentInv /\ OrderInv /\ EventInv /\ EventBeforeAnswer
  BY DEF IInv
<1>7. wire[s].up \in Seq(Requests) /\ wire[s].up # <<>>
  BY <1>0, Typed DEF Handle
<1>r. PICK r \in Requests : r = Head(wire[s].up)
  BY <1>7, FirstFrameTaken
<1>1. /\ wire[s].is = "open" /\ wire[s].up # <<>> /\ handling' = handling \union {r}
      /\ UNCHANGED <<here, socket, connected, requests, seen, sockets, emitted, pending>>
      /\ wire' = [wire EXCEPT ![s].up = Tail(@)]
  BY <1>r DEF Handle, page
<1>2. /\ wire'[s].up = Tail(wire[s].up)
      /\ \A k \in Sockets : k # s => wire'[k] = wire[k]
      /\ \A k \in Sockets : Same(k) /\ wire'[k].down = wire[k].down
  <2>1. /\ wire'[s] = [wire[s] EXCEPT !.up = Tail(@)]
        /\ \A k \in Sockets : k # s => wire'[k] = wire[k]
    BY <1>0, <1>1, Typed
  <2>2. wire[s] \in WireRecords
    BY <1>0, Typed
  <2> QED
    BY <1>1, <2>1, <2>2 DEF Same, WireRecords
<1>3. SocketInv' /\ SentInv' /\ NoneWaitsOnALostSocket'
  BY <1>1, <1>2, ServerKeeps
<1>4. EventBeforeAnswer'
  BY <1>0, <1>1 DEF EventBeforeAnswer
<1>5. \A k \in Sockets : Down(k)' = Down(k)
  BY <1>1, <1>2 DEF Down
<1>6. EventInv'
  <2>1. \A q : Seen(q)' <=> Seen(q)
    BY <1>1 DEF Seen
  <2> QED
    BY <1>0, <1>1, <1>2, <1>5, <2>1 DEF EventInv, Same
<1>8. /\ r = wire[s].up[1] /\ 1 \in DOMAIN wire[s].up /\ r \in Requests
      /\ \A k \in DOMAIN wire'[s].up : /\ k + 1 \in DOMAIN wire[s].up /\ k \in Nat \ {0}
                                       /\ wire'[s].up[k] = wire[s].up[k + 1]
  <2> DEFINE up == wire[s].up
  <2>1. /\ Head(up) = up[1] /\ 1 \in DOMAIN up
        /\ \A k \in DOMAIN Tail(up) : k + 1 \in DOMAIN up /\ k \in Nat \ {0} /\ Tail(up)[k] = up[k + 1]
    BY <1>7, FirstFrameTaken
  <2> QED
    BY <1>r, <1>2, <2>1
<1>9. /\ requests[r].on = s /\ requests[r].fate # "resolved" /\ r \notin emitted
      /\ \A j \in DOMAIN wire[s].up : wire[s].up[j] = r => j = 1
  BY <1>0, <1>8 DEF OrderInv
<1>10. ASSUME NEW k \in Sockets, NEW i \in DOMAIN wire'[k].up
       PROVE  \E j \in DOMAIN wire[k].up : wire[k].up[j] = wire'[k].up[i]
  BY <1>2, <1>8
<1>11. OrderInv'
  <2>1. ASSUME NEW k \in Sockets, NEW i \in DOMAIN wire'[k].up
        PROVE  LET q == wire'[k].up[i] IN
               /\ requests'[q].on = k /\ requests'[q].fate # "resolved"
               /\ q \notin handling' /\ q \notin emitted'
               /\ \A j \in DOMAIN wire'[k].up : wire'[k].up[j] = q => j = i
    <3> DEFINE q == wire'[k].up[i]
    <3>1. /\ requests'[q].on = k /\ requests'[q].fate # "resolved"
          /\ q \notin handling /\ q \notin emitted'
      BY <1>0, <1>1, <1>10 DEF OrderInv
    <3>2. CASE k = s
      <4>1. i + 1 \in DOMAIN wire[s].up /\ q = wire[s].up[i + 1] /\ i \in Nat \ {0}
        BY <1>8, <3>2
      <4>2. q # r
        BY <1>9, <4>1
      <4>3. ASSUME NEW j \in DOMAIN wire'[k].up, wire'[k].up[j] = q
            PROVE  j = i
        <5>1. j + 1 \in DOMAIN wire[s].up /\ wire[s].up[j + 1] = wire[s].up[i + 1] /\ j \in Nat
          BY <1>8, <3>2, <4>1, <4>3
        <5>2. j + 1 = i + 1
          BY <1>0, <4>1, <5>1 DEF OrderInv
        <5> QED
          BY <4>1, <5>1, <5>2
      <4> QED
        BY <1>1, <3>1, <4>2, <4>3
    <3>3. CASE k # s
      <4>1. wire'[k].up = wire[k].up
        BY <1>2, <3>3
      <4>2. q # r
        BY <1>1, <1>9, <3>1, <3>3
      <4>3. \A j \in DOMAIN wire'[k].up : wire'[k].up[j] = q => j = i
        BY <1>0, <4>1 DEF OrderInv
      <4> QED
        BY <1>1, <3>1, <4>2, <4>3
    <3> QED
      BY <3>2, <3>3
  <2>2. /\ \A q \in handling' : requests'[q].on # 0 /\ requests'[q].fate # "resolved"
        /\ \A q \in emitted' : requests'[q].on # 0
    BY <1>0, <1>1, <1>9, SocketNumbers DEF OrderInv
  <2>3. ASSUME NEW k \in Sockets, NEW i \in DOMAIN Down(k)', Down(k)'[i].t = "res"
        PROVE  LET q == Down(k)'[i].id IN
               /\ requests'[q].on = k /\ q \notin handling'
               /\ \A j \in DOMAIN wire'[k].up : wire'[k].up[j] # q
    <3> DEFINE q == Down(k)[i].id
    <3>1. /\ requests[q].on = k /\ q \notin handling
          /\ \A j \in DOMAIN wire[k].up : wire[k].up[j] # q
      BY <1>0, <1>5, <2>3 DEF OrderInv
    <3>2. q # r
      BY <1>8, <1>9, <3>1
    <3>3. \A j \in DOMAIN wire'[k].up : wire'[k].up[j] # q
      BY <1>10, <3>1
    <3> QED
      BY <1>1, <1>5, <3>1, <3>2, <3>3
  <2> QED
    BY <2>1, <2>2, <2>3 DEF OrderInv
<1> QED
  BY <1>3, <1>4, <1>6, <1>11 DEF Rest

(* A frame reaches its page: the head of what is on its way.               *)
LEMMA ToldStep ==
    ASSUME IInv, TypeOK', NEW p \in Pages, Told(p)
    PROVE  Rest'
<1>0. TypeOK /\ SocketInv /\ SentInv /\ OrderInv /\ EventInv /\ EventBeforeAnswer
      /\ NoneWaitsOnALostSocket
  BY DEF IInv
<1>1. PICK s \in Sockets : s = socket[p]
  BY <1>0, SocketNumbers DEF Told, TypeOK
<1>2. PICK frame \in Frames : frame = Head(wire[s].down)
  BY <1>0, <1>1, Typed, FirstFrameTaken DEF Told
<1>3. /\ wire[s].is = "open" /\ wire[s].down # <<>>
      /\ \/ /\ frame.t = "ev" /\ seen' = seen \union {<<p, frame.id>>} /\ UNCHANGED requests
         \/ /\ frame.t = "res" /\ UNCHANGED seen
            /\ requests' = IF requests[frame.id].fate = "pending"
                           THEN [requests EXCEPT ![frame.id].fate = "resolved"] ELSE requests
      /\ wire' = [wire EXCEPT ![s].down = Tail(@)]
      /\ UNCHANGED <<here, socket, connected, sockets, handling, emitted, pending>>
  BY <1>1, <1>2 DEF Told, server, Frames
<1>4. /\ wire'[s].down = Tail(wire[s].down)
      /\ \A k \in Sockets : k # s => wire'[k] = wire[k]
      /\ \A k \in Sockets : Same(k) /\ wire'[k].up = wire[k].up
  <2>1. /\ wire'[s] = [wire[s] EXCEPT !.down = Tail(@)]
        /\ \A k \in Sockets : k # s => wire'[k] = wire[k]
    BY <1>0, <1>3, Typed
  <2>2. wire[s] \in WireRecords
    BY <1>0, Typed
  <2> QED
    BY <1>3, <2>1, <2>2 DEF Same, WireRecords
<1>5. /\ Down(s) \in Seq(Frames) /\ Down(s) # <<>>
      /\ Down(s)' = Tail(Down(s)) /\ Head(Down(s)) = frame
      /\ \A k \in Sockets : k # s => Down(k)' = Down(k)
  <2>1. wire[s].down \in Seq(Frames) /\ pending[s] \in Seq(Frames)
    BY <1>0, Typed
  <2>2. /\ Tail(wire[s].down \o pending[s]) = Tail(wire[s].down) \o pending[s]
        /\ Head(wire[s].down \o pending[s]) = Head(wire[s].down)
        /\ wire[s].down \o pending[s] # <<>>
    BY <1>3, <2>1, FirstOfTwo
  <2> QED
    BY <1>0, <1>2, <1>3, <1>4, <2>2, Typed DEF Down
<1>6. /\ frame = Down(s)[1] /\ 1 \in DOMAIN Down(s) /\ DOMAIN Down(s) \subseteq Nat
      /\ \A k \in DOMAIN Down(s)' : k + 1 \in DOMAIN Down(s) /\ k \in Nat /\ Down(s)'[k] = Down(s)[k + 1]
      /\ \A k \in DOMAIN Down(s) : k # 1 => k - 1 \in DOMAIN Down(s)' /\ Down(s)'[k - 1] = Down(s)[k]
  BY <1>5, FirstFrameTaken
<1>7. frame.id \in Requests /\ (frame = Ev(frame.id) \/ frame = Res(frame.id))
      /\ \A q : (frame = Ev(q) \/ frame = Res(q)) => q = frame.id
  BY DEF Frames, Ev, Res
<1>8. \A q \in Requests : /\ requests'[q].of = requests[q].of /\ requests'[q].on = requests[q].on
                          /\ \/ requests'[q].fate = requests[q].fate
                             \/ /\ q = frame.id /\ frame.t = "res" /\ requests[q].fate = "pending"
                                /\ requests'[q].fate = "resolved"
  <2>1. CASE requests' = requests
    BY <2>1
  <2>2. CASE /\ frame.t = "res" /\ requests[frame.id].fate = "pending"
             /\ requests' = [requests EXCEPT ![frame.id].fate = "resolved"]
    <3>1. requests[frame.id] \in RequestRecords
      BY <1>0, <1>7, Typed
    <3>2. /\ requests'[frame.id] = [requests[frame.id] EXCEPT !.fate = "resolved"]
          /\ \A q \in Requests : q # frame.id => requests'[q] = requests[q]
      BY <1>0, <1>7, <2>2, Typed
    <3> QED
      BY <2>2, <3>1, <3>2 DEF RequestRecords
  <2> QED
    BY <1>3, <2>1, <2>2
<1>9. SocketInv'
  BY <1>0, <1>3, <1>4, SocketsKept
<1>10. SentInv'
  BY <1>0, <1>3, <1>4, <1>8, SentKept
<1>11. NoneWaitsOnALostSocket'
  BY <1>0, <1>3, <1>8 DEF NoneWaitsOnALostSocket
<1>12. \A q \in Requests : Seen(q) => Seen(q)'
  BY <1>3, <1>8 DEF Seen
<1>13. frame.t = "res" => /\ requests[frame.id].on = s /\ frame.id \notin handling
                         /\ \A j \in DOMAIN wire[s].up : wire[s].up[j] # frame.id
  BY <1>0, <1>6 DEF OrderInv
<1>14. \A q \in Requests : frame = Ev(q) /\ requests[q].on = s => Seen(q)'
  <2> SUFFICES ASSUME NEW q \in Requests, frame = Ev(q), requests[q].on = s
               PROVE  Seen(q)'
    OBVIOUS
  <2>1. requests[q].of = p
    BY <1>0, <1>1, SocketNumbers DEF SentInv
  <2>2. frame.t = "ev"
    BY DEF Ev
  <2> QED
    BY <1>3, <1>7, <2>1, <2>2 DEF Seen
<1>15. EventBeforeAnswer'
  <2> SUFFICES ASSUME NEW q \in Requests, requests'[q].fate = "resolved", q \in emitted'
               PROVE  Seen(q)'
    BY DEF EventBeforeAnswer, Seen
  <2>1. CASE requests[q].fate = "resolved"
    BY <1>0, <1>3, <1>12, <2>1 DEF EventBeforeAnswer, Seen
  <2>2. CASE q = frame.id /\ frame.t = "res"
    <3>1. Down(s)[1] = Res(q) /\ q \in emitted
      BY <1>3, <1>6, <1>7, <2>2 DEF Ev
    <3>2. Seen(q) \/ \E j \in DOMAIN Down(s) : j < 1 /\ Down(s)[j] = Ev(q)
      BY <1>0, <1>3, <1>6, <3>1 DEF EventInv
    <3>3. \A j \in DOMAIN Down(s) : ~(j < 1)
      BY <1>5, LenProperties
    <3> QED
      BY <1>12, <3>2, <3>3
  <2> QED
    BY <1>8, <2>1, <2>2
<1>16. ASSUME NEW k \in Sockets, NEW i \in DOMAIN Down(k)'
       PROVE  \E j \in DOMAIN Down(k) : Down(k)[j] = Down(k)'[i]
  BY <1>5, <1>6
<1>17. OrderInv'
  <2>1. ASSUME NEW k \in Sockets, NEW i \in DOMAIN wire'[k].up
        PROVE  LET q == wire'[k].up[i] IN
               /\ requests'[q].on = k /\ requests'[q].fate # "resolved"
               /\ q \notin handling' /\ q \notin emitted'
               /\ \A j \in DOMAIN wire'[k].up : wire'[k].up[j] = q => j = i
    <3> DEFINE q == wire[k].up[i]
    <3>1. q \in Requests /\ q = wire'[k].up[i] /\ i \in DOMAIN wire[k].up
      BY <1>0, <1>4, Identified
    <3>2. /\ requests[q].on = k /\ requests[q].fate # "resolved"
          /\ q \notin handling /\ q \notin emitted
          /\ \A j \in DOMAIN wire[k].up : wire[k].up[j] = q => j = i
      BY <1>0, <3>1 DEF OrderInv
    <3>3. requests'[q].fate # "resolved"
      BY <1>8, <1>13, <3>1, <3>2
    <3> QED
      BY <1>3, <1>4, <1>8, <3>1, <3>2, <3>3
  <2>2. /\ \A q \in handling' : requests'[q].on # 0 /\ requests'[q].fate # "resolved"
        /\ \A q \in emitted' : requests'[q].on # 0
    BY <1>0, <1>3, <1>8, <1>13, Identified DEF OrderInv
  <2>3. ASSUME NEW k \in Sockets, NEW i \in DOMAIN Down(k)', Down(k)'[i].t = "res"
        PROVE  LET q == Down(k)'[i].id IN
               /\ requests'[q].on = k /\ q \notin handling'
               /\ \A j \in DOMAIN wire'[k].up : wire'[k].up[j] # q
    <3>1. PICK j \in DOMAIN Down(k) : Down(k)[j] = Down(k)'[i]
      BY <1>16
    <3>2. /\ requests[Down(k)[j].id].on = k /\ Down(k)[j].id \notin handling
          /\ \A n \in DOMAIN wire[k].up : wire[k].up[n] # Down(k)[j].id
      BY <1>0, <2>3, <3>1 DEF OrderInv
    <3>3. Down(k)[j].id \in Requests
      BY <1>0, Identified
    <3> QED
      BY <1>3, <1>4, <1>8, <3>1, <3>2, <3>3
  <2> QED
    BY <2>1, <2>2, <2>3 DEF OrderInv
<1>18. EventInv'
  <2> SUFFICES ASSUME NEW k \in Sockets, wire'[k].is = "open"
               PROVE  /\ \A q \in emitted' : requests'[q].on = k =>
                            Seen(q)' \/ \E j \in DOMAIN Down(k)' : Down(k)'[j] = Ev(q)
                      /\ \A i \in DOMAIN Down(k)' : \A q \in emitted' : Down(k)'[i] = Res(q) =>
                            Seen(q)' \/ \E j \in DOMAIN Down(k)' : j < i /\ Down(k)'[j] = Ev(q)
    BY DEF EventInv
  <2>1. wire[k].is = "open"
    BY <1>4 DEF Same
  <2>2. emitted' = emitted /\ emitted \subseteq Requests
    BY <1>0, <1>3, Identified
  <2>3. ASSUME NEW q \in emitted', requests'[q].on = k
        PROVE  Seen(q)' \/ \E j \in DOMAIN Down(k)' : Down(k)'[j] = Ev(q)
    <3>1. requests[q].on = k
      BY <1>8, <2>2, <2>3
    <3>2. Seen(q) \/ \E j \in DOMAIN Down(k) : Down(k)[j] = Ev(q)
      BY <1>0, <2>1, <2>2, <3>1 DEF EventInv
    <3>3. CASE k = s
      BY <1>6, <1>12, <1>14, <2>2, <3>1, <3>2, <3>3
    <3>4. CASE k # s
      BY <1>5, <1>12, <2>2, <3>2, <3>4
    <3> QED
      BY <3>3, <3>4
  <2>4. ASSUME NEW i \in DOMAIN Down(k)', NEW q \in emitted', Down(k)'[i] = Res(q)
        PROVE  Seen(q)' \/ \E j \in DOMAIN Down(k)' : j < i /\ Down(k)'[j] = Ev(q)
    <3>1. CASE k = s
      <4>1. i + 1 \in DOMAIN Down(s) /\ Down(s)[i + 1] = Res(q) /\ i \in Nat
        BY <1>6, <2>4, <3>1
      <4>2. Seen(q) \/ \E j \in DOMAIN Down(s) : j < i + 1 /\ Down(s)[j] = Ev(q)
        BY <1>0, <2>1, <2>2, <3>1, <4>1 DEF EventInv
      <4>3. requests[q].on = s
        <5>1. Down(s)[i + 1].t = "res" /\ Down(s)[i + 1].id = q
          BY <4>1 DEF Res
        <5> QED
          BY <1>0, <4>1, <5>1 DEF OrderInv
      <4>4. ASSUME NEW j \in DOMAIN Down(s), j < i + 1, Down(s)[j] = Ev(q), j # 1
            PROVE  \E n \in DOMAIN Down(s)' : n < i /\ Down(s)'[n] = Ev(q)
        <5>1. j - 1 \in DOMAIN Down(s)' /\ Down(s)'[j - 1] = Ev(q) /\ j \in Nat
          BY <1>6, <4>4
        <5>2. j - 1 < i
          BY <4>1, <4>4, <5>1
        <5> QED
          BY <5>1, <5>2
      <4> QED
        BY <1>6, <1>12, <1>14, <2>2, <3>1, <4>2, <4>3, <4>4
    <3>2. CASE k # s
      <4>1. Down(k)' = Down(k)
        BY <1>5, <3>2
      <4> QED
        BY <1>0, <1>12, <2>1, <2>2, <2>4, <4>1 DEF EventInv
    <3> QED
      BY <3>1, <3>2
  <2> QED
    BY <2>3, <2>4
<1> QED
  BY <1>9, <1>10, <1>11, <1>15, <1>17, <1>18 DEF Rest

-----------------------------------------------------------------------------
(* A page sends requests that the server has not heard of.                 *)

LEMMA Unheard ==
    ASSUME TypeOK, OrderInv, NEW r \in Requests, requests[r].on = 0
    PROVE  /\ r \notin handling /\ r \notin emitted
           /\ \A s \in Sockets : \A k \in DOMAIN wire[s].up : wire[s].up[k] # r
           /\ \A s \in Sockets : \A k \in DOMAIN Down(s) : Down(s)[k].t = "res" => Down(s)[k].id # r
  BY SocketNumbers DEF OrderInv

(* The requests of W are sent on the socket s, which takes them once each. *)
Sends(W, s) ==
    /\ UNCHANGED <<seen, handling, emitted, pending>>
    /\ \A r \in W : requests[r].on = 0 /\ requests'[r].fate # "resolved"
    /\ \A r \in Requests \ W : requests'[r] = requests[r]
    /\ \A k \in Sockets : k # s => wire'[k] = wire[k]

CarriesOn(W, s) ==
    /\ wire'[s].down = wire[s].down
    /\ wire'[s].is = "open" /\ wire[s].is # "open" => \A r \in Requests : requests[r].on # s
    /\ \A i \in DOMAIN wire'[s].up :
          \/ wire'[s].up[i] \in W /\ requests'[wire'[s].up[i]].on = s
          \/ i \in DOMAIN wire[s].up /\ wire'[s].up[i] = wire[s].up[i]
    /\ \A i, j \in DOMAIN wire'[s].up :
          wire'[s].up[i] \in W /\ wire'[s].up[i] = wire'[s].up[j] => i = j

LEMMA SendStep ==
    ASSUME IInv, NEW W \in SUBSET Requests, NEW s, Sends(W, s), s \in Sockets => CarriesOn(W, s)
    PROVE  OrderInv' /\ EventInv' /\ EventBeforeAnswer'
<1>0. TypeOK /\ OrderInv /\ EventInv /\ EventBeforeAnswer
  BY DEF IInv
<1> USE DEF Sends, CarriesOn
<1>1. \A k \in Sockets : Down(k)' = Down(k)
  BY DEF Down
<1>2. \A r \in W : /\ r \notin handling /\ r \notin emitted
                   /\ \A k \in Sockets : \A i \in DOMAIN wire[k].up : wire[k].up[i] # r
                   /\ \A k \in Sockets : \A i \in DOMAIN Down(k) :
                         Down(k)[i].t = "res" => Down(k)[i].id # r
  BY <1>0, Unheard
<1>3. handling \subseteq Requests /\ emitted \subseteq Requests
  BY <1>0, Identified
<1>4. OrderInv'
  <2>1. ASSUME NEW k \in Sockets, NEW i \in DOMAIN wire'[k].up
        PROVE  LET q == wire'[k].up[i] IN
               /\ requests'[q].on = k /\ requests'[q].fate # "resolved"
               /\ q \notin handling' /\ q \notin emitted'
               /\ \A j \in DOMAIN wire'[k].up : wire'[k].up[j] = q => j = i
    <3>1. CASE k = s /\ wire'[s].up[i] \in W /\ requests'[wire'[s].up[i]].on = s
      BY <1>2, <2>1, <3>1
    <3>2. CASE i \in DOMAIN wire[k].up /\ wire'[k].up[i] = wire[k].up[i]
      <4> DEFINE q == wire[k].up[i]
      <4>1. q \in Requests /\ q \notin W
        BY <1>0, <1>2, <3>2, Identified
      <4>2. /\ requests'[q].on = k /\ requests'[q].fate # "resolved"
            /\ q \notin handling' /\ q \notin emitted'
        BY <1>0, <3>2, <4>1 DEF OrderInv
      <4>3. ASSUME NEW j \in DOMAIN wire'[k].up, wire'[k].up[j] = q
            PROVE  j = i
        <5>1. j \in DOMAIN wire[k].up /\ wire[k].up[j] = q
          BY <4>1, <4>3
        <5> QED
          BY <1>0, <3>2, <5>1 DEF OrderInv
      <4> QED
        BY <3>2, <4>2, <4>3
    <3> QED
      BY <3>1, <3>2
  <2>2. /\ \A q \in handling' : requests'[q].on # 0 /\ requests'[q].fate # "resolved"
        /\ \A q \in emitted' : requests'[q].on # 0
    BY <1>0, <1>2, <1>3 DEF OrderInv
  <2>3. ASSUME NEW k \in Sockets, NEW i \in DOMAIN Down(k)', Down(k)'[i].t = "res"
        PROVE  LET q == Down(k)'[i].id IN
               /\ requests'[q].on = k /\ q \notin handling'
               /\ \A j \in DOMAIN wire'[k].up : wire'[k].up[j] # q
    <3> DEFINE q == Down(k)[i].id
    <3>1. q \in Requests /\ q \notin W /\ q = Down(k)'[i].id
      BY <1>0, <1>1, <1>2, <2>3, Identified
    <3>2. /\ requests[q].on = k /\ q \notin handling
          /\ \A j \in DOMAIN wire[k].up : wire[k].up[j] # q
      BY <1>0, <1>1, <2>3 DEF OrderInv
    <3>3. \A j \in DOMAIN wire'[k].up : wire'[k].up[j] # q
      BY <3>1, <3>2
    <3> HIDE DEF q
    <3> QED
      BY <3>1, <3>2, <3>3
  <2> QED
    BY <2>1, <2>2, <2>3 DEF OrderInv
<1>5. EventInv'
  <2> SUFFICES ASSUME NEW k \in Sockets, wire'[k].is = "open"
               PROVE  /\ \A q \in emitted' : requests'[q].on = k =>
                            Seen(q)' \/ \E j \in DOMAIN Down(k)' : Down(k)'[j] = Ev(q)
                      /\ \A i \in DOMAIN Down(k)' : \A q \in emitted' : Down(k)'[i] = Res(q) =>
                            Seen(q)' \/ \E j \in DOMAIN Down(k)' : j < i /\ Down(k)'[j] = Ev(q)
    BY DEF EventInv
  <2>1. \A q \in emitted' : q \in emitted /\ requests'[q] = requests[q] /\ (Seen(q)' <=> Seen(q))
    BY <1>2, <1>3 DEF Seen
  <2>2. CASE wire[k].is = "open"
    BY <1>0, <1>1, <2>1, <2>2 DEF EventInv
  <2>3. CASE \A r \in Requests : requests[r].on # k
    <3>1. \A i \in DOMAIN Down(k) : Down(k)[i].t # "res"
      BY <1>0, <2>3, Identified DEF OrderInv
    <3>2. \A q : Res(q).t = "res"
      BY DEF Res
    <3> QED
      BY <1>1, <1>3, <2>1, <2>3, <3>1, <3>2
  <2> QED
    BY <2>2, <2>3
<1>6. EventBeforeAnswer'
  <2>1. \A q \in emitted' : q \in emitted /\ requests'[q] = requests[q]
    BY <1>2, <1>3
  <2> QED
    BY <1>0, <2>1 DEF EventBeforeAnswer
<1> QED
  BY <1>4, <1>5, <1>6

LEMMA AskStep ==
    ASSUME IInv, TypeOK', NEW p \in Pages, Ask(p)
    PROVE  Rest'
<1>0. TypeOK /\ SocketInv /\ SentInv /\ OrderInv /\ NoneWaitsOnALostSocket
  BY DEF IInv
<1>1. PICK r \in Requests :
        /\ p \in here /\ requests[r].fate = "none"
        /\ IF connected[p]
           THEN /\ requests' = [requests EXCEPT ![r] = [of |-> p, on |-> socket[p], fate |-> "pending"]]
                /\ wire' = IF wire[socket[p]].is = "open"
                           THEN [wire EXCEPT ![socket[p]].up = Append(@, r)] ELSE wire
           ELSE /\ requests' = [requests EXCEPT ![r] = [of |-> p, on |-> 0, fate |-> "waiting"]]
                /\ UNCHANGED wire
        /\ UNCHANGED <<here, socket, connected, retry, seen, server>>
  BY DEF Ask
<1>2. UNCHANGED <<here, socket, connected, seen, sockets, handling, emitted, pending>>
  BY <1>1 DEF server
<1>3. /\ requests[r].on = 0
      /\ \A q \in Requests : q # r => requests'[q] = requests[q]
      /\ requests'[r].of = p
      /\ connected[p] => requests'[r].on = socket[p] /\ requests'[r].fate = "pending"
      /\ ~connected[p] => requests'[r].on = 0 /\ requests'[r].fate = "waiting"
  BY <1>0, <1>1, Typed DEF SentInv
<1>4. CASE connected[p]
  <2>1. PICK s \in Sockets : s = socket[p]
    BY <1>0, <1>4, SocketNumbers DEF SocketInv, TypeOK
  <2>2. wire[s].is \in {"open", "cut", "closed"}
    BY <1>0, <1>4, <2>1 DEF SocketInv
  <2>3. /\ \A k \in Sockets : Same(k) /\ wire'[k].down = wire[k].down
        /\ \A k \in Sockets : k # s => wire'[k] = wire[k]
        /\ wire'[s].up = wire[s].up \/ wire'[s].up = Append(wire[s].up, r)
    <3>1. CASE wire[s].is = "open"
      <4>1. wire'[s] = [wire[s] EXCEPT !.up = Append(@, r)]
            /\ \A k \in Sockets : k # s => wire'[k] = wire[k]
        BY <1>0, <1>1, <1>4, <2>1, <3>1, Typed
      <4>2. wire[s] \in WireRecords
        BY <1>0, Typed
      <4> QED
        BY <3>1, <4>1, <4>2 DEF Same, WireRecords
    <3>2. CASE wire[s].is # "open"
      BY <1>1, <1>4, <2>1, <3>2 DEF Same
    <3> QED
      BY <3>1, <3>2
  <2>4. SocketInv'
    BY <1>0, <1>2, <2>3, SocketsKept
  <2>5. SentInv'
    <3>1. \A k \in Sockets : wire'[k].is = wire[k].is
      BY <2>3 DEF Same
    <3>2. \A q \in Requests : requests[q].on # 0 => requests[q].on \in Sockets
      BY <1>0, Identified
    <3>3. requests'[r].on = s /\ s # 0 /\ \A q \in Pages : socket[q] = s => q = p
      BY <1>0, <1>3, <1>4, <2>1, SocketNumbers DEF SocketInv
    <3> QED
      BY <1>0, <1>2, <1>3, <1>4, <2>2, <3>1, <3>2, <3>3 DEF SentInv
  <2>6. OrderInv' /\ EventInv' /\ EventBeforeAnswer'
    <3>1. /\ wire[s].up \in Seq(Requests)
          /\ \A i \in DOMAIN wire[s].up : wire[s].up[i] # r
      BY <1>0, <1>3, Typed, Unheard
    <3>2. /\ \A i \in DOMAIN wire'[s].up :
                \/ wire'[s].up[i] = r /\ i = Len(wire[s].up) + 1
                \/ i \in DOMAIN wire[s].up /\ wire'[s].up[i] = wire[s].up[i]
      <4>1. CASE wire'[s].up = wire[s].up
        BY <4>1
      <4>2. CASE wire'[s].up = Append(wire[s].up, r)
        BY <3>1, <4>2, AppendProperties, LenProperties
      <4> QED
        BY <2>3, <4>1, <4>2
    <3>3. wire'[s].is = wire[s].is /\ requests'[r].on = s /\ requests'[r].fate # "resolved"
      BY <1>3, <1>4, <2>1, <2>3 DEF Same
    <3>4. ASSUME NEW i \in DOMAIN wire'[s].up, NEW j \in DOMAIN wire'[s].up,
                 wire'[s].up[i] \in {r}, wire'[s].up[i] = wire'[s].up[j]
          PROVE  i = j
      BY <3>1, <3>2, <3>4
    <3>5. {r} \in SUBSET Requests
      OBVIOUS
    <3>6. \A i \in DOMAIN wire'[s].up :
                \/ wire'[s].up[i] \in {r} /\ requests'[wire'[s].up[i]].on = s
                \/ i \in DOMAIN wire[s].up /\ wire'[s].up[i] = wire[s].up[i]
      BY <3>2, <3>3
    <3>7. /\ \A q \in {r} : requests[q].on = 0 /\ requests'[q].fate # "resolved"
          /\ \A q \in Requests \ {r} : requests'[q] = requests[q]
          /\ UNCHANGED <<seen, handling, emitted, pending>>
      BY <1>2, <1>3, <3>3
    <3>8. /\ wire'[s].down = wire[s].down
          /\ wire'[s].is = "open" /\ wire[s].is # "open" => \A q \in Requests : requests[q].on # s
          /\ \A i, j \in DOMAIN wire'[s].up :
                wire'[s].up[i] \in {r} /\ wire'[s].up[i] = wire'[s].up[j] => i = j
      BY <2>3, <3>3, <3>4
    <3>9. \A k \in Sockets : k # s => wire'[k] = wire[k]
      BY <2>3
    <3> QED
      <4>1. Sends({r}, s)
        BY <3>7, <3>9 DEF Sends
      <4>2. CarriesOn({r}, s)
        BY <3>6, <3>8 DEF CarriesOn
      <4> QED
        BY <3>5, <4>1, <4>2, SendStep
  <2>7. NoneWaitsOnALostSocket'
    BY <1>0, <1>2, <1>3, <1>4 DEF NoneWaitsOnALostSocket
  <2> QED
    BY <2>4, <2>5, <2>6, <2>7 DEF Rest
<1>5. CASE ~connected[p]
  <2>1. wire' = wire
    BY <1>1, <1>5
  <2>2. SocketInv'
    BY <1>0, <1>2, <2>1 DEF SocketInv
  <2>3. SentInv'
    BY <1>0, <1>2, <1>3, <1>5, <2>1 DEF SentInv
  <2>4. NoneWaitsOnALostSocket'
    BY <1>0, <1>2, <1>3, <1>5 DEF NoneWaitsOnALostSocket
  <2>5. OrderInv' /\ EventInv' /\ EventBeforeAnswer'
    <3>1. /\ {r} \in SUBSET Requests /\ 0 \notin Sockets
          /\ \A q \in {r} : requests[q].on = 0 /\ requests'[q].fate # "resolved"
          /\ \A q \in Requests \ {r} : requests'[q] = requests[q]
          /\ UNCHANGED <<seen, handling, emitted, pending>>
      BY <1>2, <1>3, <1>5, SocketNumbers
    <3>2. Sends({r}, 0)
      BY <2>1, <3>1 DEF Sends
    <3> QED
      BY <3>1, <3>2, SendStep
  <2> QED
    BY <2>2, <2>3, <2>4, <2>5 DEF Rest
<1> QED
  BY <1>4, <1>5

LEMMA OpensStep ==
    ASSUME IInv, TypeOK', NEW p \in Pages, Opens(p)
    PROVE  Rest'
<1>0. TypeOK /\ SocketInv /\ SentInv /\ OrderInv /\ NoneWaitsOnALostSocket
  BY DEF IInv
<1>1. PICK s \in Sockets : s = socket[p]
  BY <1>0, SocketNumbers DEF Opens, TypeOK
<1>2. PICK W \in SUBSET Requests :
        W = {r \in Requests : requests[r].of = p /\ requests[r].fate = "waiting"}
  OBVIOUS
<1>3. PICK up \in [1..Cardinality(W) -> W] :
        /\ \A i, j \in DOMAIN up : i < j => up[i] < up[j]
        /\ wire' = [wire EXCEPT ![s] = [is |-> "open", up |-> up, down |-> <<>>]]
  BY <1>1, <1>2 DEF Opens
<1>4. /\ wire[s].is = "accepted" /\ connected' = [connected EXCEPT ![p] = TRUE]
      /\ requests' = [r \in Requests |-> IF r \in W
                        THEN [requests[r] EXCEPT !.on = s, !.fate = "pending"] ELSE requests[r]]
      /\ UNCHANGED <<here, socket, seen, sockets, handling, emitted, pending>>
  BY <1>1, <1>2 DEF Opens, server
<1>5. /\ \A r \in Requests \ W : requests'[r] = requests[r]
      /\ \A r \in W : /\ requests[r].on = 0 /\ requests[r].of = p /\ requests'[r].of = p
                       /\ requests'[r].on = s /\ requests'[r].fate = "pending"
  <2>1. \A r \in W : requests[r] \in RequestRecords /\ requests[r].fate = "waiting"
    BY <1>0, <1>2, Typed
  <2> QED
    BY <1>0, <1>2, <1>4, <2>1 DEF SentInv, RequestRecords
<1>6. /\ \A k \in Sockets : k # s => wire'[k] = wire[k]
      /\ wire'[s].is = "open" /\ wire'[s].up = up /\ wire'[s].down = <<>> /\ wire[s].down = <<>>
  BY <1>0, <1>3, <1>4, Typed DEF SocketInv
<1>7. \A q \in Pages : socket[q] = s => q = p
  BY <1>0, <1>1, SocketNumbers DEF SocketInv
<1>8. \A q \in Pages : socket[q] # 0 => socket[q] \in Sockets
  BY <1>0, SocketNumbers DEF TypeOK
<1>9. \A r \in Requests : /\ requests[r].on # s
                          /\ requests[r].on # 0 => requests[r].on \in Sockets
  BY <1>0, <1>4, Identified, SocketNumbers DEF SentInv
<1>10. SocketInv'
  <2>1. /\ \A q \in Pages : socket'[q] # 0 => wire'[socket'[q]].is # "unused"
        /\ \A q, t \in Pages : socket'[q] # 0 /\ socket'[q] = socket'[t] => q = t
    BY <1>0, <1>4, <1>6, <1>8 DEF SocketInv
  <2>2. ASSUME NEW q \in Pages, connected'[q]
        PROVE  socket'[q] # 0 /\ wire'[socket'[q]].is \in {"open", "cut", "closed"}
    <3>1. CASE q = p
      BY <1>1, <1>4, <1>6, <3>1, SocketNumbers
    <3>2. CASE q # p
      <4>1. connected[q]
        BY <1>0, <1>4, <2>2, <3>2 DEF TypeOK
      <4> QED
        BY <1>0, <1>4, <1>6, <1>7, <1>8, <3>2, <4>1 DEF SocketInv
    <3> QED
      BY <3>1, <3>2
  <2>3. /\ \A k \in Sockets : wire'[k].is \in {"accepted", "open"} => k \in sockets'
        /\ \A k \in Sockets : wire'[k].is # "open" => wire'[k].down = <<>> /\ wire'[k].up = <<>>
    BY <1>0, <1>4, <1>6 DEF SocketInv
  <2> QED
    BY <2>1, <2>2, <2>3 DEF SocketInv
<1>11. SentInv'
  <2> SUFFICES ASSUME NEW r \in Requests
               PROVE  /\ requests'[r].fate # "none" => requests'[r].of \in Pages
                      /\ requests'[r].fate \in {"none", "waiting"} => requests'[r].on = 0
                      /\ requests'[r].fate = "pending" => requests'[r].on # 0
                      /\ requests'[r].on # 0 =>
                            /\ wire'[requests'[r].on].is \in {"open", "cut", "closed"}
                            /\ \A q \in Pages : socket'[q] = requests'[r].on => q = requests'[r].of
    BY DEF SentInv
  <2>1. CASE r \in W
    <3>1. requests'[r].of = p /\ requests'[r].on = s /\ requests'[r].fate = "pending"
      BY <1>5, <2>1
    <3>2. /\ s # 0 /\ p \in Pages /\ wire'[s].is = "open"
          /\ \A q \in Pages : socket'[q] = s => q = p
      BY <1>4, <1>6, <1>7, SocketNumbers
    <3> QED
      BY <3>1, <3>2
  <2>2. CASE r \notin W
    <3>1. requests'[r] = requests[r]
      BY <1>5, <2>2
    <3>2. \A k \in Sockets : k # s => wire'[k] = wire[k]
      BY <1>6
    <3>3. requests[r].on # s /\ (requests[r].on # 0 => requests[r].on \in Sockets)
      BY <1>9
    <3>4. /\ requests[r].fate # "none" => requests[r].of \in Pages
          /\ requests[r].fate \in {"none", "waiting"} => requests[r].on = 0
          /\ requests[r].fate = "pending" => requests[r].on # 0
          /\ requests[r].on # 0 =>
                /\ wire[requests[r].on].is \in {"open", "cut", "closed"}
                /\ \A q \in Pages : socket[q] = requests[r].on => q = requests[r].of
      BY <1>0 DEF SentInv
    <3>5. socket' = socket
      BY <1>4
    <3> QED
      BY <3>1, <3>2, <3>3, <3>4, <3>5
  <2> QED
    BY <2>1, <2>2
<1>12. OrderInv' /\ EventInv' /\ EventBeforeAnswer'
  <2>1. ASSUME NEW i \in DOMAIN up, NEW j \in DOMAIN up, up[i] = up[j]
        PROVE  i = j
    <3>1. IsFiniteSet(Requests)
      BY FS_Interval, BoundsAssumption DEF Requests
    <3>2. IsFiniteSet(W)
      BY <3>1, FS_Subset
    <3>3. Cardinality(W) \in Nat
      BY <3>2, FS_CardinalityType
    <3>4. i \in Nat /\ j \in Nat
      BY <3>3
    <3>5. up[i] \in Nat
      <4>1. up[i] \in Requests
        OBVIOUS
      <4> QED
        BY <4>1, BoundsAssumption DEF Requests
    <3>6. ~(i < j) /\ ~(j < i)
      BY <1>3, <2>1, <3>5
    <3> QED
      BY <3>4, <3>6
  <2>2. \A i \in DOMAIN up : up[i] \in W
    OBVIOUS
  <2>3. UNCHANGED <<seen, handling, emitted, pending>>
    BY <1>4
  <2>4. /\ \A r \in W : requests[r].on = 0 /\ requests'[r].fate # "resolved"
        /\ \A r \in Requests \ W : requests'[r] = requests[r]
        /\ \A k \in Sockets : k # s => wire'[k] = wire[k]
    BY <1>5, <1>6
  <2>5. /\ wire'[s].down = wire[s].down
        /\ wire'[s].is = "open" /\ wire[s].is # "open" => \A r \in Requests : requests[r].on # s
        /\ \A i \in DOMAIN wire'[s].up :
              \/ wire'[s].up[i] \in W /\ requests'[wire'[s].up[i]].on = s
              \/ i \in DOMAIN wire[s].up /\ wire'[s].up[i] = wire[s].up[i]
    BY <1>5, <1>6, <1>9, <2>2
  <2>6. \A i, j \in DOMAIN wire'[s].up :
           wire'[s].up[i] \in W /\ wire'[s].up[i] = wire'[s].up[j] => i = j
    BY <1>6, <2>1
  <2> QED
    <3>1. Sends(W, s)
      BY <2>3, <2>4 DEF Sends
    <3>2. CarriesOn(W, s)
      BY <2>5, <2>6 DEF CarriesOn
    <3> QED
      BY <3>1, <3>2, SendStep
<1>13. NoneWaitsOnALostSocket'
  BY <1>0, <1>1, <1>4, <1>5 DEF NoneWaitsOnALostSocket
<1> QED
  BY <1>10, <1>11, <1>12, <1>13 DEF Rest

-----------------------------------------------------------------------------
LEMMA Invariant == Spec => []IInv
<1>1. ASSUME IInv, [Next]_vars
      PROVE  IInv'
  <2>1. TypeOK'
    BY <1>1, TypeStep
  <2>2. Rest'
    BY <1>1, <2>1, ConnectStep, AskStep, OpensStep, ToldStep, AcceptStep, HandleStep,
       BroadcastStep, AnswerStep, FlushStep, CalmStep DEF Next, PageStep, SocketStep
  <2> QED
    BY <2>1, <2>2 DEF IInv, Rest
<1> QED
  BY InitInv, <1>1, PTL DEF Spec

(* Every page, socket, request and frame keeps its type.                   *)
THEOREM TypeCorrect == Spec => []TypeOK
<1>1. IInv => TypeOK
  BY DEF IInv
<1> QED
  BY Invariant, <1>1, PTL

(* The answer of a request never overtakes the event the request caused,   *)
(* though events wait for the next turn of the server (#answer()).         *)
THEOREM AnswersDoNotOvertake == Spec => []EventBeforeAnswer
<1>1. IInv => EventBeforeAnswer
  BY DEF IInv
<1> QED
  BY Invariant, <1>1, PTL

(* No request of a live page waits on a socket that the page has given up: *)
(* losing the socket fails it (#failAll()).                                *)
THEOREM LostSocketsFailTheirRequests == Spec => []NoneWaitsOnALostSocket
<1>1. IInv => NoneWaitsOnALostSocket
  BY DEF IInv
<1> QED
  BY Invariant, <1>1, PTL
-----------------------------------------------------------------------------
(* The page that is offline.                                               *)
Awaited == {"opening", "accepted", "closed"}

(* A page that stays and is not connected has its reconnect timer, or a    *)
(* socket of which onopen or onclose is yet to come.                       *)
TriesAgain ==
    \A p \in here : ~connected[p] =>
        IF socket[p] = 0 THEN retry[p] ELSE wire[socket[p]].is \in Awaited

(* No page moves, and no socket that one waits for opens or dies unheard.  *)
LEMMA TriesKept ==
    ASSUME TypeOK, TriesAgain, here' \subseteq here, UNCHANGED <<socket, connected, retry>>,
           \A s \in Sockets : wire[s].is \in Awaited => wire'[s].is \in Awaited
    PROVE  TriesAgain'
<1>1. \A p \in here : socket[p] # 0 => socket[p] \in Sockets
  BY SocketNumbers DEF TypeOK
<1> QED
  BY <1>1 DEF TriesAgain

(* Frames that are sent or taken leave the states of the sockets alone.    *)
LEMMA FramesMove ==
    ASSUME TypeOK,
           \/ \E p \in Pages : Ask(p) \/ Told(p)
           \/ \E s \in Sockets : Handle(s)
           \/ \E r \in Requests : Broadcast(r) \/ Answer(r) \/ TimesOut(r)
           \/ Flush
    PROVE  /\ UNCHANGED <<here, socket, connected, retry>>
           /\ \A s \in Sockets : wire'[s].is = wire[s].is
<1>1. wire \in [Sockets -> WireRecords]
  BY Typed
<1>2. ASSUME NEW s \in Sockets, NEW w,
             \/ wire' = [wire EXCEPT ![s].up = w]
             \/ wire' = [wire EXCEPT ![s].down = w]
      PROVE  \A k \in Sockets : wire'[k].is = wire[k].is
  BY <1>1, <1>2 DEF WireRecords
<1>3. ASSUME NEW p \in Pages, Ask(p)
      PROVE  /\ UNCHANGED <<here, socket, connected, retry>>
             /\ \A s \in Sockets : wire'[s].is = wire[s].is
  <2>1. connected[p] => socket[p] \in Sockets
    BY SocketNumbers DEF TypeOK
  <2>2. UNCHANGED <<here, socket, connected, retry>>
    BY <1>3 DEF Ask
  <2>3. \/ wire' = wire
        \/ connected[p] /\ \E r \in Requests :
              wire' = [wire EXCEPT ![socket[p]].up = Append(wire[socket[p]].up, r)]
    BY <1>3 DEF Ask
  <2> QED
    BY <1>2, <2>1, <2>2, <2>3
<1>4. ASSUME NEW p \in Pages, Told(p)
      PROVE  /\ UNCHANGED <<here, socket, connected, retry>>
             /\ \A s \in Sockets : wire'[s].is = wire[s].is
  <2>1. socket[p] \in Sockets
    BY <1>4, SocketNumbers DEF Told, TypeOK
  <2>2. /\ UNCHANGED <<here, socket, connected, retry>>
        /\ wire' = [wire EXCEPT ![socket[p]].down = Tail(wire[socket[p]].down)]
    BY <1>4 DEF Told, server
  <2> QED
    BY <1>2, <2>1, <2>2
<1>5. ASSUME NEW s \in Sockets, Handle(s)
      PROVE  /\ UNCHANGED <<here, socket, connected, retry>>
             /\ \A k \in Sockets : wire'[k].is = wire[k].is
  <2>1. /\ UNCHANGED <<here, socket, connected, retry>>
        /\ wire' = [wire EXCEPT ![s].up = Tail(wire[s].up)]
    BY <1>5 DEF Handle, page
  <2> QED
    BY <1>2, <2>1
<1>6. ASSUME NEW r \in Requests, Broadcast(r) \/ TimesOut(r)
      PROVE  UNCHANGED <<here, socket, connected, retry, wire>>
  BY <1>6 DEF Broadcast, TimesOut, page
<1>7. ASSUME NEW r \in Requests, Answer(r)
      PROVE  /\ UNCHANGED <<here, socket, connected, retry>>
             /\ \A s \in Sockets : wire'[s].is = wire[s].is
  <2> DEFINE s == requests[r].on
  <2>1. /\ UNCHANGED <<here, socket, connected, retry>>
        /\ \/ wire' = wire
           \/ s \in sockets /\ wire' = [wire EXCEPT ![s].down =
                                           Append(wire[s].down, [t |-> "res", id |-> r])]
    BY <1>7 DEF Answer, Sent, page
  <2>2. sockets \subseteq Sockets
    BY DEF TypeOK
  <2> HIDE DEF s
  <2> QED
    BY <1>2, <2>1, <2>2
<1>8. ASSUME Flush
      PROVE  /\ UNCHANGED <<here, socket, connected, retry>>
             /\ \A s \in Sockets : wire'[s].is = wire[s].is
  <2>1. /\ UNCHANGED <<here, socket, connected, retry>>
        /\ \A s \in Sockets : wire'[s] =
              IF s \in sockets /\ wire[s].is = "open"
              THEN [wire[s] EXCEPT !.down = wire[s].down \o pending[s]] ELSE wire[s]
    BY <1>8 DEF Flush, page
  <2> QED
    BY <1>1, <2>1 DEF WireRecords
<1> QED
  BY <1>3, <1>4, <1>5, <1>6, <1>7, <1>8

(* Sockets that are accepted or end.                                       *)
LEMMA SocketsMove ==
    ASSUME TypeOK,
           \/ \E p \in Pages : Leave(p)
           \/ \E s \in Sockets : \/ Accept(s) \/ Reset(s) \/ Cut(s) \/ CutNoticed(s)
                                 \/ SocketClosed(s) \/ KeepAlive(s) \/ Pong(s)
    PROVE  /\ here' \subseteq here /\ UNCHANGED <<socket, connected, retry>>
           /\ \A s \in Sockets : wire[s].is \in Awaited => wire'[s].is \in Awaited
<1>1. ASSUME NEW p \in Pages, Leave(p)
      PROVE  /\ here' \subseteq here /\ UNCHANGED <<socket, connected, retry>>
             /\ \A s \in Sockets : wire[s].is \in Awaited => wire'[s].is \in Awaited
  BY <1>1 DEF Leave, Awaited
<1>2. ASSUME NEW s \in Sockets, Accept(s) \/ Reset(s) \/ Cut(s) \/ CutNoticed(s)
      PROVE  /\ UNCHANGED <<here, socket, connected, retry>>
             /\ \A k \in Sockets : wire[k].is \in Awaited => wire'[k].is \in Awaited
  <2>1. /\ UNCHANGED <<here, socket, connected, retry>>
        /\ \/ Becomes(s, "accepted") \/ Becomes(s, "closed")
           \/ Becomes(s, "cut") /\ wire[s].is = "open"
    BY <1>2 DEF Accept, Reset, Cut, CutNoticed, page
  <2> QED
    BY <2>1, BecomesDoes DEF Awaited
<1>3. ASSUME NEW s \in Sockets, SocketClosed(s) \/ KeepAlive(s) \/ Pong(s)
      PROVE  /\ UNCHANGED <<here, socket, connected, retry>>
             /\ \A k \in Sockets : wire[k].is \in Awaited => wire'[k].is \in Awaited
  <2>1. /\ UNCHANGED <<here, socket, connected, retry>>
        /\ wire' = wire \/ Becomes(s, "closed")
    BY <1>3 DEF SocketClosed, KeepAlive, Pong, page
  <2> QED
    BY <2>1, BecomesDoes DEF Awaited
<1> QED
  BY <1>1, <1>2, <1>3

LEMMA TriesStep ==
    ASSUME TypeOK, SocketInv, TriesAgain, [Next]_vars
    PROVE  TriesAgain'
<1>0. /\ \A p \in Pages : socket[p] # 0 => socket[p] \in Sockets
      /\ here \subseteq Pages /\ 0 \notin Sockets
      /\ wire \in [Sockets -> WireRecords]
  BY Typed, SocketNumbers DEF TypeOK
<1>1. ASSUME NEW p \in Pages, Connect(p) PROVE TriesAgain'
  <2>1. /\ UNCHANGED <<here, connected>> /\ retry' = [retry EXCEPT ![p] = FALSE]
        /\ \E s \in Sockets :
              /\ wire[s].is = "unused"
              /\ IF socket[p] # 0 THEN UNCHANGED <<socket, wire>>
                 ELSE Becomes(s, "opening") /\ socket' = [socket EXCEPT ![p] = s]
    BY <1>1 DEF Connect
  <2>2. PICK s \in Sockets :
           /\ wire[s].is = "unused"
           /\ IF socket[p] # 0 THEN UNCHANGED <<socket, wire>>
              ELSE Becomes(s, "opening") /\ socket' = [socket EXCEPT ![p] = s]
    BY <2>1
  <2>3. \A q \in Pages : q # p => retry'[q] = retry[q]
    BY <2>1 DEF TypeOK
  <2>4. CASE socket[p] # 0
    BY <1>0, <2>1, <2>2, <2>3, <2>4 DEF TriesAgain
  <2>5. CASE socket[p] = 0
    <3>1. /\ wire'[s].is = "opening" /\ \A k \in Sockets : k # s => wire'[k] = wire[k]
          /\ socket'[p] = s /\ \A q \in Pages : q # p => socket'[q] = socket[q]
      BY <2>2, <2>5, BecomesDoes DEF TypeOK
    <3>2. \A q \in Pages : socket[q] # s
      BY <1>0, <2>2 DEF SocketInv
    <3> QED
      BY <1>0, <2>1, <2>3, <3>1, <3>2 DEF TriesAgain, Awaited
  <2> QED
    BY <2>4, <2>5
<1>2. ASSUME NEW p \in Pages, Opens(p) PROVE TriesAgain'
  <2>1. /\ UNCHANGED <<here, socket, retry>> /\ socket[p] # 0
        /\ connected' = [connected EXCEPT ![p] = TRUE]
        /\ \E up : wire' = [wire EXCEPT ![socket[p]] = [is |-> "open", up |-> up, down |-> <<>>]]
    BY <1>2 DEF Opens
  <2>2. /\ connected'[p] /\ \A q \in Pages : q # p => connected'[q] = connected[q]
        /\ \A s \in Sockets : s # socket[p] => wire'[s] = wire[s]
    BY <1>0, <2>1 DEF TypeOK
  <2>3. \A q \in Pages : q # p /\ socket[q] # 0 => socket[q] # socket[p]
    BY DEF SocketInv
  <2> QED
    BY <1>0, <2>1, <2>2, <2>3 DEF TriesAgain
<1>3. ASSUME NEW p \in Pages, Closes(p) PROVE TriesAgain'
  <2>1. /\ UNCHANGED <<here, wire>> /\ socket' = [socket EXCEPT ![p] = 0]
        /\ connected' = [connected EXCEPT ![p] = FALSE] /\ retry' = [retry EXCEPT ![p] = TRUE]
    BY <1>3 DEF Closes
  <2>2. /\ socket'[p] = 0 /\ retry'[p]
        /\ \A q \in Pages : q # p => /\ socket'[q] = socket[q] /\ retry'[q] = retry[q]
                                     /\ connected'[q] = connected[q]
    BY <2>1 DEF TypeOK
  <2> QED
    BY <1>0, <2>1, <2>2 DEF TriesAgain
<1>4. CASE \/ \E p \in Pages : Ask(p) \/ Told(p)
           \/ \E s \in Sockets : Handle(s)
           \/ \E r \in Requests : Broadcast(r) \/ Answer(r) \/ TimesOut(r)
           \/ Flush
  BY <1>4, FramesMove, TriesKept
<1>5. CASE \/ \E p \in Pages : Leave(p)
           \/ \E s \in Sockets : \/ Accept(s) \/ Reset(s) \/ Cut(s) \/ CutNoticed(s)
                                 \/ SocketClosed(s) \/ KeepAlive(s) \/ Pong(s)
  BY <1>5, SocketsMove, TriesKept
<1>6. CASE UNCHANGED vars
  BY <1>6, TriesKept DEF vars, page, server
<1> QED
  BY <1>1, <1>2, <1>3, <1>4, <1>5, <1>6 DEF Next, PageStep, SocketStep

(* connect(), #handleClose(): whatever happens to its sockets, a page that *)
(* is offline never comes to rest: it has its reconnect timer, or a socket *)
(* that will open or close.  A socket that died unheard is not offline.    *)
THEOREM OfflineIsNeverLeft == Spec => []TriesAgain
<1>1. Init => TriesAgain
  BY DEF Init, TriesAgain
<1>2. IInv /\ TriesAgain /\ [Next]_vars => TriesAgain'
  BY TriesStep DEF IInv
<1> QED
  BY <1>1, <1>2, Invariant, PTL DEF Spec
=============================================================================
