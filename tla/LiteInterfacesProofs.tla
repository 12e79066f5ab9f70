------------------------ MODULE LiteInterfacesProofs -------------------------
(***************************************************************************)
(* Proofs about LiteInterfaces, for any interfaces, clients and bounds.    *)
(***************************************************************************)
EXTENDS LiteInterfaces, TLAPS

Unclosed == {"connecting", "ready", "names", "degraded", "offline", "failed", "refused"}

(* The client in use, and the ones that are left behind.                   *)
BoxInv ==
    /\ \A c \in Clients : client[c] \in Unclosed => c = box
    /\ box # NoClient => client[box] \in Unclosed
    /\ box # NoClient /\ client[box] = "connecting" => box \in opening
    /\ \A c \in opening : client[c] # "free"

(* Before start() and after stop() there is nothing.                       *)
OutsideInv ==
    /\ stopping => ~configured
    /\ ~configured => /\ box = NoClient /\ ~retry
                      /\ \A i \in Interfaces : shown[i] = {}
                      /\ ~stopping => ~idle
    /\ idle => box = NoClient

(* What #ready and #retryTimer say of the client in use.                   *)
OutcomeInv ==
    /\ ready => box # NoClient /\ box \notin opening
    /\ retry /\ box # NoClient => client[box] = "failed" /\ box \notin opening

IdleShown ==
    \A i \in Interfaces :
        /\ idle /\ configured => shown[i] \ {"absent"} = {"idle"}
        /\ "idle" \in shown[i] => idle

WaitingInv == \A i \in Interfaces : "waiting" \in shown[i] => retry \/ box \in opening

IInv ==
    /\ TypeOK
    /\ BoxInv /\ OutsideInv /\ OutcomeInv /\ IdleShown /\ WaitingInv
    /\ ShownIsTheSystem

(* What the picture of the client makes of the flags of an interface ...   *)
LEMMA AppliedShows ==
  ASSUME NEW flags \in SUBSET Flags, NEW is \in InterfaceStates
  PROVE  /\ Applied(flags, is) \in SUBSET Flags
         /\ "connected" \in Applied(flags, is) <=> is = "running"
         /\ "absent" \in Applied(flags, is) <=> is = "missing"
         /\ "idle" \in Applied(flags, is) <=> "idle" \in flags
         /\ Applied(flags, is) \intersect {"waiting", "reconnecting", "unreachable"} = {}
<1>1. CASE is = "running"
  BY <1>1 DEF Applied, Update, Flags
<1>2. CASE is = "down"
  BY <1>2 DEF Applied, Update, Flags
<1>3. CASE is = "missing"
  BY <1>3 DEF Applied, Update, Flags
<1> QED
  BY <1>1, <1>2, <1>3 DEF InterfaceStates

(* ... and what #connected() makes of them.                                *)
LEMMA ConnectingShows ==
  ASSUME NEW flags \in SUBSET Flags
  PROVE  /\ Connecting(flags) \in SUBSET Flags
         /\ "connected" \in Connecting(flags) /\ "absent" \notin Connecting(flags)
         /\ "idle" \in Connecting(flags) <=> "idle" \in flags
         /\ Connecting(flags) \intersect {"waiting", "reconnecting", "unreachable"} = {}
  BY DEF Connecting, Update, Flags


LEMMA StartKeeps ==
  ASSUME IInv, Start
  PROVE  IInv'
<1> USE BoundsAssumption DEF IInv, Start, Open, Closed, Update, UpdateAll
<1>1. TypeOK'
  <2> USE DEF TypeOK, BoxInv, OutsideInv
  <2>1. shown' \in [Interfaces -> SUBSET Flags]
    BY DEF Flags
  <2>2. listing' \in [Interfaces -> Nat]
    BY DEF Flags
  <2>3. client' \in [Clients -> ClientStates] /\ box' \in Clients \union {NoClient} /\ opening' \subseteq Clients
    BY DEF ClientStates
  <2> QED
    BY <2>1, <2>2, <2>3
<1>2. BoxInv'
  BY DEF TypeOK, BoxInv, OutsideInv, OutcomeInv, Unclosed, ClientStates
<1>3. OutsideInv'
  BY DEF OutsideInv, TypeOK
<1>4. OutcomeInv'
  BY DEF TypeOK, BoxInv, OutsideInv, OutcomeInv, Unclosed
<1>5. IdleShown'
  BY DEF TypeOK, OutsideInv, OutcomeInv, IdleShown
<1>6. WaitingInv'
  BY DEF TypeOK, BoxInv, OutsideInv, OutcomeInv, IdleShown, WaitingInv
<1>7. ShownIsTheSystem'
   BY DEF TypeOK, BoxInv, OutsideInv, OutcomeInv, IdleShown, WaitingInv, ShownIsTheSystem,
     InterfaceStates
<1> QED
  BY <1>1, <1>2, <1>3, <1>4, <1>5, <1>6, <1>7

LEMMA UnsubscribeKeeps ==
  ASSUME IInv, Unsubscribe
  PROVE  IInv'
<1> USE BoundsAssumption DEF IInv, Unsubscribe, Call, CloseBox, Closed, Update, UpdateAll
<1>1. TypeOK'
  <2> USE DEF TypeOK, BoxInv, OutsideInv
  <2>1. shown' \in [Interfaces -> SUBSET Flags]
    BY DEF Flags
  <2>2. listing' \in [Interfaces -> Nat]
    BY DEF Flags
  <2>3. client' \in [Clients -> ClientStates] /\ box' \in Clients \union {NoClient} /\ opening' \subseteq Clients
    BY DEF ClientStates
  <2>4. calls' \in 0..MaxCalls
    OBVIOUS
  <2> QED
    BY <2>1, <2>2, <2>3, <2>4
<1>2. BoxInv'
  BY DEF TypeOK, BoxInv, OutsideInv, OutcomeInv, Unclosed, ClientStates
<1>3. OutsideInv'
  BY DEF OutsideInv, TypeOK
<1>4. OutcomeInv'
  BY DEF TypeOK, BoxInv, OutsideInv, OutcomeInv, Unclosed
<1>5. IdleShown'
  BY DEF TypeOK, OutsideInv, OutcomeInv, IdleShown
<1>6. WaitingInv'
  BY DEF TypeOK, BoxInv, OutsideInv, OutcomeInv, IdleShown, WaitingInv
<1>7. ShownIsTheSystem'
   BY DEF TypeOK, BoxInv, OutsideInv, OutcomeInv, IdleShown, WaitingInv, ShownIsTheSystem,
     InterfaceStates
<1> QED
  BY <1>1, <1>2, <1>3, <1>4, <1>5, <1>6, <1>7

LEMMA SubscribeKeeps ==
  ASSUME IInv, Subscribe
  PROVE  IInv'
<1> USE BoundsAssumption DEF IInv, Subscribe, Call, Open, Closed, Update, UpdateAll
<1>1. TypeOK'
  <2> USE DEF TypeOK, BoxInv, OutsideInv
  <2>1. shown' \in [Interfaces -> SUBSET Flags]
    BY DEF Flags
  <2>2. listing' \in [Interfaces -> Nat]
    BY DEF Flags
  <2>3. client' \in [Clients -> ClientStates] /\ box' \in Clients \union {NoClient} /\ opening' \subseteq Clients
    BY DEF ClientStates
  <2>4. calls' \in 0..MaxCalls
    OBVIOUS
  <2> QED
    BY <2>1, <2>2, <2>3, <2>4
<1>2. BoxInv'
  BY DEF TypeOK, BoxInv, OutsideInv, OutcomeInv, Unclosed, ClientStates
<1>3. OutsideInv'
  BY DEF OutsideInv, TypeOK
<1>4. OutcomeInv'
  BY DEF TypeOK, BoxInv, OutsideInv, OutcomeInv, Unclosed
<1>5. IdleShown'
  BY DEF TypeOK, OutsideInv, OutcomeInv, IdleShown
<1>6. WaitingInv'
  BY DEF TypeOK, BoxInv, OutsideInv, OutcomeInv, IdleShown, WaitingInv
<1>7. ShownIsTheSystem'
   BY DEF TypeOK, BoxInv, OutsideInv, OutcomeInv, IdleShown, WaitingInv, ShownIsTheSystem,
     InterfaceStates
<1> QED
  BY <1>1, <1>2, <1>3, <1>4, <1>5, <1>6, <1>7

LEMMA ReconnectKeeps ==
  ASSUME IInv, NEW names \in SUBSET Interfaces, Reconnect(names)
  PROVE  IInv'
<1> USE BoundsAssumption DEF IInv, Reconnect, Call, Open, Closed, ConnectThem, Connecting, Running, Update, UpdateAll
<1>1. TypeOK'
  <2> USE DEF TypeOK, BoxInv, OutsideInv
  <2>1. shown' \in [Interfaces -> SUBSET Flags]
    BY DEF Flags
  <2>2. listing' \in [Interfaces -> Nat]
    BY DEF Flags
  <2>3. client' \in [Clients -> ClientStates] /\ box' \in Clients \union {NoClient} /\ opening' \subseteq Clients
    BY DEF ClientStates
  <2>4. calls' \in 0..MaxCalls
    OBVIOUS
  <2> QED
    BY <2>1, <2>2, <2>3, <2>4
<1>2. BoxInv'
  BY DEF TypeOK, BoxInv, OutsideInv, OutcomeInv, Unclosed, ClientStates
<1>3. OutsideInv'
  BY DEF OutsideInv, TypeOK
<1>4. OutcomeInv'
  BY DEF TypeOK, BoxInv, OutsideInv, OutcomeInv, Unclosed
<1>5. IdleShown'
  BY DEF TypeOK, OutsideInv, OutcomeInv, IdleShown
<1>6. WaitingInv'
  BY DEF TypeOK, BoxInv, OutsideInv, OutcomeInv, IdleShown, WaitingInv
<1>7. ShownIsTheSystem'
  <2>1. CASE box = NoClient \/ ~ready \/ client[box] = "offline"
    BY <2>1 DEF TypeOK, BoxInv, OutsideInv, OutcomeInv, IdleShown, ShownIsTheSystem
  <2>2. CASE ~(box = NoClient \/ ~ready \/ client[box] = "offline")
    <3>1. \A i \in Interfaces : shown'[i] = IF i \in names \intersect Running
                                            THEN Connecting(shown[i]) ELSE shown[i]
      BY <2>2
    <3> QED
      BY <2>2, <3>1 DEF TypeOK, ShownIsTheSystem, Flags
  <2> QED
    BY <2>1, <2>2
<1> QED
  BY <1>1, <1>2, <1>3, <1>4, <1>5, <1>6, <1>7

LEMMA StopKeeps ==
  ASSUME IInv, Stop
  PROVE  IInv'
<1> USE BoundsAssumption DEF IInv, Stop, CloseBox, Closed, Update, UpdateAll
<1>1. TypeOK'
  BY DEF TypeOK, BoxInv, OutsideInv, Flags, InterfaceStates, ClientStates
<1>2. BoxInv'
  BY DEF TypeOK, BoxInv, OutsideInv, OutcomeInv, Unclosed, ClientStates
<1>3. OutsideInv'
  BY DEF OutsideInv, TypeOK
<1>4. OutcomeInv'
  BY DEF TypeOK, BoxInv, OutsideInv, OutcomeInv, Unclosed
<1>5. IdleShown'
  BY DEF TypeOK, OutsideInv, OutcomeInv, IdleShown
<1>6. WaitingInv'
  BY DEF TypeOK, BoxInv, OutsideInv, OutcomeInv, IdleShown, WaitingInv
<1>7. ShownIsTheSystem'
   BY DEF TypeOK, BoxInv, OutsideInv, OutcomeInv, IdleShown, WaitingInv, ShownIsTheSystem,
     InterfaceStates
<1> QED
  BY <1>1, <1>2, <1>3, <1>4, <1>5, <1>6, <1>7

LEMMA OpenedKeeps ==
  ASSUME IInv, NEW c \in Clients, Opened(c)
  PROVE  IInv'
<1> USE BoundsAssumption DEF IInv, Opened
<1>1. CASE ~IsCurrent(c)
  <2> USE <1>1 DEF Forgotten
  <2>1. TypeOK'
    BY DEF TypeOK, ClientStates
  <2>2. BoxInv' /\ OutsideInv' /\ OutcomeInv'
    BY DEF TypeOK, BoxInv, OutsideInv, OutcomeInv, Unclosed, IsCurrent
  <2>3. IdleShown' /\ WaitingInv' /\ ShownIsTheSystem'
     BY DEF TypeOK, BoxInv, OutsideInv, OutcomeInv, IdleShown, WaitingInv, ShownIsTheSystem,
       IsCurrent
  <2> QED
    BY <2>1, <2>2, <2>3
<1>2. CASE IsCurrent(c)
  <2> DEFINE applied == [i \in Interfaces |-> Applied(shown[i], view[i])]
  <2> USE <1>2
  <2>1. /\ opening' = opening \ {c} /\ ready' = TRUE
        /\ c = box /\ ~stopping
        /\ UNCHANGED <<configured, stopping, idle, box, retry, client, system, process, view,
                       calls, faults>>
    BY DEF IsCurrent
  <2>2. \A i \in Interfaces :
           /\ applied[i] \in SUBSET Flags
           /\ "connected" \in applied[i] <=> view[i] = "running"
           /\ "absent" \in applied[i] <=> view[i] = "missing"
           /\ "idle" \in applied[i] <=> "idle" \in shown[i]
           /\ applied[i] \intersect {"waiting", "reconnecting", "unreachable"} = {}
    BY AppliedShows DEF TypeOK
  <2>3. /\ shown' = [i \in Interfaces |-> IF i \in Running THEN Connecting(applied[i]) ELSE applied[i]]
        /\ listing' = [i \in Interfaces |-> IF i \in Running THEN listing[i] + 1 ELSE listing[i]]
    BY DEF ConnectThem
  <2> HIDE DEF applied
  <2>4. \A i \in Interfaces :
           /\ shown'[i] \in SUBSET Flags
           /\ "connected" \in shown'[i] <=> view[i] = "running"
           /\ "absent" \in shown'[i] <=> view[i] = "missing"
           /\ "idle" \in shown'[i] <=> "idle" \in shown[i]
           /\ shown'[i] \intersect {"waiting", "reconnecting", "unreachable"} = {}
    BY <2>2, <2>3, ConnectingShows DEF Running
  <2>5. TypeOK'
    <3>1. shown' \in [Interfaces -> SUBSET Flags]
      BY <2>3, <2>4
    <3>2. listing' \in [Interfaces -> Nat]
      BY <2>3 DEF TypeOK
    <3> QED
      BY <2>1, <3>1, <3>2 DEF TypeOK
  <2>6. BoxInv' /\ OutsideInv' /\ OutcomeInv'
    BY <2>1, <2>4 DEF TypeOK, BoxInv, OutsideInv, OutcomeInv, Unclosed
  <2>7. IdleShown' /\ WaitingInv' /\ ShownIsTheSystem'
     BY <2>1, <2>4 DEF TypeOK, BoxInv, OutsideInv, OutcomeInv, IdleShown, WaitingInv,
       ShownIsTheSystem
  <2> QED
    BY <2>5, <2>6, <2>7
<1> QED
  BY <1>1, <1>2

LEMMA OpenedForNamesKeeps ==
  ASSUME IInv, NEW c \in Clients, OpenedForNames(c)
  PROVE  IInv'
<1> USE BoundsAssumption DEF IInv, OpenedForNames, IsCurrent, world, Update, UpdateAll
<1>1. TypeOK'
  BY DEF TypeOK, BoxInv, OutsideInv, Flags, InterfaceStates, ClientStates
<1>2. BoxInv'
  BY DEF TypeOK, BoxInv, OutsideInv, OutcomeInv, Unclosed, ClientStates
<1>3. OutsideInv'
  BY DEF OutsideInv, TypeOK
<1>4. OutcomeInv'
  BY DEF TypeOK, BoxInv, OutsideInv, OutcomeInv, Unclosed
<1>5. IdleShown'
  BY DEF TypeOK, OutsideInv, OutcomeInv, IdleShown
<1>6. WaitingInv'
  BY DEF TypeOK, BoxInv, OutsideInv, OutcomeInv, IdleShown, WaitingInv
<1>7. ShownIsTheSystem'
   BY DEF TypeOK, BoxInv, OutsideInv, OutcomeInv, IdleShown, WaitingInv, ShownIsTheSystem,
     InterfaceStates
<1> QED
  BY <1>1, <1>2, <1>3, <1>4, <1>5, <1>6, <1>7

LEMMA OpenFailsKeeps ==
  ASSUME IInv, NEW c \in Clients, OpenFails(c)
  PROVE  IInv'
<1> USE BoundsAssumption DEF IInv, OpenFails, IsCurrent, Forgotten, Update, UpdateAll
<1>1. TypeOK'
  BY DEF TypeOK, BoxInv, OutsideInv, Flags, InterfaceStates, ClientStates
<1>2. BoxInv'
  BY DEF TypeOK, BoxInv, OutsideInv, OutcomeInv, Unclosed, ClientStates
<1>3. OutsideInv'
  BY DEF OutsideInv, TypeOK
<1>4. OutcomeInv'
  BY DEF TypeOK, BoxInv, OutsideInv, OutcomeInv, Unclosed
<1>5. IdleShown'
  BY DEF TypeOK, OutsideInv, OutcomeInv, IdleShown
<1>6. WaitingInv'
  BY DEF TypeOK, BoxInv, OutsideInv, OutcomeInv, IdleShown, WaitingInv
<1>7. ShownIsTheSystem'
   BY DEF TypeOK, BoxInv, OutsideInv, OutcomeInv, IdleShown, WaitingInv, ShownIsTheSystem,
     InterfaceStates
<1> QED
  BY <1>1, <1>2, <1>3, <1>4, <1>5, <1>6, <1>7

LEMMA RetryFiresKeeps ==
  ASSUME IInv, RetryFires
  PROVE  IInv'
<1> USE BoundsAssumption DEF IInv, RetryFires
<1>1. CASE idle
  <2>1. TypeOK'
    BY <1>1 DEF TypeOK
  <2>2. BoxInv' /\ OutsideInv' /\ OutcomeInv'
    BY <1>1 DEF TypeOK, BoxInv, OutsideInv, OutcomeInv, Unclosed
  <2>3. IdleShown' /\ WaitingInv' /\ ShownIsTheSystem'
    BY <1>1 DEF TypeOK, BoxInv, OutsideInv, OutcomeInv, IdleShown, WaitingInv, ShownIsTheSystem
  <2> QED
    BY <2>1, <2>2, <2>3
<1>2. CASE ~idle
  <2>1. PICK c \in Clients :
          /\ Closed[c] = "free" /\ c \notin opening
          /\ client' = [Closed EXCEPT ![c] = "connecting"]
          /\ box' = c /\ ready' = FALSE /\ retry' = FALSE
          /\ opening' = opening \union {c}
          /\ listing' = [i \in Interfaces |-> 0]
    BY <1>2 DEF Open, OutsideInv
  <2>2. /\ UNCHANGED <<configured, stopping, idle, shown, system, process, view, calls, faults>>
        /\ configured /\ retry
    BY DEF OutsideInv
  <2>3. Closed \in [Clients -> ClientStates]
    BY DEF Closed, TypeOK, BoxInv, ClientStates
  <2>4. TypeOK'
    BY <2>1, <2>2, <2>3 DEF TypeOK, ClientStates
  <2>5. BoxInv'
    BY <2>1, <2>2 DEF Closed, TypeOK, BoxInv, Unclosed
  <2>6. OutsideInv' /\ OutcomeInv'
    BY <1>2, <2>1, <2>2, <2>3 DEF OutsideInv, OutcomeInv
  <2>7. IdleShown' /\ WaitingInv' /\ ShownIsTheSystem'
    BY <1>2, <2>1, <2>2 DEF IdleShown, WaitingInv, ShownIsTheSystem
  <2> QED
    BY <2>4, <2>5, <2>6, <2>7
<1> QED
  BY <1>1, <1>2

LEMMA ListedKeeps ==
  ASSUME IInv, NEW i \in Interfaces, Listed(i)
  PROVE  IInv'
<1> USE BoundsAssumption DEF IInv, Listed, world, Update, UpdateAll
<1>1. TypeOK'
  BY DEF TypeOK, BoxInv, OutsideInv, Flags, InterfaceStates, ClientStates
<1>2. BoxInv'
  BY DEF TypeOK, BoxInv, OutsideInv, OutcomeInv, Unclosed, ClientStates
<1>3. OutsideInv'
  BY DEF OutsideInv, TypeOK
<1>4. OutcomeInv'
  BY DEF TypeOK, BoxInv, OutsideInv, OutcomeInv, Unclosed
<1>5. IdleShown'
  BY DEF TypeOK, OutsideInv, OutcomeInv, IdleShown
<1>6. WaitingInv'
  BY DEF TypeOK, BoxInv, OutsideInv, OutcomeInv, IdleShown, WaitingInv
<1>7. ShownIsTheSystem'
   BY DEF TypeOK, BoxInv, OutsideInv, OutcomeInv, IdleShown, WaitingInv, ShownIsTheSystem,
     InterfaceStates
<1> QED
  BY <1>1, <1>2, <1>3, <1>4, <1>5, <1>6, <1>7

LEMMA ClientReadyKeeps ==
  ASSUME IInv, NEW c \in Clients, ClientReady(c)
  PROVE  IInv'
<1> USE BoundsAssumption DEF IInv, ClientReady, own, Update, UpdateAll
<1>1. TypeOK'
  BY DEF TypeOK, BoxInv, OutsideInv, Flags, InterfaceStates, ClientStates
<1>2. BoxInv'
  BY DEF TypeOK, BoxInv, OutsideInv, OutcomeInv, Unclosed, ClientStates
<1>3. OutsideInv'
  BY DEF OutsideInv, TypeOK
<1>4. OutcomeInv'
  BY DEF TypeOK, BoxInv, OutsideInv, OutcomeInv, Unclosed
<1>5. IdleShown'
  BY DEF TypeOK, OutsideInv, OutcomeInv, IdleShown
<1>6. WaitingInv'
  BY DEF TypeOK, BoxInv, OutsideInv, OutcomeInv, IdleShown, WaitingInv
<1>7. ShownIsTheSystem'
  <2>1. ~ready
    BY DEF TypeOK, BoxInv, OutcomeInv, Unclosed
  <2> QED
    BY <2>1 DEF ShownIsTheSystem
<1> QED
  BY <1>1, <1>2, <1>3, <1>4, <1>5, <1>6, <1>7

LEMMA ClientFailsKeeps ==
  ASSUME IInv, NEW c \in Clients, ClientFails(c)
  PROVE  IInv'
<1> USE BoundsAssumption DEF IInv, ClientFails, Fault, own, Update, UpdateAll
<1>1. TypeOK'
  BY DEF TypeOK, BoxInv, OutsideInv, Flags, InterfaceStates, ClientStates
<1>2. BoxInv'
  BY DEF TypeOK, BoxInv, OutsideInv, OutcomeInv, Unclosed, ClientStates
<1>3. OutsideInv'
  BY DEF OutsideInv, TypeOK
<1>4. OutcomeInv'
  BY DEF TypeOK, BoxInv, OutsideInv, OutcomeInv, Unclosed
<1>5. IdleShown'
  BY DEF TypeOK, OutsideInv, OutcomeInv, IdleShown
<1>6. WaitingInv'
  BY DEF TypeOK, BoxInv, OutsideInv, OutcomeInv, IdleShown, WaitingInv
<1>7. ShownIsTheSystem'
   BY DEF TypeOK, BoxInv, OutsideInv, OutcomeInv, IdleShown, WaitingInv, ShownIsTheSystem,
     InterfaceStates
<1> QED
  BY <1>1, <1>2, <1>3, <1>4, <1>5, <1>6, <1>7

LEMMA StreamLostKeeps ==
  ASSUME IInv, NEW c \in Clients, StreamLost(c)
  PROVE  IInv'
<1> USE BoundsAssumption DEF IInv, StreamLost, Fault, Heard, IsCurrent, Update, UpdateAll
<1>1. TypeOK'
  BY DEF TypeOK, BoxInv, OutsideInv, Flags, InterfaceStates, ClientStates
<1>2. BoxInv'
  BY DEF TypeOK, BoxInv, OutsideInv, OutcomeInv, Unclosed, ClientStates
<1>3. OutsideInv'
  BY DEF OutsideInv, TypeOK
<1>4. OutcomeInv'
  BY DEF TypeOK, BoxInv, OutsideInv, OutcomeInv, Unclosed
<1>5. IdleShown'
  BY DEF TypeOK, OutsideInv, OutcomeInv, IdleShown
<1>6. WaitingInv'
  BY DEF TypeOK, BoxInv, OutsideInv, OutcomeInv, IdleShown, WaitingInv
<1>7. ShownIsTheSystem'
   BY DEF TypeOK, BoxInv, OutsideInv, OutcomeInv, IdleShown, WaitingInv, ShownIsTheSystem,
     InterfaceStates
<1> QED
  BY <1>1, <1>2, <1>3, <1>4, <1>5, <1>6, <1>7

LEMMA StreamBackKeeps ==
  ASSUME IInv, NEW c \in Clients, NEW gap \in BOOLEAN, StreamBack(c, gap)
  PROVE  IInv'
<1> USE BoundsAssumption DEF IInv, StreamBack, Heard, IsCurrent, ConnectThem, Connecting, Applied, Update, UpdateAll
<1>1. TypeOK'
  BY DEF TypeOK, BoxInv, OutsideInv, Flags, InterfaceStates, ClientStates
<1>2. BoxInv'
  BY DEF TypeOK, BoxInv, OutsideInv, OutcomeInv, Unclosed, ClientStates
<1>3. OutsideInv'
  BY DEF OutsideInv, TypeOK
<1>4. OutcomeInv'
  BY DEF TypeOK, BoxInv, OutsideInv, OutcomeInv, Unclosed
<1>7. ShownIsTheSystem'
   BY DEF TypeOK, BoxInv, OutsideInv, OutcomeInv, IdleShown, WaitingInv, ShownIsTheSystem,
     InterfaceStates
<1> DEFINE applied == IF ready THEN [i \in Interfaces |-> Applied(shown[i], view'[i])] ELSE shown
<1>a. \A i \in Interfaces :
         /\ shown'[i] = Connecting(applied[i]) \/ shown'[i] = applied[i]
         /\ applied[i] \in SUBSET Flags
         /\ "idle" \in applied[i] <=> "idle" \in shown[i]
         /\ "waiting" \in applied[i] => "waiting" \in shown[i]
  <2>1. \A i \in Interfaces : shown[i] \in SUBSET Flags /\ view'[i] \in InterfaceStates
    BY DEF TypeOK
  <2>2. \A i \in Interfaces : shown'[i] = Connecting(applied[i]) \/ shown'[i] = applied[i]
    BY DEF TypeOK
  <2> QED
    BY <2>1, <2>2, AppliedShows
<1>c. ~idle /\ UNCHANGED <<configured, stopping, idle, box, ready, retry, opening>>
  BY DEF OutsideInv, TypeOK
<1> HIDE DEF applied, StreamBack, Applied, Connecting, ConnectThem, Heard, IsCurrent, Update, UpdateAll
<1>b. ASSUME NEW i \in Interfaces
      PROVE  /\ "idle" \in shown'[i] <=> "idle" \in shown[i]
             /\ "waiting" \in shown'[i] => "waiting" \in shown[i]
  <2>1. /\ "idle" \in Connecting(applied[i]) <=> "idle" \in applied[i]
        /\ "waiting" \notin Connecting(applied[i])
    BY <1>a, ConnectingShows
  <2> QED
    BY <1>a, <2>1
<1>5. IdleShown'
  BY <1>b, <1>c DEF IdleShown
<1>6. WaitingInv'
  BY <1>b, <1>c DEF WaitingInv
<1> QED
  BY <1>1, <1>2, <1>3, <1>4, <1>5, <1>6, <1>7

LEMMA TokenRefusedKeeps ==
  ASSUME IInv, NEW c \in Clients, TokenRefused(c)
  PROVE  IInv'
<1> USE BoundsAssumption DEF IInv, TokenRefused, Heard, IsCurrent, Update, UpdateAll
<1>1. TypeOK'
  BY DEF TypeOK, BoxInv, OutsideInv, Flags, InterfaceStates, ClientStates
<1>2. BoxInv'
  BY DEF TypeOK, BoxInv, OutsideInv, OutcomeInv, Unclosed, ClientStates
<1>3. OutsideInv'
  BY DEF OutsideInv, TypeOK
<1>4. OutcomeInv'
  BY DEF TypeOK, BoxInv, OutsideInv, OutcomeInv, Unclosed
<1>5. IdleShown'
  BY DEF TypeOK, OutsideInv, OutcomeInv, IdleShown
<1>6. WaitingInv'
  BY DEF TypeOK, BoxInv, OutsideInv, OutcomeInv, IdleShown, WaitingInv
<1>7. ShownIsTheSystem'
   BY DEF TypeOK, BoxInv, OutsideInv, OutcomeInv, IdleShown, WaitingInv, ShownIsTheSystem,
     InterfaceStates
<1> QED
  BY <1>1, <1>2, <1>3, <1>4, <1>5, <1>6, <1>7

LEMMA InterfaceEventKeeps ==
  ASSUME IInv, NEW c \in Clients, NEW i \in Interfaces, InterfaceEvent(c, i)
  PROVE  IInv'
<1> USE BoundsAssumption DEF IInv, InterfaceEvent, Fault, Heard, IsCurrent, ProcessIsUp, ProcessIsGone, ConnectThem, Connecting, Update, UpdateAll
<1>1. TypeOK'
  BY DEF TypeOK, BoxInv, OutsideInv, Flags, InterfaceStates, ClientStates
<1>2. BoxInv'
  BY DEF TypeOK, BoxInv, OutsideInv, OutcomeInv, Unclosed, ClientStates
<1>3. OutsideInv'
  BY DEF OutsideInv, TypeOK
<1>4. OutcomeInv'
  BY DEF TypeOK, BoxInv, OutsideInv, OutcomeInv, Unclosed
<1>5. IdleShown'
  BY DEF TypeOK, OutsideInv, OutcomeInv, IdleShown
<1>6. WaitingInv'
  BY DEF TypeOK, BoxInv, OutsideInv, OutcomeInv, IdleShown, WaitingInv
<1>7. ShownIsTheSystem'
   BY DEF TypeOK, BoxInv, OutsideInv, OutcomeInv, IdleShown, WaitingInv, ShownIsTheSystem,
     InterfaceStates
<1> QED
  BY <1>1, <1>2, <1>3, <1>4, <1>5, <1>6, <1>7

LEMMA ValueArrivesKeeps ==
  ASSUME IInv, NEW c \in Clients, NEW i \in Interfaces, ValueArrives(c, i)
  PROVE  IInv'
<1> USE BoundsAssumption DEF IInv, ValueArrives, Heard, IsCurrent, world, Update, UpdateAll
<1>1. TypeOK'
  BY DEF TypeOK, BoxInv, OutsideInv, Flags, InterfaceStates, ClientStates
<1>2. BoxInv'
  BY DEF TypeOK, BoxInv, OutsideInv, OutcomeInv, Unclosed, ClientStates
<1>3. OutsideInv'
  BY DEF OutsideInv, TypeOK
<1>4. OutcomeInv'
  BY DEF TypeOK, BoxInv, OutsideInv, OutcomeInv, Unclosed
<1>5. IdleShown'
  BY DEF TypeOK, OutsideInv, OutcomeInv, IdleShown
<1>6. WaitingInv'
  BY DEF TypeOK, BoxInv, OutsideInv, OutcomeInv, IdleShown, WaitingInv
<1>7. ShownIsTheSystem'
   BY DEF TypeOK, BoxInv, OutsideInv, OutcomeInv, IdleShown, WaitingInv, ShownIsTheSystem,
     InterfaceStates
<1> QED
  BY <1>1, <1>2, <1>3, <1>4, <1>5, <1>6, <1>7

LEMMA SystemChangesKeeps ==
  ASSUME IInv, SystemChanges
  PROVE  IInv'
<1> USE BoundsAssumption DEF IInv, SystemChanges, Fault, own, Update, UpdateAll
<1>1. TypeOK'
  BY DEF TypeOK, BoxInv, OutsideInv, Flags, InterfaceStates, ClientStates
<1>2. BoxInv'
  BY DEF TypeOK, BoxInv, OutsideInv, OutcomeInv, Unclosed, ClientStates
<1>3. OutsideInv'
  BY DEF OutsideInv, TypeOK
<1>4. OutcomeInv'
  BY DEF TypeOK, BoxInv, OutsideInv, OutcomeInv, Unclosed
<1>5. IdleShown'
  BY DEF TypeOK, OutsideInv, OutcomeInv, IdleShown
<1>6. WaitingInv'
  BY DEF TypeOK, BoxInv, OutsideInv, OutcomeInv, IdleShown, WaitingInv
<1>7. ShownIsTheSystem'
   BY DEF TypeOK, BoxInv, OutsideInv, OutcomeInv, IdleShown, WaitingInv, ShownIsTheSystem,
     InterfaceStates
<1> QED
  BY <1>1, <1>2, <1>3, <1>4, <1>5, <1>6, <1>7

LEMMA ProcessChangesKeeps ==
  ASSUME IInv, NEW i \in Interfaces, ProcessChanges(i)
  PROVE  IInv'
<1> USE BoundsAssumption DEF IInv, ProcessChanges, Fault, own, Update, UpdateAll
<1>1. TypeOK'
  BY DEF TypeOK, BoxInv, OutsideInv, Flags, InterfaceStates, ClientStates
<1>2. BoxInv'
  BY DEF TypeOK, BoxInv, OutsideInv, OutcomeInv, Unclosed, ClientStates
<1>3. OutsideInv'
  BY DEF OutsideInv, TypeOK
<1>4. OutcomeInv'
  BY DEF TypeOK, BoxInv, OutsideInv, OutcomeInv, Unclosed
<1>5. IdleShown'
  BY DEF TypeOK, OutsideInv, OutcomeInv, IdleShown
<1>6. WaitingInv'
  BY DEF TypeOK, BoxInv, OutsideInv, OutcomeInv, IdleShown, WaitingInv
<1>7. ShownIsTheSystem'
   BY DEF TypeOK, BoxInv, OutsideInv, OutcomeInv, IdleShown, WaitingInv, ShownIsTheSystem,
     InterfaceStates
<1> QED
  BY <1>1, <1>2, <1>3, <1>4, <1>5, <1>6, <1>7

-----------------------------------------------------------------------------
(* What init and every step keep.                                          *)
LEMMA InitKept == Init => IInv
<1> SUFFICES ASSUME Init
             PROVE  IInv
  OBVIOUS
<1> USE BoundsAssumption DEF Init
<1>1. TypeOK
  <2>1. shown \in [Interfaces -> SUBSET Flags]
    OBVIOUS
  <2>2. listing \in [Interfaces -> Nat] /\ client \in [Clients -> ClientStates]
    BY DEF ClientStates
  <2>3. calls \in 0..MaxCalls /\ faults \in 0..MaxFaults
    OBVIOUS
  <2> QED
    BY <2>1, <2>2, <2>3 DEF TypeOK
<1>2. BoxInv /\ OutsideInv /\ OutcomeInv
  BY DEF BoxInv, OutsideInv, OutcomeInv, Unclosed
<1>3. IdleShown /\ WaitingInv /\ ShownIsTheSystem
  BY DEF IdleShown, WaitingInv, ShownIsTheSystem
<1> QED
  BY <1>1, <1>2, <1>3 DEF IInv

LEMMA StepKept == IInv /\ [Next]_vars => IInv'
<1> SUFFICES ASSUME IInv, [Next]_vars
             PROVE  IInv'
  OBVIOUS
<1>1. CASE Start \/ Unsubscribe \/ Subscribe \/ Stop
  BY <1>1, StartKeeps, UnsubscribeKeeps, SubscribeKeeps, StopKeeps
<1>2. CASE \E names \in {Interfaces} \union {{i} : i \in Interfaces} : Reconnect(names)
  BY <1>2, ReconnectKeeps
<1>3. CASE RetryFires \/ SystemChanges
  BY <1>3, RetryFiresKeeps, SystemChangesKeeps
<1>4. ASSUME NEW c \in Clients, Continues(c)  PROVE IInv'
  BY <1>4, OpenedKeeps, OpenedForNamesKeeps, OpenFailsKeeps DEF Continues
<1>5. ASSUME NEW c \in Clients, Reports(c)  PROVE IInv'
  BY <1>5, ClientReadyKeeps, ClientFailsKeeps, TokenRefusedKeeps, StreamBackKeeps,
     InterfaceEventKeeps DEF Reports
<1>6. ASSUME NEW c \in Clients, StreamLost(c)  PROVE IInv'
  BY <1>6, StreamLostKeeps
<1>7. ASSUME NEW i \in Interfaces, Listed(i) \/ ProcessChanges(i)  PROVE IInv'
  BY <1>7, ListedKeeps, ProcessChangesKeeps
<1>8. ASSUME NEW c \in Clients, NEW i \in Interfaces, ValueArrives(c, i)  PROVE IInv'
  BY <1>8, ValueArrivesKeeps
<1>9. CASE UNCHANGED vars
  BY <1>9 DEF vars, own, world, IInv, TypeOK, BoxInv, OutsideInv, OutcomeInv, IdleShown,
              WaitingInv, ShownIsTheSystem
<1> QED
  BY <1>1, <1>2, <1>3, <1>4, <1>5, <1>6, <1>7, <1>8, <1>9 DEF Next

(* The types of the connection and of the system's clients.                *)
THEOREM TypeCorrect == Spec => []TypeOK
<1>1. IInv => TypeOK
  BY DEF IInv
<1> QED
  BY <1>1, InitKept, StepKept, PTL DEF Spec

(* #open(), unsubscribe(), stop(): however many clients overlap, only the  *)
(* one in use is not closed, and an idle or stopped connection has none.   *)
THEOREM NeverTwoStreams == Spec => []OneStream
<1>1. IInv => OneStream
  BY DEF IInv, TypeOK, BoxInv, OutsideInv, IdleShown, OneStream, Unclosed, ClientStates
<1> QED
  BY <1>1, InitKept, StepKept, PTL DEF Spec

(* #noteFailure(): a retry is armed for a client that failed and for no    *)
(* other, and what is shown as waiting is tried.                           *)
THEOREM OnlyFailuresAreRetried == Spec => []RetriesWhatFailed
<1>1. IInv => RetriesWhatFailed
  BY DEF IInv, OutcomeInv, WaitingInv, RetriesWhatFailed
<1> QED
  BY <1>1, InitKept, StepKept, PTL DEF Spec

(* #applyInterfaces(), #onStatus(), #onInterface(): what is shown while    *)
(* the stream is up is what it last said.                                  *)
THEOREM StatesFollowTheStream == Spec => []ShownIsTheSystem
<1>1. IInv => ShownIsTheSystem
  BY DEF IInv
<1> QED
  BY <1>1, InitKept, StepKept, PTL DEF Spec
-----------------------------------------------------------------------------
(* A connection that is wanted has a client, and that client is awaited,   *)
(* is up, will be tried again, or had its token refused for good.          *)
WantedIsPursued ==
    configured /\ ~idle =>
        /\ box # NoClient
        /\ box \in opening \/ ready \/ retry \/ client[box] = "refused"

(* A new client is opened, and awaited.                                    *)
LEMMA OpenPursues ==
    ASSUME IInv, Open, ~stopping', ~idle'
    PROVE  box' # NoClient /\ box' \in opening'
  BY BoundsAssumption DEF Open

LEMMA PursuedStep ==
    ASSUME IInv, WantedIsPursued, [Next]_vars
    PROVE  WantedIsPursued'
<1>0. /\ NoClient \notin Clients /\ opening \subseteq Clients
      /\ client \in [Clients -> ClientStates] /\ box \in Clients \union {NoClient}
      /\ stopping => ~configured
  BY BoundsAssumption DEF IInv, TypeOK, OutsideInv
<1>1. CASE Start \/ Subscribe
  <2>1. idle' \/ (Open /\ ~stopping')
    BY <1>0, <1>1 DEF Start, Subscribe, Call
  <2> QED
    BY <2>1, OpenPursues DEF WantedIsPursued
<1>2. CASE Unsubscribe \/ Stop
  BY <1>2 DEF Unsubscribe, Stop, WantedIsPursued
<1>3. ASSUME NEW names, Reconnect(names) PROVE WantedIsPursued'
  <2>1. UNCHANGED <<configured, stopping, idle>> /\ configured
    BY <1>3 DEF Reconnect, Call
  <2>2. \/ idle
        \/ Open
        \/ UNCHANGED <<box, ready, retry, opening, client>>
    BY <1>3 DEF Reconnect
  <2> QED
    BY <1>0, <2>1, <2>2, OpenPursues DEF WantedIsPursued
<1>4. CASE RetryFires
  <2>1. UNCHANGED <<configured, stopping, idle>> /\ (idle \/ Open)
    BY <1>4 DEF RetryFires
  <2> QED
    BY <1>0, <2>1, OpenPursues DEF WantedIsPursued
<1>5. ASSUME NEW c \in Clients, Continues(c) PROVE WantedIsPursued'
  <2>1. CASE IsCurrent(c)
    <3>1. c = box /\ UNCHANGED <<configured, idle, box>> /\ c \in opening
      BY <1>5, <2>1 DEF Continues, IsCurrent, Opened, OpenedForNames, OpenFails
    <3>2. CASE Opened(c) \/ OpenedForNames(c)
      <4>1. ready' /\ box' # NoClient
        BY <1>0, <2>1, <3>1, <3>2 DEF Opened, OpenedForNames
      <4> QED
        BY <4>1 DEF WantedIsPursued
    <3>3. CASE OpenFails(c)
      <4>1. client' = client /\ retry' = (client[c] # "refused") /\ box' # NoClient
        BY <1>0, <2>1, <3>1, <3>3 DEF OpenFails
      <4> QED
        BY <3>1, <4>1 DEF WantedIsPursued
    <3> QED
      BY <1>5, <3>2, <3>3 DEF Continues
  <2>2. CASE ~IsCurrent(c)
    <3>1. Forgotten(c)
      BY <1>5, <2>2 DEF Continues, Opened, OpenedForNames, OpenFails
    <3>2. configured => c # box
      BY <1>0, <2>2 DEF IsCurrent
    <3>3. /\ opening' = opening \ {c} /\ UNCHANGED <<configured, idle, box, ready, retry>>
          /\ \A d \in Clients : d # c => client'[d] = client[d]
      BY <1>0, <3>1 DEF Forgotten
    <3> QED
      BY <1>0, <3>2, <3>3 DEF WantedIsPursued
  <2> QED
    BY <2>1, <2>2
<1>6. ASSUME NEW c \in Clients, Reports(c) \/ StreamLost(c) PROVE WantedIsPursued'
  <2>1. /\ UNCHANGED <<configured, idle, box, ready, retry, opening>>
        /\ client' = client \/ \E is : client' = [client EXCEPT ![c] = is] /\ client[c] # "refused"
    BY <1>6 DEF Reports, ClientReady, ClientFails, TokenRefused, StreamBack, InterfaceEvent,
                StreamLost, own
  <2>2. box # NoClient /\ client[box] = "refused" => client'[box] = "refused"
    BY <1>0, <2>1
  <2> QED
    BY <2>1, <2>2 DEF WantedIsPursued
<1>7. CASE \/ \E i \in Interfaces : Listed(i) \/ ProcessChanges(i)
           \/ \E c \in Clients, i \in Interfaces : ValueArrives(c, i)
           \/ SystemChanges \/ UNCHANGED vars
  <2>1. UNCHANGED <<configured, idle, box, ready, retry, opening, client>>
    BY <1>7 DEF Listed, ProcessChanges, ValueArrives, SystemChanges, vars, own, world
  <2> QED
    BY <2>1 DEF WantedIsPursued
<1> QED
  BY <1>1, <1>2, <1>3, <1>4, <1>5, <1>6, <1>7 DEF Next

(* #open(), #noteFailure(), subscribe(), reconnect(): in whatever order    *)
(* the clients, the timer and the calls come, a connection that is wanted  *)
(* is never left without a client that is up or on its way, or a retry -   *)
(* unless the token was refused, which is not tried again.                 *)
THEOREM WantedIsNeverLeft == Spec => []WantedIsPursued
<1>1. Init => WantedIsPursued
  BY DEF Init, WantedIsPursued
<1>2. IInv /\ WantedIsPursued /\ [Next]_vars => WantedIsPursued'
  BY PursuedStep
<1> QED
  BY <1>1, <1>2, InitKept, StepKept, PTL DEF Spec
=============================================================================
