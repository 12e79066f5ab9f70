-------------------------- MODULE CacheStoreProofs --------------------------
(***************************************************************************)
(* What CacheStore keeps for every set of devices and every budget: the    *)
(* list follows the callbacks, and no outage is lost from the counter but  *)
(* one that a reset() may mask.                                            *)
(***************************************************************************)
EXTENDS CacheStore, SequenceTheorems, TLAPS

Call == DeviceCall \union EventCall

(* The callbacks about a device, and what the last one of them says.       *)
Names(s, k, d) == s[k].call # "event" /\ s[k].of = d
About(s, d) == \E k \in DOMAIN s : Names(s, k, d)
IsLast(s, k, d) == Names(s, k, d) /\ \A j \in DOMAIN s : j > k => ~Names(s, j, d)

(* The last callback about each device tells whether it is in a set.       *)
EndsIn(s, set) ==
    \A d \in Devices : \A k \in DOMAIN s :
        IsLast(s, k, d) => (s[k].call = "newDevices" <=> d \in set)

(* Two sets agree on the devices that no callback is about and that are    *)
(* not in a third.                                                         *)
AgreeBut(s, one, other, but) ==
    \A d \in Devices \ but : ~About(s, d) => (d \in one <=> d \in other)

ReadsInv ==
    \A r \in Reads :
        /\ reads[r].of = "none" => reads[r].answer = {} /\ ~reads[r].given
        /\ reads[r].of = "devices" => reads[r].answer \subseteq Devices
        /\ reads[r].of = "messages" => reads[r].answer \subseteq Datapoints

(* Nothing is on its way to a backend that is off.                         *)
OffInv == ~running => calls = <<>> /\ \A r \in Reads : reads[r].of = "none"

(* The callbacks on their way lead from the list, and from an answer, to   *)
(* what the interface has - but on the devices of the callbacks that came  *)
(* after the answer was given.                                             *)
ListInv ==
    /\ EndsIn(calls, paired)
    /\ running => AgreeBut(calls, devices, paired, doubtful)
    /\ \A r \in Reads :
          reads[r].of = "devices" /\ reads[r].given =>
              AgreeBut(calls, reads[r].answer, paired, reads[r].late)

(* The counter is ahead of the UNREACH events, and by one more while it    *)
(* takes the device for away and they do not: their next edge is counted.  *)
(* What a reset() masked counts as if it had been counted.                 *)
Masked(r) == IF r.masked THEN 1 ELSE 0

Behind(r, e) ==
    /\ r.count <= e.count + Masked(r)
    /\ r.unreach => e.unreach
    /\ e.unreach /\ ~r.unreach => r.count < e.count + Masked(r)

CountInv == Behind(reported, entry) /\ Behind(file.reported, file.entry)

IInv == TypeOK /\ ReadsInv /\ OffInv /\ ListInv /\ CountInv

-----------------------------------------------------------------------------
(* Sequences of callbacks: one is added at the end, the first is taken.    *)

LEMMA KindsOfCalls ==
    /\ \A x \in DeviceCall : x.call # "event" /\ x.of \in Devices
    /\ \A x \in EventCall : x.call = "event" /\ x.of \in Datapoints /\ x.value \in BOOLEAN
  BY DEF DeviceCall, EventCall

LEMMA EventsAdded ==
    ASSUME NEW s \in Seq(Call), NEW t \in Seq(EventCall)
    PROVE  /\ s \o t \in Seq(Call)
           /\ \A d : About(s \o t, d) <=> About(s, d)
           /\ \A set : EndsIn(s, set) => EndsIn(s \o t, set)
<1>1. t \in Seq(Call)
  BY SeqMonotonic DEF Call
<1>2. /\ s \o t \in Seq(Call)
      /\ Len(s \o t) = Len(s) + Len(t)
      /\ \A i \in 1 .. Len(s) + Len(t) : (s \o t)[i] =
              IF i <= Len(s) THEN s[i] ELSE t[i - Len(s)]
  BY <1>1, ConcatProperties
<1>3. /\ Len(s) \in Nat /\ Len(t) \in Nat
      /\ DOMAIN s = 1..Len(s) /\ DOMAIN (s \o t) = 1..(Len(s) + Len(t))
      /\ \A i \in 1..Len(t) : t[i].call = "event"
  BY <1>2, LenProperties, ElementOfSeq, KindsOfCalls
<1>4. \A d : \A k \in DOMAIN s : Names(s \o t, k, d) <=> Names(s, k, d)
  BY <1>2, <1>3 DEF Names
<1>5. \A d : \A k \in DOMAIN (s \o t) : k > Len(s) => ~Names(s \o t, k, d)
  BY <1>2, <1>3 DEF Names
<1>6. \A d : About(s \o t, d) <=> About(s, d)
  BY <1>3, <1>4, <1>5 DEF About
<1>7. ASSUME NEW set, EndsIn(s, set), NEW d \in Devices, NEW k \in DOMAIN (s \o t),
             IsLast(s \o t, k, d)
      PROVE  (s \o t)[k].call = "newDevices" <=> d \in set
  <2>1. k \in DOMAIN s /\ (s \o t)[k] = s[k]
    BY <1>2, <1>3, <1>5, <1>7 DEF IsLast
  <2>2. IsLast(s, k, d)
    BY <2>1, <1>3, <1>4, <1>7 DEF IsLast
  <2> QED
    BY <2>1, <2>2, <1>7 DEF EndsIn
<1> QED
  BY <1>2, <1>6, <1>7 DEF EndsIn

LEMMA DeviceCallAdded ==
    ASSUME NEW s \in Seq(Call), NEW x \in DeviceCall
    PROVE  /\ s \o <<x>> \in Seq(Call)
           /\ \A d : About(s \o <<x>>, d) <=> About(s, d) \/ d = x.of
           /\ \A set, later :
                 /\ EndsIn(s, set)
                 /\ \A d \in Devices : d # x.of => (d \in later <=> d \in set)
                 /\ x.call = "newDevices" <=> x.of \in later
                 => EndsIn(s \o <<x>>, later)
<1> DEFINE t == s \o <<x>>
<1>1. <<x>> \in Seq(Call) /\ Len(<<x>>) = 1 /\ <<x>>[1] = x
  BY DEF Call
<1>2. /\ t \in Seq(Call)
      /\ Len(t) = Len(s) + 1
      /\ \A i \in 1 .. Len(s) + 1 : t[i] = IF i <= Len(s) THEN s[i] ELSE <<x>>[i - Len(s)]
  BY <1>1, ConcatProperties
<1>3. /\ Len(s) \in Nat /\ DOMAIN s = 1..Len(s) /\ DOMAIN t = 1..(Len(s) + 1)
  BY <1>2, LenProperties
<1>4. /\ \A i \in DOMAIN s : t[i] = s[i]
      /\ t[Len(s) + 1] = x
  BY <1>1, <1>2, <1>3
<1> HIDE DEF t
<1>5. /\ \A d : \A k \in DOMAIN s : Names(t, k, d) <=> Names(s, k, d)
      /\ \A d : Names(t, Len(s) + 1, d) <=> d = x.of
  BY <1>4, KindsOfCalls DEF Names
<1>6. \A d : About(t, d) <=> About(s, d) \/ d = x.of
  BY <1>3, <1>5 DEF About
<1>7. ASSUME NEW set, NEW later, EndsIn(s, set),
             \A d \in Devices : d # x.of => (d \in later <=> d \in set),
             x.call = "newDevices" <=> x.of \in later,
             NEW d \in Devices, NEW k \in DOMAIN t, IsLast(t, k, d)
      PROVE  t[k].call = "newDevices" <=> d \in later
  <2>1. CASE k = Len(s) + 1
    BY <2>1, <1>4, <1>5, <1>7 DEF IsLast
  <2>2. CASE k # Len(s) + 1
    <3>1. k \in DOMAIN s /\ t[k] = s[k] /\ d # x.of
      BY <2>2, <1>3, <1>4, <1>5, <1>7 DEF IsLast
    <3>2. IsLast(s, k, d)
      BY <3>1, <1>3, <1>5, <1>7 DEF IsLast
    <3> QED
      BY <3>1, <3>2, <1>7 DEF EndsIn
  <2> QED
    BY <2>1, <2>2
<1> QED
  BY <1>2, <1>6, <1>7 DEF EndsIn, t

LEMMA FirstTaken ==
    ASSUME NEW s \in Seq(Call), s # <<>>
    PROVE  /\ Head(s) \in Call /\ Tail(s) \in Seq(Call)
           /\ \A d : About(s, d) <=> About(Tail(s), d) \/ (Head(s).call # "event" /\ d = Head(s).of)
           /\ \A set : EndsIn(s, set) =>
                 /\ EndsIn(Tail(s), set)
                 /\ Head(s).call # "event" /\ Head(s).of \in Devices /\ ~About(Tail(s), Head(s).of)
                       => (Head(s).call = "newDevices" <=> Head(s).of \in set)
<1> DEFINE t == Tail(s)
<1>1. /\ Head(s) \in Call /\ t \in Seq(Call)
      /\ Len(t) = Len(s) - 1 /\ \A i \in 1..Len(t) : t[i] = s[i + 1]
      /\ Head(s) = s[1]
  BY HeadTailProperties
<1>2. Len(s) \in Nat \ {0} /\ DOMAIN s = 1..Len(s) /\ DOMAIN t = 1..(Len(s) - 1)
  BY <1>1, EmptySeq, LenProperties
<1> HIDE DEF t
<1>3. \A d : \A k \in DOMAIN t : k + 1 \in DOMAIN s /\ (Names(t, k, d) <=> Names(s, k + 1, d))
  BY <1>1, <1>2 DEF Names
<1>4. \A d : \A k \in DOMAIN s : k # 1 => k - 1 \in DOMAIN t /\ (Names(t, k - 1, d) <=> Names(s, k, d))
  BY <1>1, <1>2 DEF Names
<1>5. \A d : Names(s, 1, d) <=> Head(s).call # "event" /\ d = Head(s).of
  BY <1>1 DEF Names
<1>6. ASSUME NEW d
      PROVE  About(s, d) <=> About(t, d) \/ Names(s, 1, d)
  <2>1. 1 \in DOMAIN s
    BY <1>2
  <2> QED
    BY <2>1, <1>3, <1>4 DEF About
<1>7. ASSUME NEW set, EndsIn(s, set), NEW d \in Devices, NEW k \in DOMAIN t, IsLast(t, k, d)
      PROVE  t[k].call = "newDevices" <=> d \in set
  <2>1. k + 1 \in DOMAIN s /\ t[k] = s[k + 1]
    BY <1>1, <1>2
  <2>2. ASSUME NEW j \in DOMAIN s, j > k + 1
        PROVE  ~Names(s, j, d)
    <3>1. j - 1 \in DOMAIN t /\ j - 1 > k
      BY <2>2, <1>2
    <3> QED
      BY <3>1, <1>4, <1>7, <2>2, <1>2 DEF IsLast
  <2>3. IsLast(s, k + 1, d)
    BY <2>1, <2>2, <1>3, <1>7 DEF IsLast
  <2> QED
    BY <2>1, <2>3, <1>7 DEF EndsIn
<1>8. ASSUME NEW set, EndsIn(s, set), Head(s).call # "event", Head(s).of \in Devices,
             ~About(t, Head(s).of)
      PROVE  Head(s).call = "newDevices" <=> Head(s).of \in set
  <2>1. IsLast(s, 1, Head(s).of)
    BY <1>2, <1>4, <1>5, <1>8 DEF IsLast, About
  <2> QED
    BY <2>1, <1>1, <1>2, <1>8 DEF EndsIn
<1> QED
  BY <1>1, <1>5, <1>6, <1>7, <1>8 DEF EndsIn, t

-----------------------------------------------------------------------------
(* What each operator gives.                                               *)

ReadRecords == [of : {"none", "devices", "messages"}, given : BOOLEAN,
                answer : SUBSET (Devices \union Datapoints), late : SUBSET Devices]

LEMMA NoReadType == NoRead \in ReadRecords
  BY DEF NoRead, ReadRecords

LEMMA EventType ==
    ASSUME NEW d \in Datapoints, NEW value \in BOOLEAN
    PROVE  Event(d, value) \in EventCall
  BY DEF Event, EventCall

LEMMA EventsAreSequences ==
    ASSUME NEW x \in EventCall, NEW y \in EventCall
    PROVE  /\ <<x>> \in Seq(EventCall)
           /\ <<x, y>> \in Seq(EventCall)
           /\ <<x, x, y>> \in Seq(EventCall)
  OBVIOUS

LEMMA BoundsCounted ==
    ASSUME NEW b \in Bounds
    PROVE  /\ b.changes > 0 => [b EXCEPT !.changes = @ - 1] \in Bounds
           /\ b.outages > 0 => [b EXCEPT !.outages = @ - 1] \in Bounds
           /\ b.restarts > 0 => [b EXCEPT !.restarts = @ - 1] \in Bounds
<1>1. ASSUME b.changes > 0
      PROVE  [b EXCEPT !.changes = @ - 1] \in Bounds
  BY <1>1 DEF Bounds
<1>2. ASSUME b.outages > 0
      PROVE  [b EXCEPT !.outages = @ - 1] \in Bounds
  BY <1>2 DEF Bounds
<1>3. ASSUME b.restarts > 0
      PROVE  [b EXCEPT !.restarts = @ - 1] \in Bounds
  <2>1. b.restarts - 1 \in Nat
    BY <1>3 DEF Bounds
  <2>2. \A n \in Nat : [b EXCEPT !.restarts = n] \in Bounds
    BY DEF Bounds
  <2> QED
    BY <2>1, <2>2
<1> QED
  BY <1>1, <1>2, <1>3

LEMMA NoteType ==
    ASSUME NEW e \in Entry, NEW d, NEW value \in BOOLEAN
    PROVE  Note(e, d, value) \in Entry
  BY DEF Note, Entry

LEMMA ToldType ==
    ASSUME NEW r \in Reported, NEW value \in BOOLEAN
    PROVE  Told(r, value) \in Reported
<1>1. (IF value /\ ~r.unreach THEN r.count + 1 ELSE r.count) \in Nat
  BY DEF Reported
<1>2. \A n \in Nat : [r EXCEPT !.count = n, !.unreach = value] \in Reported
  BY DEF Reported
<1> QED
  BY <1>1, <1>2 DEF Told

LEMMA NoteUnreachType ==
    ASSUME TypeOK, NEW d, NEW value \in BOOLEAN, NoteUnreach(d, value)
    PROVE  entry' \in Entry /\ acks' \in [sent : Nat, taken : Nat]
<1>1. [acks EXCEPT !.sent = @ + 1] \in [sent : Nat, taken : Nat]
  BY DEF TypeOK
<1> QED
  BY <1>1, NoteType DEF NoteUnreach, TypeOK

LEMMA NoteListedType ==
    ASSUME TypeOK, NEW listed, NoteListed(listed)
    PROVE  entry' \in Entry /\ acks' \in [sent : Nat, taken : Nat]
  BY NoteUnreachType DEF NoteListed, TypeOK

(* An answer that is there is late on the device of a callback.            *)
LEMMA MadeLate ==
    ASSUME NEW x \in ReadRecords, NEW d \in Devices
    PROVE  LET y == IF x.given THEN [x EXCEPT !.late = @ \union {d}] ELSE x IN
           /\ y \in ReadRecords
           /\ y.of = x.of /\ y.answer = x.answer /\ y.given = x.given
           /\ x.given => y.late = x.late \union {d}
  BY DEF ReadRecords

(* Telling of events leaves what the callbacks lead to.                    *)
LEMMA EventsTold ==
    ASSUME TypeOK, NEW t \in Seq(EventCall), Tell(t)
    PROVE  /\ calls' \in Seq(Call)
           /\ \A d : About(calls', d) <=> About(calls, d)
           /\ \A set : EndsIn(calls, set) => EndsIn(calls', set)
<1>1. calls \in Seq(Call)
  BY DEF TypeOK, Call
<1> QED
  BY <1>1, EventsAdded DEF Tell

(* An UNREACH event makes both sides of the counter alike; an event or a   *)
(* message of either kind leaves it ahead.                                 *)
LEMMA EventCounts ==
    ASSUME NEW r \in Reported, NEW e \in Entry, NEW value \in BOOLEAN, Behind(r, e)
    PROVE  /\ Behind(Told(r, value), Note(e, "UNREACH", value))
           /\ Behind(r, Note(e, "STICKY_UNREACH", value))
           /\ value => \A d : Behind(r, Note(e, d, value))
<1>1. /\ r.count \in Nat /\ e.count \in Nat
      /\ r.unreach \in BOOLEAN /\ e.unreach \in BOOLEAN
      /\ e = [count |-> e.count, unreach |-> e.unreach]
      /\ Masked(r) \in Nat
  BY DEF Entry, Reported, Masked
<1>2. /\ value /\ ~r.unreach => Told(r, value).count = r.count + 1
      /\ ~value \/ r.unreach => Told(r, value).count = r.count
      /\ Told(r, value).unreach <=> value
      /\ Masked(Told(r, value)) = Masked(r)
  BY DEF Told, Reported, Masked
<1>3. ASSUME NEW d
      PROVE  /\ value => /\ Note(e, d, value).unreach
                         /\ e.unreach => Note(e, d, value).count = e.count
                         /\ ~e.unreach => Note(e, d, value).count = e.count + 1
             /\ ~value => /\ Note(e, d, value).count = e.count
                          /\ Note(e, d, value).unreach <=> e.unreach /\ d # "UNREACH"
  <2>1. CASE value
    BY <2>1, <1>1 DEF Note
  <2>2. CASE ~value
    BY <2>2, <1>1 DEF Note
  <2> QED
    BY <2>1, <2>2
<1>4. Behind(Told(r, value), Note(e, "UNREACH", value))
  <2>1. CASE value
    <3>1. Told(r, value).unreach /\ Note(e, "UNREACH", value).unreach
      BY <2>1, <1>2, <1>3
    <3>2. Told(r, value).count <= Note(e, "UNREACH", value).count + Masked(r)
      <4>1. CASE r.unreach
        BY <4>1, <2>1, <1>1, <1>2, <1>3 DEF Behind
      <4>2. CASE ~r.unreach /\ e.unreach
        <5>1. r.count < e.count + Masked(r)
          BY <4>2 DEF Behind
        <5>2. Told(r, value).count = r.count + 1 /\ Note(e, "UNREACH", value).count = e.count
          BY <4>2, <2>1, <1>2, <1>3
        <5> QED
          BY <5>1, <5>2, <1>1
      <4>3. CASE ~r.unreach /\ ~e.unreach
        <5>1. r.count <= e.count + Masked(r)
          BY DEF Behind
        <5>2. Told(r, value).count = r.count + 1 /\ Note(e, "UNREACH", value).count = e.count + 1
          BY <4>3, <2>1, <1>2, <1>3
        <5> QED
          BY <5>1, <5>2, <1>1
      <4> QED
        BY <4>1, <4>2, <4>3
    <3> QED
      BY <3>1, <3>2, <1>2 DEF Behind
  <2>2. CASE ~value
    BY <2>2, <1>1, <1>2, <1>3 DEF Behind
  <2> QED
    BY <2>1, <2>2
<1>5. ASSUME value, NEW d
      PROVE  Behind(r, Note(e, d, value))
  <2>1. Note(e, d, value).unreach
    BY <1>3, <1>5
  <2>2. CASE e.unreach
    <3>1. Note(e, d, value).count = e.count
      BY <2>2, <1>3, <1>5
    <3> QED
      BY <2>1, <2>2, <3>1 DEF Behind
  <2>3. CASE ~e.unreach
    <3>1. Note(e, d, value).count = e.count + 1
      BY <2>3, <1>3, <1>5
    <3>2. r.count <= e.count + Masked(r)
      BY DEF Behind
    <3>3. r.count < Note(e, d, value).count + Masked(r)
      BY <3>1, <3>2, <1>1
    <3>4. r.count <= Note(e, d, value).count + Masked(r)
      BY <3>1, <3>2, <1>1
    <3> QED
      BY <2>1, <3>3, <3>4 DEF Behind
  <2> QED
    BY <2>2, <2>3
<1>6. Behind(r, Note(e, "STICKY_UNREACH", value))
  <2>1. CASE ~value
    BY <2>1, <1>1, <1>3 DEF Behind
  <2> QED
    BY <2>1, <1>5
<1> QED
  BY <1>4, <1>5, <1>6

-----------------------------------------------------------------------------
(* Every step keeps the types.                                             *)

LEMMA InitInv == Init => IInv
<1> SUFFICES ASSUME Init PROVE IInv
  OBVIOUS
<1> USE DEF Init
<1>1. /\ [count |-> 0, unreach |-> FALSE] \in Entry
      /\ [count |-> 0, unreach |-> FALSE, masked |-> FALSE] \in Reported
  BY DEF Entry, Reported
<1>2. left \in Bounds
  BY BudgetsAssumption
<1>3. calls \in Seq(DeviceCall \union EventCall) /\ DOMAIN calls = {}
  OBVIOUS
<1>4. reads \in [Reads -> ReadRecords]
  BY NoReadType
<1>5. TypeOK
  BY <1>1, <1>2, <1>3, <1>4 DEF TypeOK, ReadRecords
<1>6. ReadsInv /\ OffInv
  BY DEF ReadsInv, OffInv, NoRead
<1>7. ListInv
  BY <1>3 DEF ListInv, EndsIn, AgreeBut, NoRead
<1>8. CountInv
  BY DEF CountInv, Behind, Masked
<1> QED
  BY <1>5, <1>6, <1>7, <1>8 DEF IInv

LEMMA TypeStep ==
    ASSUME IInv, [Next]_vars
    PROVE  TypeOK'
<1> USE DEF TypeOK
<1>0. TypeOK
  BY DEF IInv
<1>a. /\ calls \in Seq(Call)
      /\ reads \in [Reads -> ReadRecords]
      /\ IF running THEN TRUE ELSE calls = <<>>
  BY <1>0 DEF IInv, OffInv, Call, ReadRecords
<1>b. ASSUME NEW t \in Seq(EventCall), Tell(t)
      PROVE  calls' \in Seq(DeviceCall \union EventCall)
  BY <1>b, <1>0, EventsTold DEF Call
<1>c. ASSUME NEW t \in DeviceCall, Tell(<<t>>)
      PROVE  calls' \in Seq(DeviceCall \union EventCall)
  BY <1>c, <1>a, DeviceCallAdded DEF Tell, Call
<1>d. /\ left.changes > 0 => [left EXCEPT !.changes = @ - 1] \in Bounds
      /\ left.outages > 0 => [left EXCEPT !.outages = @ - 1] \in Bounds
      /\ left.restarts > 0 => [left EXCEPT !.restarts = @ - 1] \in Bounds
  BY <1>0, BoundsCounted
<1>g. [sent |-> 0, taken |-> 0] \in [sent : Nat, taken : Nat]
  OBVIOUS
<1>1. ASSUME NEW d \in Devices, Pair(d) PROVE TypeOK'
  <2>1. [call |-> "newDevices", of |-> d] \in DeviceCall
    BY DEF DeviceCall
  <2> QED
    BY <2>1, <1>0, <1>1, <1>c, <1>d DEF Pair, caches, history
<1>2. ASSUME NEW d \in Devices, Unpair(d) PROVE TypeOK'
  <2>1. [call |-> "deleteDevices", of |-> d] \in DeviceCall
    BY DEF DeviceCall
  <2> QED
    BY <2>1, <1>0, <1>2, <1>c, <1>d DEF Unpair, caches, history
<1>3. ASSUME GoesAway PROVE TypeOK'
  <2>1. Event("UNREACH", TRUE) \in EventCall /\ Event("STICKY_UNREACH", TRUE) \in EventCall
    BY EventType DEF Datapoints
  <2>2. calls' \in Seq(DeviceCall \union EventCall)
    <3> DEFINE u == Event("UNREACH", TRUE)
               s == Event("STICKY_UNREACH", TRUE)
    <3>1. <<u, u, s>> \in Seq(EventCall) /\ <<s, u>> \in Seq(EventCall)
      BY <2>1, EventsAreSequences
    <3>2. Tell(<<u, u, s>>) \/ Tell(<<s, u>>)
      BY <1>3 DEF GoesAway
    <3> QED
      BY <3>1, <3>2, <1>b
  <2> QED
    BY <2>2, <1>0, <1>3, <1>d DEF GoesAway, caches, history
<1>4. ASSUME ComesBack PROVE TypeOK'
  <2>1. <<Event("UNREACH", FALSE)>> \in Seq(EventCall)
    BY EventType, EventsAreSequences DEF Datapoints
  <2> QED
    BY <2>1, <1>0, <1>4, <1>b DEF ComesBack, caches, history
<1>5. ASSUME NEW r \in Reads, Answer(r) PROVE TypeOK'
  <2>1. reads' \in [Reads -> ReadRecords]
    <3>1. (IF reads[r].of = "devices" THEN paired ELSE Flags) \subseteq Devices \union Datapoints
      BY <1>0 DEF Flags
    <3>2. [of |-> reads[r].of, given |-> TRUE, late |-> {},
           answer |-> IF reads[r].of = "devices" THEN paired ELSE Flags] \in ReadRecords
      BY <3>1, <1>a DEF ReadRecords
    <3> QED
      BY <3>2, <1>a, <1>5 DEF Answer
  <2> QED
    BY <2>1, <1>0, <1>5 DEF Answer, interface, history, ReadRecords
<1>6. ASSUME TakeAck PROVE TypeOK'
  <2>1. <<Event("STICKY_UNREACH", FALSE)>> \in Seq(EventCall)
    BY EventType, EventsAreSequences DEF Datapoints
  <2>2. /\ [sent |-> acks.sent - 1, taken |-> acks.taken + 1] \in [sent : Nat, taken : Nat]
        /\ [acks EXCEPT !.sent = @ - 1] \in [sent : Nat, taken : Nat]
    BY <1>0, <1>6 DEF TakeAck
  <2>3. calls' \in Seq(DeviceCall \union EventCall) /\ sticky' \in BOOLEAN
    BY <2>1, <1>0, <1>6, <1>b DEF TakeAck
  <2>4. acks' \in [sent : Nat, taken : Nat]
    BY <2>2, <1>6 DEF TakeAck
  <2> QED
    BY <2>3, <2>4, <1>0, <1>6 DEF TakeAck, history
<1>7. ASSUME Callback PROVE TypeOK'
  <2>1. Head(calls) \in Call /\ calls' \in Seq(DeviceCall \union EventCall)
    BY <1>7, <1>a, FirstTaken DEF Callback, Call
  <2>2. CASE Head(calls).call = "event"
    <3>1. Head(calls).of \in Datapoints /\ Head(calls).value \in BOOLEAN
      BY <2>1, <2>2, KindsOfCalls DEF Call
    <3>2. /\ NoteUnreach(Head(calls).of, Head(calls).value)
          /\ reported' = IF Head(calls).of = "UNREACH" THEN Told(reported, Head(calls).value)
                         ELSE reported
          /\ messages' = IF Head(calls).value THEN messages \union {Head(calls).of}
                         ELSE messages \ {Head(calls).of}
          /\ UNCHANGED <<reads, devices, doubtful>>
      BY <2>2, <1>7 DEF Callback
    <3>3. entry' \in Entry /\ acks' \in [sent : Nat, taken : Nat]
      BY <3>1, <3>2, <1>0, NoteUnreachType
    <3>4. reported' \in Reported /\ messages' \subseteq Datapoints
      BY <3>1, <3>2, <1>0, ToldType
    <3> QED
      BY <2>1, <3>2, <3>3, <3>4, <1>0, <1>7 DEF Callback
  <2>3. CASE Head(calls).call # "event"
    <3>1. Head(calls).of \in Devices
      BY <2>1, <2>3, KindsOfCalls DEF Call
    <3>2. reads' \in [Reads -> ReadRecords]
      <4>1. \A r \in Reads : (IF reads[r].given
                               THEN [reads[r] EXCEPT !.late = @ \union {Head(calls).of}]
                               ELSE reads[r]) \in ReadRecords
        BY <1>a, <3>1, MadeLate
      <4> QED
        BY <4>1, <2>3, <1>7 DEF Callback
    <3>3. devices' \subseteq Devices /\ doubtful' \subseteq Devices
      BY <2>3, <3>1, <1>0, <1>7 DEF Callback
    <3> QED
      BY <2>1, <2>3, <3>2, <3>3, <1>0, <1>7 DEF Callback, ReadRecords
  <2> QED
    BY <2>2, <2>3
<1>8. ASSUME NEW r \in Reads, NEW of \in {"devices", "messages"}, Read(r, of) PROVE TypeOK'
  <2>1. reads' \in [Reads -> ReadRecords]
    BY <1>8, <1>a DEF Read, ReadRecords
  <2> QED
    BY <2>1, <1>0, <1>8 DEF Read, interface, history, ReadRecords
<1>9. ASSUME NEW r \in Reads, ReplaceDevices(r) PROVE TypeOK'
  <2>1. reads' \in [Reads -> ReadRecords]
    BY <1>9, <1>a, NoReadType DEF ReplaceDevices
  <2>2. devices' \subseteq Devices /\ doubtful' \subseteq Devices
    BY <1>9, <1>a DEF ReplaceDevices, IInv, ReadsInv, ReadRecords
  <2> QED
    BY <2>1, <2>2, <1>0, <1>9 DEF ReplaceDevices, interface, ReadRecords
<1>10. ASSUME NEW r \in Reads, ReplaceMessages(r) PROVE TypeOK'
  <2>1. reads' \in [Reads -> ReadRecords]
    BY <1>10, <1>a, NoReadType DEF ReplaceMessages
  <2>2. messages' \subseteq Datapoints
    BY <1>10, <1>a DEF ReplaceMessages, IInv, ReadsInv
  <2>3. entry' \in Entry /\ acks' \in [sent : Nat, taken : Nat]
    BY <1>10, <1>0, NoteListedType DEF ReplaceMessages
  <2> QED
    BY <2>1, <2>2, <2>3, <1>0, <1>10 DEF ReplaceMessages, interface, history, ReadRecords
<1>11. ASSUME Acknowledge PROVE TypeOK'
  <2>1. [acks EXCEPT !.sent = 1] \in [sent : Nat, taken : Nat]
    BY <1>0
  <2> QED
    BY <2>1, <1>0, <1>11 DEF Acknowledge, interface, history
<1>12. ASSUME Acknowledged PROVE TypeOK'
  <2>1. [acks EXCEPT !.taken = @ - 1] \in [sent : Nat, taken : Nat]
    BY <1>0, <1>12 DEF Acknowledged
  <2> QED
    BY <2>1, <1>0, <1>12 DEF Acknowledged, interface, history
<1>13. ASSUME ResetUnreach PROVE TypeOK'
  <2>1. entry' \in Entry /\ reported' \in Reported
    BY <1>0, <1>13 DEF ResetUnreach, Entry, Reported
  <2> QED
    BY <2>1, <1>0, <1>13 DEF ResetUnreach, interface
<1>14. ASSUME Write PROVE TypeOK'
  BY <1>0, <1>14 DEF Write, interface, history
<1>15. ASSUME End PROVE TypeOK'
  <2>1. reads' \in [Reads -> ReadRecords]
    BY <1>15, NoReadType DEF End
  <2>2. calls' \in Seq(DeviceCall \union EventCall)
    BY <1>15 DEF End
  <2>3. file' \in [devices : SUBSET Devices, entry : Entry, reported : Reported]
    BY <1>0, <1>15 DEF End, Current
  <2> QED
    BY <2>1, <2>2, <2>3, <1>0, <1>15, <1>d, <1>g DEF End, history, ReadRecords
<1>16. ASSUME Load PROVE TypeOK'
  BY <1>0, <1>16 DEF Load, interface
<1>17. CASE UNCHANGED vars
  BY <1>0, <1>17 DEF vars, interface, caches, history
<1> QED
  BY <1>1, <1>2, <1>3, <1>4, <1>5, <1>6, <1>7, <1>8, <1>9, <1>10, <1>11, <1>12, <1>13,
     <1>14, <1>15, <1>16, <1>17 DEF Next, ReadStep

-----------------------------------------------------------------------------
(* Reads hold what they are of, and a backend that is off has none.        *)

LEMMA ReadsStep ==
    ASSUME IInv, [Next]_vars
    PROVE  ReadsInv' /\ OffInv'
<1>a. /\ TypeOK /\ ReadsInv /\ OffInv
      /\ reads \in [Reads -> ReadRecords]
      /\ calls = <<>> => ~Callback
  BY DEF IInv, TypeOK, ReadRecords, Callback
<1> USE DEF ReadsInv, OffInv
<1>1. CASE \E d \in Devices : Pair(d) \/ Unpair(d)
  BY <1>a, <1>1 DEF Pair, Unpair, Tell, caches
<1>2. CASE GoesAway \/ ComesBack
  BY <1>a, <1>2 DEF GoesAway, ComesBack, Tell, caches
<1>3. ASSUME NEW r \in Reads, Answer(r) PROVE ReadsInv' /\ OffInv'
  <2>1. reads' = [reads EXCEPT ![r] =
                    [of |-> reads[r].of, given |-> TRUE, late |-> {},
                     answer |-> IF reads[r].of = "devices" THEN paired ELSE Flags]]
    BY <1>3 DEF Answer
  <2>2. reads'[r].of = reads[r].of /\ reads[r].of # "none"
        /\ reads'[r].answer = IF reads[r].of = "devices" THEN paired ELSE Flags
    BY <1>a, <1>3, <2>1 DEF Answer
  <2>3. \A q \in Reads : q # r => reads'[q] = reads[q]
    BY <1>a, <2>1
  <2>4. paired \subseteq Devices /\ Flags \subseteq Datapoints
    BY <1>a DEF TypeOK, Flags
  <2>5. running /\ running'
    BY <1>a, <1>3 DEF Answer, NoRead
  <2> QED
    BY <1>a, <2>2, <2>3, <2>4, <2>5
<1>4. CASE TakeAck
  BY <1>a, <1>4 DEF TakeAck, Tell
<1>5. CASE Callback
  <2>1. running /\ running' = running
    BY <1>a, <1>5 DEF Callback
  <2>2. ASSUME NEW r \in Reads
        PROVE  /\ reads'[r].of = reads[r].of /\ reads'[r].answer = reads[r].answer
               /\ ~reads[r].given => ~reads'[r].given
    <3>1. CASE Head(calls).call = "event"
      BY <3>1, <1>5 DEF Callback
    <3>2. CASE Head(calls).call # "event"
      <4>1. reads'[r] = IF reads[r].given
                        THEN [reads[r] EXCEPT !.late = @ \union {Head(calls).of}] ELSE reads[r]
        BY <3>2, <1>5 DEF Callback
      <4> QED
        BY <4>1, <1>a DEF ReadRecords
    <3> QED
      BY <3>1, <3>2
  <2> QED
    BY <1>a, <2>1, <2>2
<1>6. ASSUME NEW r \in Reads, NEW of \in {"devices", "messages"}, Read(r, of)
      PROVE ReadsInv' /\ OffInv'
  <2>1. running /\ running' /\ reads[r].answer = {} /\ ~reads[r].given
    BY <1>a, <1>6 DEF Read
  <2>2. reads'[r].of = of /\ reads'[r].answer = {} /\ ~reads'[r].given
    BY <1>a, <1>6, <2>1 DEF Read, ReadRecords
  <2>3. \A q \in Reads : q # r => reads'[q] = reads[q]
    BY <1>a, <1>6 DEF Read
  <2> QED
    BY <1>a, <2>1, <2>2, <2>3
<1>7. ASSUME NEW r \in Reads, ReplaceDevices(r) \/ ReplaceMessages(r)
      PROVE ReadsInv' /\ OffInv'
  <2>1. reads' = [reads EXCEPT ![r] = NoRead] /\ running' = running /\ calls' = calls
    BY <1>7 DEF ReplaceDevices, ReplaceMessages, interface
  <2> QED
    BY <1>a, <2>1 DEF NoRead
<1>8. CASE Acknowledge \/ Acknowledged \/ ResetUnreach \/ Write
  BY <1>a, <1>8 DEF Acknowledge, Acknowledged, ResetUnreach, Write, interface
<1>9. CASE End
  BY <1>9 DEF End, NoRead
<1>10. CASE Load
  BY <1>a, <1>10 DEF Load
<1>11. CASE UNCHANGED vars
  BY <1>a, <1>11 DEF vars, interface, caches
<1> QED
  BY <1>1, <1>2, <1>3, <1>4, <1>5, <1>6, <1>7, <1>8, <1>9, <1>10, <1>11 DEF Next, ReadStep

-----------------------------------------------------------------------------
(* What the callbacks on their way lead to.                                *)

LEMMA ListStep ==
    ASSUME IInv, [Next]_vars
    PROVE  ListInv'
<1>a. /\ TypeOK /\ OffInv /\ ListInv
      /\ reads \in [Reads -> ReadRecords]
      /\ calls \in Seq(Call)
  BY DEF IInv, TypeOK, ReadRecords, Call
<1>b. ASSUME NEW t \in Seq(EventCall), Tell(t), UNCHANGED <<running, paired, reads, devices, doubtful>>
      PROVE  ListInv'
  <2>1. EndsIn(calls', paired')
    BY <1>a, <1>b, EventsTold DEF ListInv
  <2>2. \A one, but : AgreeBut(calls, one, paired, but) => AgreeBut(calls', one, paired', but)
    BY <1>a, <1>b, EventsTold DEF AgreeBut
  <2> QED
    BY <1>a, <1>b, <2>1, <2>2 DEF ListInv
<1>c. ASSUME UNCHANGED <<running, paired, calls, reads, devices, doubtful>>
      PROVE  ListInv'
  BY <1>a, <1>c DEF ListInv
<1>d. ASSUME NEW x \in DeviceCall, Tell(<<x>>), UNCHANGED <<running, reads, devices, doubtful>>,
             \A d \in Devices : d # x.of => (d \in paired' <=> d \in paired),
             x.call = "newDevices" <=> x.of \in paired'
      PROVE  ListInv'
  <2>1. CASE running
    <3>1. calls' = calls \o <<x>>
      BY <1>d, <2>1 DEF Tell
    <3>2. EndsIn(calls', paired')
      BY <1>a, <1>d, <3>1, DeviceCallAdded DEF ListInv
    <3>3. ASSUME NEW one, NEW but, AgreeBut(calls, one, paired, but)
          PROVE  AgreeBut(calls', one, paired', but)
      BY <1>a, <1>d, <3>1, <3>3, DeviceCallAdded DEF AgreeBut
    <3> QED
      BY <1>a, <1>d, <3>2, <3>3 DEF ListInv
  <2>2. CASE ~running
    <3>1. calls' = <<>> /\ \A r \in Reads : reads'[r].of = "none"
      BY <1>a, <1>d, <2>2 DEF Tell, OffInv
    <3>2. EndsIn(calls', paired')
      BY <3>1 DEF EndsIn
    <3> QED
      BY <1>d, <2>2, <3>1, <3>2 DEF ListInv
  <2> QED
    BY <2>1, <2>2
<1>1. ASSUME NEW d \in Devices, Pair(d) PROVE ListInv'
  <2> DEFINE x == [call |-> "newDevices", of |-> d]
  <2>1. x \in DeviceCall /\ x.of = d /\ x.call = "newDevices"
    BY DEF DeviceCall
  <2>2. Tell(<<x>>) /\ paired' = paired \union {d}
        /\ UNCHANGED <<running, reads, devices, doubtful>>
    BY <1>1 DEF Pair, caches, history
  <2> HIDE DEF x
  <2> QED
    BY <2>1, <2>2, <1>d
<1>2. ASSUME NEW d \in Devices, Unpair(d) PROVE ListInv'
  <2> DEFINE x == [call |-> "deleteDevices", of |-> d]
  <2>1. x \in DeviceCall /\ x.of = d /\ x.call # "newDevices"
    BY DEF DeviceCall
  <2>2. Tell(<<x>>) /\ paired' = paired \ {d}
        /\ UNCHANGED <<running, reads, devices, doubtful>>
    BY <1>2 DEF Unpair, caches, history
  <2> HIDE DEF x
  <2> QED
    BY <2>1, <2>2, <1>d
<1>3. ASSUME GoesAway PROVE ListInv'
  <2> DEFINE u == Event("UNREACH", TRUE)
             s == Event("STICKY_UNREACH", TRUE)
  <2>1. <<u, u, s>> \in Seq(EventCall) /\ <<s, u>> \in Seq(EventCall)
    BY EventType, EventsAreSequences DEF Datapoints
  <2>2. Tell(<<u, u, s>>) \/ Tell(<<s, u>>)
    BY <1>3 DEF GoesAway
  <2>3. UNCHANGED <<running, paired, reads, devices, doubtful>>
    BY <1>3 DEF GoesAway, caches
  <2> HIDE DEF u, s
  <2> QED
    BY <2>1, <2>2, <2>3, <1>b
<1>4. ASSUME ComesBack PROVE ListInv'
  <2>1. <<Event("UNREACH", FALSE)>> \in Seq(EventCall)
    BY EventType, EventsAreSequences DEF Datapoints
  <2> QED
    BY <2>1, <1>4, <1>b DEF ComesBack, caches, history
<1>5. ASSUME NEW r \in Reads, Answer(r) PROVE ListInv'
  <2>1. /\ UNCHANGED <<running, paired, calls, devices, doubtful>>
        /\ reads'[r].of = reads[r].of
        /\ reads[r].of = "devices" => reads'[r].answer = paired
        /\ \A q \in Reads : q # r => reads'[q] = reads[q]
    BY <1>a, <1>5 DEF Answer, interface, history
  <2>2. \A but : AgreeBut(calls, paired, paired, but)
    BY DEF AgreeBut
  <2> QED
    BY <1>a, <2>1, <2>2 DEF ListInv
<1>6. ASSUME TakeAck PROVE ListInv'
  <2>1. <<Event("STICKY_UNREACH", FALSE)>> \in Seq(EventCall)
    BY EventType, EventsAreSequences DEF Datapoints
  <2>2. UNCHANGED <<running, paired, reads, devices, doubtful>>
    BY <1>6 DEF TakeAck, history
  <2>3. Tell(<<Event("STICKY_UNREACH", FALSE)>>) \/ calls' = calls
    BY <1>6 DEF TakeAck
  <2> QED
    BY <2>1, <2>2, <2>3, <1>b, <1>c
<1>7. ASSUME Callback PROVE ListInv'
  <2>1. /\ calls # <<>> /\ calls' = Tail(calls) /\ running
        /\ UNCHANGED <<running, paired>>
    BY <1>a, <1>7 DEF Callback, OffInv
  <2>2. EndsIn(calls', paired')
    BY <1>a, <2>1, FirstTaken DEF ListInv
  <2>3. CASE Head(calls).call = "event"
    <3>1. UNCHANGED <<reads, devices, doubtful>>
      BY <1>7, <2>3 DEF Callback
    <3>2. \A d : About(calls', d) <=> About(calls, d)
      BY <1>a, <2>1, <2>3, FirstTaken
    <3>3. \A one, but : AgreeBut(calls, one, paired, but) => AgreeBut(calls', one, paired', but)
      BY <2>1, <3>2 DEF AgreeBut
    <3> QED
      BY <1>a, <2>1, <2>2, <3>1, <3>3 DEF ListInv
  <2>4. CASE Head(calls).call # "event"
    <3> DEFINE c == Head(calls)
    <3>1. c \in Call /\ c.of \in Devices
      BY <1>a, <2>1, <2>4, FirstTaken, KindsOfCalls DEF Call
    <3>2. /\ devices' = IF c.call = "newDevices" THEN devices \union {c.of} ELSE devices \ {c.of}
          /\ doubtful' = doubtful \ {c.of}
      BY <1>7, <2>4 DEF Callback
    <3>3. \A d : About(calls, d) <=> About(calls', d) \/ d = c.of
      BY <1>a, <2>1, <2>4, FirstTaken
    <3>4. ~About(calls', c.of) => (c.call = "newDevices" <=> c.of \in paired)
      BY <1>a, <2>1, <2>4, <3>1, FirstTaken DEF ListInv
    <3>5. ASSUME AgreeBut(calls, devices, paired, doubtful)
          PROVE  AgreeBut(calls', devices', paired', doubtful')
      <4> SUFFICES ASSUME NEW d \in Devices \ doubtful', ~About(calls', d)
                   PROVE  d \in devices' <=> d \in paired'
        BY DEF AgreeBut
      <4>1. CASE d = c.of
        BY <4>1, <2>1, <3>2, <3>4
      <4>2. CASE d # c.of
        BY <4>2, <2>1, <3>2, <3>3, <3>5 DEF AgreeBut
      <4> QED
        BY <4>1, <4>2
    <3>6. ASSUME NEW r \in Reads, reads'[r].of = "devices", reads'[r].given
          PROVE  AgreeBut(calls', reads'[r].answer, paired', reads'[r].late)
      <4>1. reads'[r] = IF reads[r].given THEN [reads[r] EXCEPT !.late = @ \union {c.of}]
                        ELSE reads[r]
        BY <1>7, <2>4 DEF Callback
      <4>2. /\ reads[r].of = "devices" /\ reads[r].given /\ reads'[r].answer = reads[r].answer
            /\ reads'[r].late = reads[r].late \union {c.of}
        BY <4>1, <1>a, <3>1, <3>6, MadeLate
      <4>3. AgreeBut(calls, reads[r].answer, paired, reads[r].late)
        BY <1>a, <4>2 DEF ListInv
      <4> QED
        BY <2>1, <3>3, <4>2, <4>3 DEF AgreeBut
    <3> HIDE DEF c
    <3> QED
      BY <1>a, <2>1, <2>2, <3>5, <3>6 DEF ListInv
  <2> QED
    BY <2>3, <2>4
<1>8. ASSUME NEW r \in Reads, NEW of \in {"devices", "messages"}, Read(r, of) PROVE ListInv'
  <2>1. /\ UNCHANGED <<running, paired, calls, devices, doubtful>>
        /\ \A q \in Reads : q # r => reads'[q] = reads[q]
    BY <1>a, <1>8 DEF Read, interface, history
  <2>2. ~reads'[r].given
    <3>1. ~reads[r].given
      BY <1>8 DEF Read, IInv, ReadsInv
    <3> QED
      BY <3>1, <1>8, <1>a DEF Read, ReadRecords
  <2> QED
    BY <1>a, <2>1, <2>2 DEF ListInv
<1>9. ASSUME NEW r \in Reads, ReplaceDevices(r) PROVE ListInv'
  <2>1. /\ UNCHANGED <<running, paired, calls>>
        /\ reads[r].of = "devices" /\ reads[r].given
        /\ devices' = reads[r].answer /\ doubtful' = reads[r].late
        /\ reads' = [reads EXCEPT ![r] = NoRead]
    BY <1>9 DEF ReplaceDevices, interface
  <2>2. AgreeBut(calls', devices', paired', doubtful')
    BY <1>a, <2>1 DEF ListInv
  <2>3. \A q \in Reads : reads'[q] = reads[q] \/ ~reads'[q].given
    BY <1>a, <2>1 DEF NoRead
  <2> QED
    BY <1>a, <2>1, <2>2, <2>3 DEF ListInv
<1>10. ASSUME NEW r \in Reads, ReplaceMessages(r) PROVE ListInv'
  <2>1. /\ UNCHANGED <<running, paired, calls, devices, doubtful>>
        /\ reads' = [reads EXCEPT ![r] = NoRead]
    BY <1>10 DEF ReplaceMessages, interface, history
  <2>2. \A q \in Reads : reads'[q] = reads[q] \/ ~reads'[q].given
    BY <1>a, <2>1 DEF NoRead
  <2> QED
    BY <1>a, <2>1, <2>2 DEF ListInv
<1>11. ASSUME Acknowledge \/ Acknowledged \/ ResetUnreach \/ Write PROVE ListInv'
  BY <1>c, <1>11 DEF Acknowledge, Acknowledged, ResetUnreach, Write, interface, history
<1>12. ASSUME End PROVE ListInv'
  <2>1. calls' = <<>> /\ ~running' /\ \A r \in Reads : ~reads'[r].given
    BY <1>12 DEF End, NoRead
  <2> QED
    BY <2>1 DEF ListInv, EndsIn
<1>13. ASSUME Load PROVE ListInv'
  <2>1. /\ doubtful' = Devices /\ UNCHANGED <<paired, calls, reads>>
    BY <1>13 DEF Load, interface
  <2>2. AgreeBut(calls', devices', paired', doubtful')
    BY <2>1 DEF AgreeBut
  <2> QED
    BY <1>a, <2>1, <2>2 DEF ListInv
<1>14. CASE UNCHANGED vars
  BY <1>c, <1>14 DEF vars, interface, caches, history
<1> QED
  BY <1>1, <1>2, <1>3, <1>4, <1>5, <1>6, <1>7, <1>8, <1>9, <1>10, <1>11, <1>12, <1>13,
     <1>14 DEF Next, ReadStep

-----------------------------------------------------------------------------
(* The counter and the events.                                             *)

LEMMA CountStep ==
    ASSUME IInv, [Next]_vars
    PROVE  CountInv'
<1>a. /\ TypeOK /\ ReadsInv
      /\ entry \in Entry /\ reported \in Reported
      /\ file \in [devices : SUBSET Devices, entry : Entry, reported : Reported]
      /\ Behind(reported, entry) /\ Behind(file.reported, file.entry)
  BY DEF IInv, TypeOK, CountInv
<1>b. ASSUME UNCHANGED <<entry, reported, file>>
      PROVE  CountInv'
  BY <1>a, <1>b DEF CountInv
<1>1. CASE \E d \in Devices : Pair(d) \/ Unpair(d)
  BY <1>b, <1>1 DEF Pair, Unpair, caches, history
<1>2. CASE GoesAway \/ ComesBack \/ TakeAck
  BY <1>b, <1>2 DEF GoesAway, ComesBack, TakeAck, caches, history
<1>3. CASE \E r \in Reads : Answer(r) \/ Read(r, "devices") \/ Read(r, "messages")
  BY <1>b, <1>3 DEF Answer, Read, history
<1>4. ASSUME Callback PROVE CountInv'
  <2>1. file' = file
    BY <1>4 DEF Callback
  <2>2. CASE Head(calls).call = "event"
    <3> DEFINE d == Head(calls).of
               value == Head(calls).value
    <3>1. d \in Datapoints /\ value \in BOOLEAN
      <4>1. Head(calls) \in Call
        BY <1>a, <1>4, FirstTaken DEF TypeOK, Call, Callback
      <4> QED
        BY <4>1, <2>2, KindsOfCalls DEF Call
    <3>2. /\ entry' = Note(entry, d, value)
          /\ reported' = IF d = "UNREACH" THEN Told(reported, value) ELSE reported
      BY <1>4, <2>2 DEF Callback, NoteUnreach
    <3> HIDE DEF d, value
    <3>3. Behind(reported', entry')
      BY <1>a, <3>1, <3>2, EventCounts DEF Datapoints
    <3> QED
      BY <1>a, <2>1, <3>3 DEF CountInv
  <2>3. CASE Head(calls).call # "event"
    BY <1>b, <1>4, <2>3 DEF Callback
  <2> QED
    BY <2>2, <2>3
<1>5. ASSUME NEW r \in Reads, ReplaceDevices(r) PROVE CountInv'
  BY <1>b, <1>5 DEF ReplaceDevices
<1>6. ASSUME NEW r \in Reads, ReplaceMessages(r) PROVE CountInv'
  <2>1. /\ NoteListed(reads[r].answer) /\ UNCHANGED <<reported, file>>
    BY <1>6 DEF ReplaceMessages, history
  <2>2. entry' = entry \/ \E d \in reads[r].answer : entry' = Note(entry, d, TRUE)
    BY <2>1 DEF NoteListed, NoteUnreach
  <2>3. Behind(reported', entry')
    <3>1. CASE entry' = entry
      BY <1>a, <2>1, <3>1
    <3>2. CASE \E d \in reads[r].answer : entry' = Note(entry, d, TRUE)
      BY <1>a, <2>1, <3>2, EventCounts
    <3> QED
      BY <2>2, <3>1, <3>2
  <2> QED
    BY <1>a, <2>1, <2>3 DEF CountInv
<1>7. CASE Acknowledge \/ Acknowledged
  BY <1>b, <1>7 DEF Acknowledge, Acknowledged, history
<1>8. ASSUME ResetUnreach PROVE CountInv'
  <2>1. /\ entry'.count = 0 /\ entry'.unreach = entry.unreach
        /\ reported'.count = 0 /\ reported'.unreach = reported.unreach
        /\ reported'.masked = (entry.unreach /\ ~reported.unreach) /\ file' = file
    BY <1>a, <1>8 DEF ResetUnreach, Entry, Reported
  <2>2. reported.unreach => entry.unreach
    BY <1>a DEF Behind
  <2>3. Masked(reported') \in Nat
    BY DEF Masked
  <2>4. entry'.unreach /\ ~reported'.unreach => Masked(reported') = 1
    BY <2>1 DEF Masked
  <2>5. reported'.count <= entry'.count + Masked(reported')
    BY <2>1, <2>3
  <2>6. entry'.unreach /\ ~reported'.unreach => reported'.count < entry'.count + Masked(reported')
    BY <2>1, <2>4
  <2>7. reported'.unreach => entry'.unreach
    BY <2>1, <2>2
  <2> QED
    BY <1>a, <2>1, <2>5, <2>6, <2>7 DEF CountInv, Behind
<1>9. ASSUME Write PROVE CountInv'
  <2>1. UNCHANGED <<entry, reported>>
    BY <1>9 DEF Write, history
  <2>2. \/ file'.entry = entry /\ file'.reported = reported
        \/ file'.entry = file.entry /\ file'.reported = file.reported
    BY <1>a, <1>9 DEF Write
  <2> QED
    BY <1>a, <2>1, <2>2 DEF CountInv
<1>10. ASSUME End PROVE CountInv'
  <2>1. UNCHANGED <<entry, reported>>
    BY <1>10 DEF End, history
  <2>2. \/ file'.entry = entry /\ file'.reported = reported
        \/ file' = file
    BY <1>10 DEF End, Current
  <2> QED
    BY <1>a, <2>1, <2>2 DEF CountInv
<1>11. CASE Load
  BY <1>a, <1>11 DEF Load, CountInv
<1>12. CASE UNCHANGED vars
  BY <1>b, <1>12 DEF vars, caches, history
<1> QED
  BY <1>1, <1>2, <1>3, <1>4, <1>5, <1>6, <1>7, <1>8, <1>9, <1>10, <1>11, <1>12 DEF Next, ReadStep

-----------------------------------------------------------------------------
LEMMA Invariant == Spec => []IInv
<1>1. IInv /\ [Next]_vars => IInv'
  BY TypeStep, ReadsStep, ListStep, CountStep DEF IInv
<1> QED
  BY InitInv, <1>1, PTL DEF Spec

(* Every cache, file and callback keeps its type.                          *)
THEOREM TypeCorrect == Spec => []TypeOK
<1>1. IInv => TypeOK
  BY DEF IInv
<1> QED
  BY Invariant, <1>1, PTL

(* When every callback of the interface has arrived, the device list is    *)
(* what the interface has, but on the devices that a callback named        *)
(* between an answer and its being applied (#refreshDevices()).            *)
THEOREM ListFollowsTheInterface == Spec => []ListIsTheInterface
<1>1. IInv => ListIsTheInterface
  <2> SUFFICES ASSUME IInv, running, calls = <<>>, NEW d \in Devices \ doubtful
               PROVE  d \in devices <=> d \in paired
    BY DEF ListIsTheInterface
  <2>1. AgreeBut(calls, devices, paired, doubtful) /\ ~About(calls, d)
    BY DEF IInv, ListInv, About
  <2> QED
    BY <2>1 DEF AgreeBut
<1> QED
  BY Invariant, <1>1, PTL

(* The outage counter is not behind the UNREACH events, over restarts,     *)
(* polls and acknowledgements, and behind by one after a reset() that      *)
(* found the flag set and UNREACH not (UnreachCache.note(), reset()).      *)
THEOREM OutagesAreCounted == Spec => []EveryOutageCounts
<1>1. IInv => EveryOutageCounts
  BY DEF IInv, CountInv, Behind, Masked, EveryOutageCounts
<1> QED
  BY Invariant, <1>1, PTL
=============================================================================
