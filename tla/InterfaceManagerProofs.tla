----------------------- MODULE InterfaceManagerProofs -----------------------
(***************************************************************************)
(* What InterfaceManager keeps for every set of interfaces, protocols and  *)
(* addresses and for every bound.                                          *)
(***************************************************************************)
EXTENDS InterfaceManager, TLAPS

Urls == Addresses \union {NoAddress}
AttemptRecords == [stage : Stages, url : Urls]

(* An init that was sent names an address.                                 *)
SentNamesUrl ==
    \A i \in Interfaces, c \in Callers :
        At(i, c, "sent") => attempt[i][c].url # NoAddress

-----------------------------------------------------------------------------
(* Each step on an interface's state leaves it a state.                    *)

LEMMA ArmLivenessType ==
    ASSUME NEW i, NEW e \in Entries
    PROVE  ArmLiveness(i, e) \in Entries
  BY DEF ArmLiveness, Entries, LivenessTimers

LEMMA NoteNoCallbackServerType ==
    ASSUME NEW e \in Entries
    PROVE  NoteNoCallbackServer(e) \in Entries
  BY DEF NoteNoCallbackServer, Entries

LEMMA NoteWaitingType ==
    ASSUME NEW e \in Entries, stopping \in BOOLEAN, idle \in BOOLEAN
    PROVE  NoteWaiting(e) \in Entries
  BY ZenonT(40) DEF NoteWaiting, Entries

LEMMA NoteInitFailureType ==
    ASSUME NEW e \in Entries, NEW failure, stopping \in BOOLEAN, idle \in BOOLEAN
    PROVE  NoteInitFailure(e, failure) \in Entries
<1>1. [e EXCEPT !.failing = TRUE, !.reconnecting = FALSE, !.backoff = TRUE,
                !.connected = FALSE, !.absent = (failure = "refused"),
                !.subscribing = FALSE, !.waiting = FALSE] \in Entries
  BY DEF Entries
<1> QED
  BY <1>1, NoteWaitingType DEF NoteInitFailure

LEMMA NoteSubscribedType ==
    ASSUME NEW i, NEW e \in Entries
    PROVE  NoteSubscribed(i, e) \in Entries
<1>1. [e EXCEPT !.silence = "fresh", !.heard = FALSE, !.failing = FALSE,
                !.backoff = FALSE, !.answered = TRUE, !.reconnecting = FALSE,
                !.connected = TRUE, !.absent = FALSE, !.subscribing = TRUE,
                !.waiting = FALSE] \in Entries
  BY DEF Entries, Silences
<1> QED
  BY <1>1, ArmLivenessType DEF NoteSubscribed

LEMMA NoteUnsubscribedType ==
    ASSUME NEW e \in Entries
    PROVE  NoteUnsubscribed(e) \in Entries
<1>1. (e.failing /\ e.absent) \in BOOLEAN
  BY DEF Entries
<1>2. \A b \in BOOLEAN :
         [e EXCEPT !.retryTimer = FALSE, !.liveness = "off", !.reconnecting = FALSE,
                   !.silence = "silent", !.failing = b,
                   !.backoff = FALSE, !.answered = FALSE, !.connected = FALSE,
                   !.idle = TRUE, !.subscribing = FALSE, !.waiting = FALSE] \in Entries
  BY DEF Entries, Silences, LivenessTimers
<1> QED
  BY <1>1, <1>2 DEF NoteUnsubscribed

LEMMA NoteEventType ==
    ASSUME NEW i, NEW e \in Entries, NEW kind
    PROVE  NoteEvent(i, e, kind) \in Entries
<1> DEFINE seen == [e EXCEPT !.silence = "fresh", !.connected = TRUE]
<1>1. seen \in Entries
  BY DEF Entries, Silences
<1>2. [seen EXCEPT !.ponged = TRUE, !.heard = TRUE] \in Entries
  BY <1>1 DEF Entries
<1> HIDE DEF seen
<1>3. ArmLiveness(i, seen) \in Entries
  BY <1>1, ArmLivenessType
<1> QED
  BY <1>1, <1>2, <1>3 DEF NoteEvent, seen

LEMMA NoteLostType ==
    ASSUME NEW e \in Entries
    PROVE  NoteLost(e) \in Entries
  BY BoundAssumption DEF NoteLost, Entries, LivenessTimers

LEMMA NewEntryType == NewEntry \in Entries
  BY BoundAssumption DEF NewEntry, Entries, Silences, LivenessTimers

LEMMA FirstEntryType ==
    ASSUME NEW i, NEW e \in Entries, NEW closed
    PROVE  FirstEntry(i, e, closed) \in Entries
  BY NoteNoCallbackServerType DEF FirstEntry

LEMMA FirstStageType ==
    ASSUME NEW i, NEW e, NEW closed, stopping \in BOOLEAN
    PROVE  FirstStage(i, e, closed) \in {"none", "resolve", "reopen"}
  BY DEF FirstStage

(* #init() for some interfaces leaves the entries, the attempts and the    *)
(* ports being reopened of their types.                                    *)
LEMMA BeginInitType ==
    ASSUME TypeOK, NEW c \in Callers, NEW names \in SUBSET Interfaces, NEW after, NEW closed,
           after \in [Interfaces -> Entries],
           BeginInit(c, names, after, closed)
    PROVE  /\ entry' \in [Interfaces -> Entries]
           /\ attempt' \in [Interfaces -> [Callers -> AttemptRecords]]
           /\ reopening' \subseteq Protocols
<1>1. entry' \in [Interfaces -> Entries]
  BY FirstEntryType DEF BeginInit
<1>2. \A i \in Interfaces :
         [stage |-> FirstStage(i, after[i], closed), url |-> NoAddress] \in AttemptRecords
  BY FirstStageType DEF TypeOK, AttemptRecords, Urls, Stages
<1>3. attempt \in [Interfaces -> [Callers -> AttemptRecords]]
  BY DEF TypeOK, AttemptRecords, Urls
<1>4. attempt' \in [Interfaces -> [Callers -> AttemptRecords]]
  <2>1. ASSUME NEW i \in Interfaces
        PROVE  (IF i \in names
                THEN [attempt[i] EXCEPT ![c] =
                         [stage |-> FirstStage(i, after[i], closed), url |-> NoAddress]]
                ELSE attempt[i]) \in [Callers -> AttemptRecords]
    BY <1>2, <1>3
  <2> QED
    BY <2>1 DEF BeginInit
<1>5. reopening' \subseteq Protocols
  BY InterfaceAssumption DEF BeginInit, TypeOK
<1> QED
  BY <1>1, <1>4, <1>5

(* A step on one interface or one attempt.                                 *)
LEMMA SetEntryType ==
    ASSUME TypeOK, NEW i \in Interfaces, NEW e \in Entries, SetEntry(i, e)
    PROVE  entry' \in [Interfaces -> Entries]
  BY DEF SetEntry, TypeOK

LEMMA AttemptType ==
    ASSUME TypeOK, NEW i \in Interfaces, NEW c \in Callers
    PROVE  /\ attempt[i][c] \in AttemptRecords
           /\ \A stage \in Stages : MoveTo(i, c, stage) =>
                 attempt' \in [Interfaces -> [Callers -> AttemptRecords]]
           /\ EndAttempt(i, c) => attempt' \in [Interfaces -> [Callers -> AttemptRecords]]
           /\ \A r \in AttemptRecords : attempt' = [attempt EXCEPT ![i][c] = r] =>
                 attempt' \in [Interfaces -> [Callers -> AttemptRecords]]
<1>1. attempt \in [Interfaces -> [Callers -> AttemptRecords]]
  BY DEF TypeOK, AttemptRecords, Urls
<1>2. NoAttempt \in AttemptRecords
  BY DEF NoAttempt, AttemptRecords, Urls, Stages
<1>3. \A stage \in Stages : [attempt[i][c] EXCEPT !.stage = stage] \in AttemptRecords
  BY <1>1 DEF AttemptRecords
<1>4. \A r \in AttemptRecords :
         [attempt EXCEPT ![i][c] = r] \in [Interfaces -> [Callers -> AttemptRecords]]
  BY <1>1
<1>5. \A stage \in Stages : MoveTo(i, c, stage) =>
         attempt' = [attempt EXCEPT ![i][c] = [attempt[i][c] EXCEPT !.stage = stage]]
  BY <1>1 DEF MoveTo
<1> QED
  BY <1>1, <1>2, <1>3, <1>4, <1>5 DEF EndAttempt
-----------------------------------------------------------------------------
(* Every step keeps the types.                                             *)

LEMMA TypeOfInit == Init => TypeOK
<1> SUFFICES ASSUME Init PROVE TypeOK
  OBVIOUS
<1>1. entry \in [Interfaces -> Entries]
  BY NewEntryType DEF Init
<1>2. NoAttempt \in AttemptRecords
  BY DEF NoAttempt, AttemptRecords, Urls, Stages
<1>3. attempt \in [Interfaces -> [Callers -> AttemptRecords]]
  BY <1>2 DEF Init
<1> QED
  <2>1. 0 \in 0..MaxDisturbances /\ 0 \in 0..MaxCalls
    BY BoundAssumption
  <2>2. leaving \in [Leavers -> [Interfaces -> Urls]]
    BY DEF Init, Urls
  <2> QED
    BY <1>1, <1>3, <2>1, <2>2 DEF Init, TypeOK, AttemptRecords, Urls

LEMMA BoundType ==
    ASSUME TypeOK
    PROVE  /\ Request => requests' \in 0..MaxCalls
           /\ Disturb => disturbances' \in 0..MaxDisturbances
  BY BoundAssumption DEF TypeOK, Request, Disturb

LEMMA EntryType ==
    ASSUME TypeOK
    PROVE  \A i \in Interfaces : entry[i] \in Entries
  BY DEF TypeOK

LEMMA TypeOfManagerStep == TypeOK /\ ManagerNext => TypeOK'
<1> SUFFICES ASSUME TypeOK, ManagerNext PROVE TypeOK'
  OBVIOUS
<1> USE DEF methodVars, serverVars, worldVars, boundVars
<1>1. CASE Start
  BY <1>1 DEF Start, TypeOK, Methods
<1>2. ASSUME NEW failed \in SUBSET FixedPorts, StartOpened(failed) PROVE TypeOK'
  <2>1. [i \in Interfaces |-> NewEntry] \in [Interfaces -> Entries]
    BY NewEntryType
  <2>2. BeginInit("start", Interfaces, [i \in Interfaces |-> NewEntry], failed)
    BY <1>2 DEF StartOpened
  <2>3. /\ entry' \in [Interfaces -> Entries]
        /\ attempt' \in [Interfaces -> [Callers -> AttemptRecords]]
        /\ reopening' \subseteq Protocols
    BY <2>1, <2>2, BeginInitType DEF Callers
  <2>4. listening' \subseteq Protocols
    BY <1>2, InterfaceAssumption DEF StartOpened
  <2> QED
    BY <1>2, <2>3, <2>4 DEF StartOpened, TypeOK, Methods, AttemptRecords, Urls
<1>3. ASSUME NEW probes \in SUBSET {"probe"}, StartDone(probes) PROVE TypeOK'
  BY <1>3 DEF StartDone, StartWatchdog, TypeOK, Methods
<1>4. ASSUME NEW l \in Leavers, BeginLeaving(l)
      PROVE  leaving' \in [Leavers -> [Interfaces -> Urls]]
  <2>1. ASSUME NEW i \in Interfaces
        PROVE  entry[i].url \in Urls /\ address \in Urls /\ NoAddress \in Urls
    BY DEF TypeOK, Entries, Urls
  <2>2. leaving \in [Leavers -> [Interfaces -> Urls]]
    BY DEF TypeOK, Urls
  <2> QED
    BY <1>4, <2>1, <2>2 DEF BeginLeaving
<1>5. CASE Unsubscribe
  <2>1. leaving' \in [Leavers -> [Interfaces -> Urls]]
    BY <1>4, <1>5 DEF Unsubscribe, Leavers
  <2> QED
    BY <1>5, <2>1, BoundType DEF Unsubscribe, TypeOK, Methods, Urls
<1>6. CASE UnsubscribeDone
  <2>1. entry' \in [Interfaces -> Entries]
    BY <1>6, NoteUnsubscribedType DEF UnsubscribeDone, TypeOK
  <2> QED
    BY <1>6, <2>1 DEF UnsubscribeDone, TypeOK
<1>7. CASE Subscribe
  <2> DEFINE after == [i \in Interfaces |->
                 [entry[i] EXCEPT !.window = StartWindow /\ ~entry[i].absent,
                                  !.idle = FALSE]]
  <2>1. after \in [Interfaces -> Entries]
    <3>1. ASSUME NEW i \in Interfaces
          PROVE  [entry[i] EXCEPT !.window = StartWindow /\ ~entry[i].absent,
                                  !.idle = FALSE] \in Entries
      <4>1. entry[i] \in Entries
        BY DEF TypeOK
      <4>2. (StartWindow /\ ~entry[i].absent) \in BOOLEAN
        BY <4>1 DEF Entries
      <4>3. \A b \in BOOLEAN : [entry[i] EXCEPT !.window = b, !.idle = FALSE] \in Entries
        BY <4>1 DEF Entries
      <4> QED
        BY <4>2, <4>3
    <3> QED
      BY <3>1
  <2>2. BeginInit("subscribe", Interfaces, after, closedPorts)
    BY <1>7 DEF Subscribe
  <2>3. /\ entry' \in [Interfaces -> Entries]
        /\ attempt' \in [Interfaces -> [Callers -> AttemptRecords]]
        /\ reopening' \subseteq Protocols
    BY <2>1, <2>2, BeginInitType DEF Callers
  <2> QED
    BY <1>7, <2>3, BoundType
       DEF Subscribe, TypeOK, Methods, AttemptRecords, Urls
<1>8. CASE SubscribeDone
  BY <1>8 DEF SubscribeDone, StartWatchdog, TypeOK
<1>9. CASE Stop
  <2>1. leaving' \in [Leavers -> [Interfaces -> Urls]]
    BY <1>4, <1>9 DEF Stop, Leavers
  <2>2. entry' \in [Interfaces -> Entries]
    <3>1. \A e \in Entries : [e EXCEPT !.retryTimer = FALSE, !.liveness = "off"] \in Entries
      BY DEF Entries, LivenessTimers
    <3> QED
      BY <1>9, <3>1 DEF Stop, TypeOK
  <2> QED
    BY <1>9, <2>1, <2>2, BoundType DEF Stop, TypeOK, Methods, Urls
<1>10. CASE StopLeft \/ StopDone
  <2>1. CASE StopLeft
    BY <2>1 DEF StopLeft, TypeOK, Methods
  <2>2. CASE StopDone
    BY <2>2 DEF StopDone, serverVars, worldVars, boundVars, TypeOK
  <2> QED
    BY <1>10, <2>1, <2>2
<1>11. ASSUME NEW names \in SUBSET Interfaces, Reconnect(names) PROVE TypeOK'
  <2> DEFINE after == [i \in Interfaces |->
                 IF i \in names
                 THEN [entry[i] EXCEPT !.backoff = FALSE, !.retryTimer = FALSE]
                 ELSE entry[i]]
  <2>1. after \in [Interfaces -> Entries]
    <3>1. \A e \in Entries : [e EXCEPT !.backoff = FALSE, !.retryTimer = FALSE] \in Entries
      BY DEF Entries
    <3> QED
      BY <3>1 DEF TypeOK
  <2>2. BeginInit("reconnect", names, after, closedPorts)
    BY <1>11 DEF Reconnect
  <2>3. /\ entry' \in [Interfaces -> Entries]
        /\ attempt' \in [Interfaces -> [Callers -> AttemptRecords]]
        /\ reopening' \subseteq Protocols
    BY <2>1, <2>2, BeginInitType DEF Callers
  <2> QED
    BY <1>11, <2>3, BoundType
       DEF Reconnect, TypeOK, AttemptRecords, Urls
<1>12. ASSUME NEW refused \in SUBSET Interfaces, NEW mute \in SUBSET Interfaces,
              ProbeDone(refused, mute)
       PROVE  TypeOK'
  <2>1. \A e \in Entries : \A b \in BOOLEAN : [e EXCEPT !.absent = b] \in Entries
    BY DEF Entries
  <2>2. ASSUME NEW i \in Interfaces
        PROVE  (i \in refused \/ (entry[i].absent /\ i \notin mute)) \in BOOLEAN
    BY DEF TypeOK, Entries
  <2>3. entry' \in [Interfaces -> Entries]
    BY <1>12, <2>1, <2>2 DEF ProbeDone, TypeOK
  <2> QED
    BY <1>12, <2>3 DEF ProbeDone, TypeOK
<1> QED
  BY <1>1, <1>2, <1>3, <1>5, <1>6, <1>7, <1>8, <1>9, <1>10, <1>11, <1>12 DEF ManagerNext

LEMMA TypeOfAttemptStep == TypeOK /\ SentNamesUrl /\ AttemptNext => TypeOK'
<1> SUFFICES ASSUME TypeOK, SentNamesUrl, AttemptNext PROVE TypeOK'
  OBVIOUS
<1> USE DEF methodVars, serverVars, worldVars, boundVars
<1>1. ASSUME NEW p \in Protocols, NEW works \in BOOLEAN, Reopened(p, works) PROVE TypeOK'
  <2>1. entry' \in [Interfaces -> Entries]
    <3>1. entry \in [Interfaces -> Entries]
      BY DEF TypeOK
    <3>2. \A i \in Interfaces : NoteNoCallbackServer(entry[i]) \in Entries
      BY <3>1, NoteNoCallbackServerType
    <3>3. CASE works
      BY <1>1, <3>1, <3>3 DEF Reopened
    <3>4. CASE ~works
      BY <1>1, <3>1, <3>2, <3>4 DEF Reopened
    <3> QED
      BY <3>3, <3>4
  <2>2. attempt' \in [Interfaces -> [Callers -> AttemptRecords]]
    <3>1. ASSUME NEW i \in Interfaces, NEW c \in Callers
          PROVE  /\ attempt[i][c] \in AttemptRecords /\ NoAttempt \in AttemptRecords
                 /\ [attempt[i][c] EXCEPT !.stage = "resolve"] \in AttemptRecords
      <4>1. attempt[i][c] \in AttemptRecords
        BY AttemptType
      <4> QED
        BY <4>1 DEF AttemptRecords, Urls, Stages, NoAttempt
    <3> DEFINE next(i, c) ==
          CASE ~(ProtocolOf[i] = p /\ At(i, c, "reopen")) -> attempt[i][c]
            [] ProtocolOf[i] = p /\ At(i, c, "reopen") /\ works ->
                  [attempt[i][c] EXCEPT !.stage = "resolve"]
            [] ProtocolOf[i] = p /\ At(i, c, "reopen") /\ ~works -> NoAttempt
    <3>2. \A i \in Interfaces, c \in Callers : next(i, c) \in AttemptRecords
      BY <3>1
    <3>3. attempt' = [i \in Interfaces |-> [c \in Callers |-> next(i, c)]]
      BY <1>1 DEF Reopened
    <3> QED
      BY <3>2, <3>3
  <2> QED
    BY <1>1, <2>1, <2>2 DEF Reopened, TypeOK, AttemptRecords, Urls
<1>2. ASSUME NEW i \in Interfaces, NEW c \in Callers, Resolved(i, c) PROVE TypeOK'
  <2>1. [stage |-> "sent", url |-> address] \in AttemptRecords
    BY DEF TypeOK, AttemptRecords, Urls, Stages
  <2>2. attempt' \in [Interfaces -> [Callers -> AttemptRecords]]
    BY <1>2, <2>1, AttemptType DEF Resolved
  <2>3. [entry[i] EXCEPT !.url = address] \in Entries
    <3>1. entry[i] \in Entries /\ address \in Addresses
      BY DEF TypeOK
    <3> QED
      BY <3>1 DEF Entries
  <2>4. entry' \in [Interfaces -> Entries]
    <3>1. CASE stopping
      BY <1>2, <3>1 DEF Resolved, TypeOK
    <3>2. CASE ~stopping
      BY <1>2, <2>3, <3>2, SetEntryType DEF Resolved
    <3> QED
      BY <3>1, <3>2
  <2> QED
    BY <1>2, <2>2, <2>4 DEF Resolved, TypeOK, AttemptRecords, Urls
<1>3. ASSUME NEW i \in Interfaces, NEW c \in Callers, SweepDone(i, c) PROVE TypeOK'
  <2>1. attempt' \in [Interfaces -> [Callers -> AttemptRecords]]
    BY <1>3, AttemptType DEF SweepDone
  <2>2. [entry[i] EXCEPT !.subscribing = FALSE] \in Entries
    BY EntryType DEF Entries
  <2>3. entry' \in [Interfaces -> Entries]
    BY <1>3, <2>2, SetEntryType DEF SweepDone
  <2> QED
    BY <1>3, <2>1, <2>3 DEF SweepDone, TypeOK, AttemptRecords, Urls
<1>4. ASSUME NEW i \in Interfaces, NEW c \in Callers, NEW failure \in Failures,
             SweepFailed(i, c, failure)
      PROVE  TypeOK'
  <2>1. attempt' \in [Interfaces -> [Callers -> AttemptRecords]]
    BY <1>4, AttemptType DEF SweepFailed
  <2>2. [entry[i] EXCEPT !.subscribing = FALSE] \in Entries
    BY EntryType DEF Entries
  <2>3. NoteInitFailure([entry[i] EXCEPT !.subscribing = FALSE], failure) \in Entries
    BY <2>2, NoteInitFailureType DEF TypeOK
  <2>4. entry' \in [Interfaces -> Entries]
    BY <1>4, <2>3, SetEntryType DEF SweepFailed
  <2> QED
    BY <1>4, <2>1, <2>4, BoundType
       DEF SweepFailed, TypeOK, AttemptRecords, Urls
<1>5. ASSUME NEW i \in Interfaces, NEW c \in Callers, InitAnswered(i, c) PROVE TypeOK'
  <2>1. attempt' \in [Interfaces -> [Callers -> AttemptRecords]]
    BY <1>5, AttemptType DEF InitAnswered, Stages
  <2>2. NoteSubscribed(i, entry[i]) \in Entries
    BY NoteSubscribedType DEF TypeOK
  <2>3. entry' \in [Interfaces -> Entries]
    BY <1>5, <2>2, SetEntryType DEF InitAnswered
  <2> QED
    BY <1>5, <2>1, <2>3 DEF InitAnswered, TypeOK, AttemptRecords, Urls
<1>6. ASSUME NEW i \in Interfaces, NEW c \in Callers, InitWorked(i, c) PROVE TypeOK'
  <2>1. attempt' \in [Interfaces -> [Callers -> AttemptRecords]]
    BY <1>6, AttemptType DEF InitWorked, Stages
  <2>2. handlers' \in [Interfaces -> SUBSET Addresses]
    <3>1. attempt[i][c].url \in Addresses
      BY <1>6, AttemptType DEF InitWorked, SentNamesUrl, AttemptRecords, Urls
    <3> QED
      BY <1>6, <3>1 DEF InitWorked, TypeOK
  <2> QED
    BY <1>6, <2>1, <2>2 DEF InitWorked, TypeOK, AttemptRecords, Urls
<1>7. ASSUME NEW i \in Interfaces, NEW c \in Callers, NEW failure \in Failures,
             InitFailed(i, c, failure)
      PROVE  TypeOK'
  <2>1. attempt' \in [Interfaces -> [Callers -> AttemptRecords]]
    BY <1>7, AttemptType DEF InitFailed
  <2>2. NoteInitFailure(entry[i], failure) \in Entries
    BY NoteInitFailureType, EntryType DEF TypeOK
  <2>3. entry' \in [Interfaces -> Entries]
    BY <1>7, <2>2, SetEntryType DEF InitFailed
  <2>4. late' \in [Interfaces -> SUBSET [kind : {"init", "leave"}, url : Addresses]]
    <3>1. At(i, c, "sent") =>
             [kind |-> "init", url |-> attempt[i][c].url] \in [kind : {"init", "leave"}, url : Addresses]
      BY AttemptType DEF SentNamesUrl, AttemptRecords, Urls
    <3> QED
      BY <1>7, <3>1 DEF InitFailed, TypeOK
  <2>5. disturbances' \in 0..MaxDisturbances
    BY <1>7, BoundType DEF InitFailed, TypeOK
  <2> QED
    BY <1>7, <2>1, <2>3, <2>4, <2>5 DEF InitFailed, TypeOK, AttemptRecords, Urls
<1> QED
  BY <1>1, <1>2, <1>3, <1>4, <1>5, <1>6, <1>7 DEF AttemptNext

(* A step that leaves everything but the state of one interface alone.     *)
LEMMA TypeOfEntryStep ==
    ASSUME TypeOK, NEW i \in Interfaces, NEW e \in Entries, SetEntry(i, e),
           UNCHANGED <<methodVars, serverVars, attempt, leaving, worldVars, boundVars>>
    PROVE  TypeOK'
  BY SetEntryType DEF methodVars, serverVars, worldVars, boundVars, TypeOK

LEMMA TypeOfTimerStep == TypeOK /\ TimerNext => TypeOK'
<1> SUFFICES ASSUME TypeOK, TimerNext PROVE TypeOK'
  OBVIOUS
<1> USE DEF methodVars, serverVars, worldVars, boundVars
<1>1. ASSUME NEW listing \in SUBSET Interfaces, Tick(listing) PROVE TypeOK'
  <2> DEFINE mute == {i \in Interfaces :
                 ~QuietByNature(i, listing) /\ entry[i].silence = "silent"}
             due == {i \in mute : Due(i)}
             after == [i \in Interfaces |->
                 CASE QuietByNature(i, listing) -> [entry[i] EXCEPT !.silence = "fresh"]
                   [] i \in mute -> [entry[i] EXCEPT !.connected = FALSE]
                   [] OTHER -> entry[i]]
  <2>1. after \in [Interfaces -> Entries]
    <3>1. \A e \in Entries : /\ [e EXCEPT !.silence = "fresh"] \in Entries
                             /\ [e EXCEPT !.connected = FALSE] \in Entries
      BY DEF Entries, Silences
    <3> QED
      BY <3>1, EntryType
  <2>2. due \in SUBSET Interfaces /\ BeginInit("tick", due, after, closedPorts)
    BY <1>1 DEF Tick
  <2> HIDE DEF due, after
  <2>3. /\ entry' \in [Interfaces -> Entries]
        /\ attempt' \in [Interfaces -> [Callers -> AttemptRecords]]
        /\ reopening' \subseteq Protocols
    BY <2>1, <2>2, BeginInitType DEF Callers
  <2>4. inbound' \subseteq Interfaces
    BY <1>1, InterfaceAssumption DEF Tick, TypeOK
  <2> QED
    BY <1>1, <2>3, <2>4 DEF Tick, TypeOK, AttemptRecords, Urls
<1>2. ASSUME NEW i \in Interfaces, NEW c \in Callers, NEW e \in Entries,
             BeginInit(c, {i}, [entry EXCEPT ![i] = e], closedPorts),
             UNCHANGED <<methodVars, listening, closedPorts, leaving, worldVars, boundVars>>
      PROVE  TypeOK'
  <2>1. [entry EXCEPT ![i] = e] \in [Interfaces -> Entries]
    BY DEF TypeOK
  <2>2. /\ entry' \in [Interfaces -> Entries]
        /\ attempt' \in [Interfaces -> [Callers -> AttemptRecords]]
        /\ reopening' \subseteq Protocols
    BY <1>2, <2>1, BeginInitType
  <2> QED
    BY <1>2, <2>2 DEF TypeOK, AttemptRecords, Urls
<1>3. ASSUME NEW i \in Interfaces, RetryFires(i) PROVE TypeOK'
  <2>1. [entry[i] EXCEPT !.retryTimer = FALSE] \in Entries
    BY EntryType DEF Entries
  <2> QED
    BY <1>2, <1>3, <2>1 DEF RetryFires, Callers
<1>4. ASSUME NEW i \in Interfaces, LivenessDropped(i) PROVE TypeOK'
  <2>1. [entry[i] EXCEPT !.liveness = "off"] \in Entries
    BY EntryType DEF Entries, LivenessTimers
  <2> QED
    BY <1>4, <2>1, TypeOfEntryStep DEF LivenessDropped
<1>5. ASSUME NEW i \in Interfaces, LivenessPing(i) PROVE TypeOK'
  <2>1. [entry[i] EXCEPT !.liveness = "pong", !.ponged = FALSE] \in Entries
    BY EntryType DEF Entries, LivenessTimers
  <2>2. entry' \in [Interfaces -> Entries]
    BY <1>5, <2>1, SetEntryType DEF LivenessPing
  <2> QED
    BY <1>5, <2>2 DEF LivenessPing, TypeOK
<1>6. ASSUME NEW i \in Interfaces, PongCame(i) PROVE TypeOK'
  BY <1>6, EntryType, ArmLivenessType, TypeOfEntryStep DEF PongCame
<1>7. ASSUME NEW i \in Interfaces, PongMissing(i) PROVE TypeOK'
  BY <1>2, <1>7, EntryType, NoteLostType DEF PongMissing, Callers
<1>8. ASSUME NEW i \in Interfaces, FallsSilent(i) PROVE TypeOK'
  <2>1. \A t \in Silences : [entry[i] EXCEPT !.silence = t] \in Entries
    BY EntryType DEF Entries
  <2>2. [entry[i] EXCEPT !.silence = IF entry[i].silence = "fresh" THEN "quiet" ELSE "silent"]
            \in Entries
    BY <2>1 DEF Silences
  <2> QED
    BY <1>8, <2>2, TypeOfEntryStep DEF FallsSilent
<1>9. ASSUME NEW i \in Interfaces, BackoffEnds(i) PROVE TypeOK'
  <2>1. [entry[i] EXCEPT !.backoff = FALSE] \in Entries
    BY EntryType DEF Entries
  <2> QED
    BY <1>9, <2>1, TypeOfEntryStep DEF BackoffEnds
<1>10. ASSUME NEW i \in Interfaces, WindowCloses(i) PROVE TypeOK'
  <2>1. [entry[i] EXCEPT !.window = FALSE] \in Entries
    BY EntryType DEF Entries
  <2> QED
    BY <1>10, <2>1, TypeOfEntryStep DEF WindowCloses
<1> QED
  BY <1>1, <1>3, <1>4, <1>5, <1>6, <1>7, <1>8, <1>9, <1>10 DEF TimerNext

LEMMA TypeOfWorldStep == TypeOK /\ WorldNext => TypeOK'
<1> SUFFICES ASSUME TypeOK, WorldNext PROVE TypeOK'
  OBVIOUS
<1> USE DEF methodVars, serverVars, worldVars, boundVars
<1>1. ASSUME NEW i \in Interfaces, EventArrives(i) PROVE TypeOK'
  <2>1. entry' \in [Interfaces -> Entries]
    BY <1>1, EntryType, NoteEventType DEF EventArrives, TypeOK
  <2> QED
    BY <1>1, <2>1 DEF EventArrives, TypeOK
<1>2. ASSUME NEW i \in Interfaces, DeviceCallbackArrives(i) PROVE TypeOK'
  <2>1. entry' \in [Interfaces -> Entries]
    BY <1>2, EntryType, NoteEventType, SetEntryType DEF DeviceCallbackArrives
  <2> QED
    BY <1>2, <2>1, BoundType DEF DeviceCallbackArrives, TypeOK
<1>3. ASSUME NEW i \in Interfaces, SendsEvent(i) PROVE TypeOK'
  BY <1>3 DEF SendsEvent, TypeOK
<1>4. ASSUME NEW i \in Interfaces, NEW l \in Leavers
      PROVE  leaving' = [leaving EXCEPT ![l][i] = NoAddress] =>
                leaving' \in [Leavers -> [Interfaces -> Urls]]
  <2>1. leaving \in [Leavers -> [Interfaces -> Urls]]
    BY DEF TypeOK, Urls
  <2> QED
    BY <2>1 DEF Urls
<1>5. ASSUME NEW i \in Interfaces, NEW l \in Leavers, LeaveWorked(l, i) PROVE TypeOK'
  <2>1. leaving' \in [Leavers -> [Interfaces -> Urls]]
    BY <1>4, <1>5 DEF LeaveWorked
  <2>2. handlers' \in [Interfaces -> SUBSET Addresses]
    BY <1>5 DEF LeaveWorked, TypeOK
  <2> QED
    BY <1>5, <2>1, <2>2 DEF LeaveWorked, TypeOK, Urls
<1>6. ASSUME NEW i \in Interfaces, NEW l \in Leavers, LeaveGivenUp(l, i) PROVE TypeOK'
  <2>1. leaving' \in [Leavers -> [Interfaces -> Urls]]
    BY <1>4, <1>6 DEF LeaveGivenUp
  <2>2. late' \in [Interfaces -> SUBSET [kind : {"init", "leave"}, url : Addresses]]
    <3>1. leaving[l][i] \in Addresses
      BY <1>6 DEF LeaveGivenUp, TypeOK
    <3>2. [kind |-> "leave", url |-> leaving[l][i]]
              \in [kind : {"init", "leave"}, url : Addresses]
      BY <3>1
    <3> QED
      BY <1>6, <3>2 DEF LeaveGivenUp, TypeOK
  <2>3. disturbances' \in 0..MaxDisturbances
    BY <1>6, BoundType DEF LeaveGivenUp, TypeOK
  <2> QED
    BY <1>6, <2>1, <2>2, <2>3 DEF LeaveGivenUp, TypeOK, Urls
<1>7. ASSUME NEW i \in Interfaces, NEW r \in late[i], LateWorked(i, r) PROVE TypeOK'
  <2>1. r.url \in Addresses
    BY DEF TypeOK
  <2>2. handlers' \in [Interfaces -> SUBSET Addresses]
    BY <1>7, <2>1 DEF LateWorked, TypeOK
  <2>3. late' \in [Interfaces -> SUBSET [kind : {"init", "leave"}, url : Addresses]]
    BY <1>7 DEF LateWorked, TypeOK
  <2> QED
    BY <1>7, <2>2, <2>3 DEF LateWorked, TypeOK
<1>8. ASSUME NEW i \in Interfaces, NEW r \in late[i], LateLost(i, r) PROVE TypeOK'
  <2>1. late' \in [Interfaces -> SUBSET [kind : {"init", "leave"}, url : Addresses]]
    BY <1>8 DEF LateLost, TypeOK
  <2> QED
    BY <1>8, <2>1 DEF LateLost, TypeOK
<1>9. ASSUME NEW i \in Interfaces, Dies(i) PROVE TypeOK'
  BY <1>9, BoundType DEF Dies, TypeOK
<1>10. ASSUME NEW i \in Interfaces, Restarts(i) PROVE TypeOK'
  BY <1>10 DEF Restarts, TypeOK
<1>11. ASSUME NEW i \in Interfaces, CallbackHeldUp(i) PROVE TypeOK'
  BY <1>11, BoundType DEF CallbackHeldUp, TypeOK
<1>12. CASE AddressMoves
  BY <1>12, BoundType DEF AddressMoves, TypeOK
<1> QED
  BY <1>1, <1>2, <1>3, <1>5, <1>6, <1>7, <1>8, <1>9, <1>10, <1>11, <1>12 DEF WorldNext

-----------------------------------------------------------------------------
(* How an #init() moves on.                                                *)

(* Where the call of #init() begins: nowhere after a stop, and at the      *)
(* callback address only while the port is open.                           *)
Begun(i, c) ==
    /\ attempt[i][c].stage = "none" /\ ~stopping
    /\ \/ attempt'[i][c].stage = "reopen"
       \/ attempt'[i][c].stage = "resolve" /\ ~PortClosed(i, closedPorts')

GoneOn(i, c) ==
    \/ /\ attempt[i][c].stage = "reopen" /\ attempt'[i][c].stage = "resolve"
       /\ ProtocolOf[i] \in listening' /\ ~PortClosed(i, closedPorts')
    \/ /\ attempt[i][c].stage = "resolve" /\ attempt'[i][c].stage = "sent"
       /\ attempt'[i][c].url = address /\ ~stopping
    \/ attempt[i][c].stage = "sent" /\ attempt'[i][c].stage = "worked"
    \/ attempt[i][c].stage = "worked" /\ attempt'[i][c].stage = "sweep"

Moved(i, c) ==
    \/ attempt'[i][c] = attempt[i][c]
    \/ attempt'[i][c].stage = "none"
    \/ Begun(i, c)
    \/ GoneOn(i, c)

LEMMA BeginInitMoves ==
    ASSUME TypeOK, NEW d \in Callers, NEW names \in SUBSET Interfaces, NEW after,
           BeginInit(d, names, after, closedPorts'),
           NEW i \in Interfaces, NEW c \in Callers
    PROVE  /\ Moved(i, c)
           /\ i \in names /\ c = d =>
                 attempt'[i][c].stage = FirstStage(i, after[i], closedPorts')
           /\ ~(i \in names /\ c = d) => attempt'[i][c] = attempt[i][c]
<1>1. attempt \in [Interfaces -> [Callers -> AttemptRecords]]
  BY DEF TypeOK, AttemptRecords, Urls
<1>2. attempt'[i] = IF i \in names
                    THEN [attempt[i] EXCEPT ![d] =
                             [stage |-> FirstStage(i, after[i], closedPorts'),
                              url |-> NoAddress]]
                    ELSE attempt[i]
  BY DEF BeginInit
<1>3. CASE i \in names /\ c = d
  <2>1. attempt'[i][c].stage = FirstStage(i, after[i], closedPorts')
    BY <1>1, <1>2, <1>3
  <2>2. attempt[i][c].stage = "none"
    BY <1>3 DEF BeginInit, CanInit, InFlight
  <2>3. \/ FirstStage(i, after[i], closedPorts') = "none"
        \/ ~stopping /\ FirstStage(i, after[i], closedPorts') = "reopen"
        \/ /\ ~stopping /\ FirstStage(i, after[i], closedPorts') = "resolve"
           /\ ~PortClosed(i, closedPorts')
    <3>1. stopping \in BOOLEAN
      BY DEF TypeOK
    <3>2. CASE stopping
      BY <3>2 DEF FirstStage
    <3>3. CASE ~stopping /\ ~PortClosed(i, closedPorts')
      BY <3>3 DEF FirstStage
    <3>4. CASE ~stopping /\ PortClosed(i, closedPorts')
      BY <3>4 DEF FirstStage
    <3> QED
      BY <3>1, <3>2, <3>3, <3>4
  <2> QED
    BY <1>3, <2>1, <2>2, <2>3 DEF Moved, Begun
<1>4. CASE ~(i \in names /\ c = d)
  BY <1>1, <1>2, <1>4 DEF Moved
<1> QED
  BY <1>3, <1>4

(* The steps that call no #init() and belong to none.                      *)
LEMMA OthersLeaveAttempts ==
    ASSUME TypeOK, Next
    PROVE  \/ attempt' = attempt
           \/ \E failed \in SUBSET FixedPorts : StartOpened(failed)
           \/ Subscribe
           \/ \E names \in SUBSET Interfaces : Reconnect(names)
           \/ \E listing \in SUBSET Interfaces : Tick(listing)
           \/ \E i \in Interfaces : RetryFires(i) \/ PongMissing(i)
           \/ AttemptNext
<1>1. CASE ManagerNext
  BY <1>1 DEF ManagerNext, Start, StartDone, Unsubscribe, UnsubscribeDone,
              SubscribeDone, Stop, StopLeft, StopDone, ProbeDone
<1>2. CASE TimerNext
  BY <1>2 DEF TimerNext, LivenessDropped, LivenessPing, PongCame, FallsSilent,
              BackoffEnds, WindowCloses
<1>3. CASE WorldNext
  BY <1>3 DEF WorldNext, EventArrives, DeviceCallbackArrives, SendsEvent, LeaveWorked,
              LeaveGivenUp, LateWorked, LateLost, Dies, Restarts, CallbackHeldUp,
              AddressMoves
<1> QED
  BY <1>1, <1>2, <1>3 DEF Next

LEMMA AttemptMoves ==
    ASSUME TypeOK, Next, NEW i \in Interfaces, NEW c \in Callers
    PROVE  Moved(i, c)
<1> USE DEF methodVars, serverVars, worldVars, boundVars
<1>1. attempt \in [Interfaces -> [Callers -> AttemptRecords]]
  BY DEF TypeOK, AttemptRecords, Urls
<1>2. CASE attempt' = attempt
  BY <1>2 DEF Moved
<1>3. ASSUME NEW failed \in SUBSET FixedPorts, StartOpened(failed) PROVE Moved(i, c)
  BY <1>3, BeginInitMoves DEF StartOpened, Callers
<1>4. CASE Subscribe
  BY <1>4, BeginInitMoves DEF Subscribe, Callers
<1>5. ASSUME NEW names \in SUBSET Interfaces, Reconnect(names) PROVE Moved(i, c)
  BY <1>5, BeginInitMoves DEF Reconnect, Callers
<1>6. ASSUME NEW listing \in SUBSET Interfaces, Tick(listing) PROVE Moved(i, c)
  <2> DEFINE mute == {j \in Interfaces :
                 ~QuietByNature(j, listing) /\ entry[j].silence = "silent"}
             due == {j \in mute : Due(j)}
             after == [j \in Interfaces |->
                 CASE QuietByNature(j, listing) -> [entry[j] EXCEPT !.silence = "fresh"]
                   [] j \in mute -> [entry[j] EXCEPT !.connected = FALSE]
                   [] OTHER -> entry[j]]
  <2>1. due \in SUBSET Interfaces /\ BeginInit("tick", due, after, closedPorts')
    BY <1>6 DEF Tick
  <2> HIDE DEF due, after
  <2> QED
    BY <2>1, BeginInitMoves DEF Callers
<1>7. ASSUME NEW j \in Interfaces, RetryFires(j) PROVE Moved(i, c)
  BY <1>7, BeginInitMoves DEF RetryFires, Callers
<1>8. ASSUME NEW j \in Interfaces, PongMissing(j) PROVE Moved(i, c)
  BY <1>8, BeginInitMoves DEF PongMissing, Callers
<1>9. ASSUME NEW p \in Protocols, NEW works \in BOOLEAN, Reopened(p, works) PROVE Moved(i, c)
  <2>1. /\ attempt'[i][c] =
              CASE ~(ProtocolOf[i] = p /\ At(i, c, "reopen")) -> attempt[i][c]
                [] ProtocolOf[i] = p /\ At(i, c, "reopen") /\ works ->
                      [attempt[i][c] EXCEPT !.stage = "resolve"]
                [] ProtocolOf[i] = p /\ At(i, c, "reopen") /\ ~works -> NoAttempt
        /\ works => p \in listening' /\ p \notin closedPorts'
    BY <1>9 DEF Reopened
  <2>2. CASE ~(ProtocolOf[i] = p /\ At(i, c, "reopen"))
    BY <2>1, <2>2 DEF Moved
  <2>3. CASE ProtocolOf[i] = p /\ At(i, c, "reopen") /\ works
    <3>1. attempt'[i][c] = [attempt[i][c] EXCEPT !.stage = "resolve"]
      BY <2>1, <2>3
    <3>2. attempt'[i][c].stage = "resolve"
      BY <1>1, <3>1 DEF AttemptRecords
    <3> QED
      BY <2>1, <2>3, <3>2 DEF Moved, GoneOn, At, PortClosed
  <2>4. CASE ProtocolOf[i] = p /\ At(i, c, "reopen") /\ ~works
    BY <2>1, <2>4 DEF Moved, NoAttempt
  <2> QED
    BY <2>2, <2>3, <2>4
<1>10. ASSUME NEW j \in Interfaces, NEW d \in Callers, EndAttempt(j, d) PROVE Moved(i, c)
  BY <1>1, <1>10 DEF EndAttempt, NoAttempt, Moved
<1>11. ASSUME NEW j \in Interfaces, NEW d \in Callers, Resolved(j, d) PROVE Moved(i, c)
  <2>1. CASE stopping
    BY <1>10, <1>11, <2>1 DEF Resolved
  <2>2. CASE ~stopping
    <3>1. attempt' = [attempt EXCEPT ![j][d] = [stage |-> "sent", url |-> address]]
      BY <1>11, <2>2 DEF Resolved
    <3>2. attempt[j][d].stage = "resolve"
      BY <1>11 DEF Resolved, At
    <3>3. CASE i = j /\ c = d
      BY <1>1, <2>2, <3>1, <3>2, <3>3 DEF Moved, GoneOn
    <3>4. CASE ~(i = j /\ c = d)
      BY <1>1, <3>1, <3>4 DEF Moved
    <3> QED
      BY <3>3, <3>4
  <2> QED
    BY <2>1, <2>2
<1>12. ASSUME NEW j \in Interfaces, NEW d \in Callers, NEW stage \in Stages,
              MoveTo(j, d, stage)
       PROVE  /\ attempt'[j][d].stage = stage
              /\ ~(i = j /\ c = d) => attempt'[i][c] = attempt[i][c]
  <2>1. attempt' = [attempt EXCEPT ![j][d] = [attempt[j][d] EXCEPT !.stage = stage]]
    BY <1>1, <1>12 DEF MoveTo
  <2>2. [attempt[j][d] EXCEPT !.stage = stage].stage = stage
    BY <1>1 DEF AttemptRecords
  <2> QED
    BY <1>1, <2>1, <2>2
<1>13. ASSUME NEW j \in Interfaces, NEW d \in Callers, InitWorked(j, d) PROVE Moved(i, c)
  BY <1>12, <1>13 DEF InitWorked, At, Moved, GoneOn, Stages
<1>14. ASSUME NEW j \in Interfaces, NEW d \in Callers, InitAnswered(j, d) PROVE Moved(i, c)
  BY <1>12, <1>14 DEF InitAnswered, At, Moved, GoneOn, Stages
<1>15. ASSUME NEW j \in Interfaces, NEW d \in Callers, NEW failure \in Failures,
              InitFailed(j, d, failure) \/ SweepFailed(j, d, failure) \/ SweepDone(j, d)
       PROVE  Moved(i, c)
  BY <1>10, <1>15 DEF InitFailed, SweepFailed, SweepDone
<1>16. CASE AttemptNext
  BY <1>9, <1>11, <1>13, <1>14, <1>15, <1>16 DEF AttemptNext, Failures
<1> QED
  BY <1>2, <1>3, <1>4, <1>5, <1>6, <1>7, <1>8, <1>16, OthersLeaveAttempts

-----------------------------------------------------------------------------
(* What the steps on an interface's state do to its two timers and to      *)
(* "waiting".                                                              *)

Resting == stopping \/ idle

(* From e to f no timer is armed that was not, unless the manager is at    *)
(* work.                                                                   *)
NoNewTimer(e, f) ==
    /\ f.retryTimer => e.retryTimer \/ ~Resting
    /\ f.liveness # "off" => e.liveness # "off" \/ ~Resting

(* An interface that waits in f did so in e, and kept its timer.           *)
WaitsOn(e, f) ==
    f.waiting => e.waiting /\ (e.retryTimer => f.retryTimer)

(* Or it has a timer.                                                      *)
WaitsWithTimer(f) == f.waiting => f.retryTimer \/ Resting

LEMMA ArmLivenessMoves ==
    ASSUME NEW i, NEW e \in Entries
    PROVE  NoNewTimer(e, ArmLiveness(i, e)) /\ WaitsOn(e, ArmLiveness(i, e))
  BY DEF ArmLiveness, NoNewTimer, WaitsOn, Resting, Entries

LEMMA NoteNoCallbackServerMoves ==
    ASSUME NEW e \in Entries
    PROVE  /\ NoNewTimer(e, NoteNoCallbackServer(e)) /\ WaitsOn(e, NoteNoCallbackServer(e))
           /\ NoteNoCallbackServer(e).waiting = e.waiting
           /\ NoteNoCallbackServer(e).retryTimer = e.retryTimer
           /\ NoteNoCallbackServer(e).liveness = e.liveness
  BY DEF NoteNoCallbackServer, NoNewTimer, WaitsOn, Entries

LEMMA NoteWaitingMoves ==
    ASSUME NEW e \in Entries
    PROVE  NoNewTimer(e, NoteWaiting(e)) /\ WaitsWithTimer(NoteWaiting(e))
  BY DEF NoteWaiting, NoNewTimer, WaitsWithTimer, Resting, Entries

LEMMA NoteInitFailureMoves ==
    ASSUME NEW e \in Entries, NEW failure
    PROVE  /\ NoNewTimer(e, NoteInitFailure(e, failure))
           /\ WaitsWithTimer(NoteInitFailure(e, failure))
<1> DEFINE f == [e EXCEPT !.failing = TRUE, !.reconnecting = FALSE, !.backoff = TRUE,
                         !.connected = FALSE, !.absent = (failure = "refused"),
                         !.subscribing = FALSE, !.waiting = FALSE]
<1>1. NoNewTimer(e, f) /\ WaitsWithTimer(f)
  BY DEF NoNewTimer, WaitsWithTimer, Entries
<1> HIDE DEF f
<1>2. NoteInitFailure(e, failure) = NoteWaiting(e) \/ NoteInitFailure(e, failure) = f
  BY DEF NoteInitFailure, f
<1> QED
  BY <1>1, <1>2, NoteWaitingMoves

LEMMA NoteSubscribedMoves ==
    ASSUME NEW i, NEW e \in Entries
    PROVE  NoNewTimer(e, NoteSubscribed(i, e)) /\ ~NoteSubscribed(i, e).waiting
  BY DEF NoteSubscribed, ArmLiveness, NoNewTimer, Resting, Entries

LEMMA NoteUnsubscribedMoves ==
    ASSUME NEW e \in Entries
    PROVE  /\ ~NoteUnsubscribed(e).retryTimer /\ NoteUnsubscribed(e).liveness = "off"
           /\ ~NoteUnsubscribed(e).waiting
  BY DEF NoteUnsubscribed, Entries

LEMMA NoteEventMoves ==
    ASSUME NEW i, NEW e \in Entries, NEW kind
    PROVE  NoNewTimer(e, NoteEvent(i, e, kind)) /\ WaitsOn(e, NoteEvent(i, e, kind))
<1> DEFINE seen == [e EXCEPT !.silence = "fresh", !.connected = TRUE]
           heard == [seen EXCEPT !.ponged = TRUE, !.heard = TRUE]
<1>1. /\ seen.waiting = e.waiting /\ seen.retryTimer = e.retryTimer
      /\ seen.liveness = e.liveness /\ seen \in Entries
  BY DEF Entries, Silences
<1>2. /\ heard.waiting = e.waiting /\ heard.retryTimer = e.retryTimer
      /\ heard.liveness = e.liveness
  BY DEF Entries
<1> HIDE DEF seen, heard
<1>3. \/ NoteEvent(i, e, kind) = seen \/ NoteEvent(i, e, kind) = heard
      \/ NoteEvent(i, e, kind) = ArmLiveness(i, seen)
  BY DEF NoteEvent, seen, heard
<1> QED
  BY <1>1, <1>2, <1>3, ArmLivenessMoves DEF NoNewTimer, WaitsOn

LEMMA NoteLostMoves ==
    ASSUME NEW e \in Entries
    PROVE  /\ ~NoteLost(e).retryTimer /\ NoteLost(e).liveness = "off"
           /\ ~NoteLost(e).waiting
  BY DEF NoteLost, Entries

(* #init() itself touches none of the three before its first await.        *)
LEMMA BeginInitEntry ==
    ASSUME NEW d \in Callers, NEW names \in SUBSET Interfaces, NEW closed, NEW after,
           after \in [Interfaces -> Entries],
           BeginInit(d, names, after, closed),
           NEW i \in Interfaces
    PROVE  /\ entry'[i].waiting = after[i].waiting
           /\ entry'[i].retryTimer = after[i].retryTimer
           /\ entry'[i].liveness = after[i].liveness
<1>1. entry'[i] = IF i \in names THEN FirstEntry(i, after[i], closed) ELSE after[i]
  BY DEF BeginInit
<1>2. after[i] \in Entries
  OBVIOUS
<1>3. FirstEntry(i, after[i], closed) \in {after[i], NoteNoCallbackServer(after[i])}
  BY DEF FirstEntry
<1> QED
  BY <1>1, <1>2, <1>3, NoteNoCallbackServerMoves

Pending == {"resolve", "sent", "worked"}

(* An #init() began, or it cannot.                                         *)
InitBegun(i) ==
    \/ \E c \in Callers : attempt'[i][c].stage = "resolve"
    \/ PortClosed(i, closedPorts')
    \/ stopping

EntryMoved(i) ==
    /\ NoNewTimer(entry[i], entry'[i])
    /\ \/ WaitsOn(entry[i], entry'[i])
       \/ InitBegun(i) /\ (entry'[i].waiting => entry[i].waiting)
       \/ /\ WaitsWithTimer(entry'[i])
          /\ \E c \in Callers : attempt[i][c].stage \in {"sent", "worked", "sweep"}
       \/ stopping'

LEMMA BeginInitEntryMoves ==
    ASSUME TypeOK, NEW d \in Callers, NEW names \in SUBSET Interfaces, NEW after,
           after \in [Interfaces -> Entries],
           BeginInit(d, names, after, closedPorts'),
           NEW i \in Interfaces,
           NoNewTimer(entry[i], after[i]),
           after[i].waiting => entry[i].waiting,
           i \notin names => WaitsOn(entry[i], after[i])
    PROVE  EntryMoved(i)
<1>1. /\ entry'[i].waiting = after[i].waiting
      /\ entry'[i].retryTimer = after[i].retryTimer
      /\ entry'[i].liveness = after[i].liveness
  BY BeginInitEntry
<1>2. NoNewTimer(entry[i], entry'[i])
  BY <1>1 DEF NoNewTimer
<1>3. CASE i \notin names
  BY <1>1, <1>2, <1>3 DEF EntryMoved, WaitsOn
<1>4. CASE i \in names
  <2>1. attempt'[i][d].stage = FirstStage(i, after[i], closedPorts')
    BY <1>4, BeginInitMoves
  <2>2. ~stopping /\ ~PortClosed(i, closedPorts') =>
            FirstStage(i, after[i], closedPorts') = "resolve"
    BY DEF FirstStage
  <2>3. InitBegun(i)
    BY <2>1, <2>2 DEF InitBegun
  <2> QED
    BY <1>1, <1>2, <2>3 DEF EntryMoved
<1> QED
  BY <1>3, <1>4

(* A step that changes at most the state of interface j.                   *)
LEMMA SetEntryMoves ==
    ASSUME TypeOK, NEW j \in Interfaces, NEW e \in Entries, SetEntry(j, e),
           NoNewTimer(entry[j], e),
           \/ WaitsOn(entry[j], e)
           \/ /\ WaitsWithTimer(e)
              /\ \E c \in Callers : attempt[j][c].stage \in {"sent", "worked", "sweep"},
           NEW i \in Interfaces
    PROVE  EntryMoved(i)
<1>1. entry'[j] = e /\ (i # j => entry'[i] = entry[i])
  BY DEF SetEntry, TypeOK
<1>2. CASE i = j
  BY <1>1, <1>2 DEF EntryMoved
<1>3. CASE i # j
  BY <1>1, <1>3 DEF EntryMoved, NoNewTimer, WaitsOn
<1> QED
  BY <1>2, <1>3

LEMMA SameEntryMoves ==
    ASSUME NEW i \in Interfaces, entry'[i] = entry[i]
    PROVE  EntryMoved(i)
  BY DEF EntryMoved, NoNewTimer, WaitsOn

LEMMA ManagerStepMovesEntry ==
    ASSUME TypeOK, ManagerNext, NEW i \in Interfaces
    PROVE  EntryMoved(i)
<1> USE DEF methodVars, serverVars, worldVars, boundVars
<1>1. CASE entry' = entry
  BY <1>1, SameEntryMoves
<1>2. ASSUME NEW failed \in SUBSET FixedPorts, StartOpened(failed) PROVE EntryMoved(i)
  <2> DEFINE after == [j \in Interfaces |-> NewEntry]
  <2>1. after \in [Interfaces -> Entries] /\ after[i] = NewEntry
    BY NewEntryType
  <2>2. BeginInit("start", Interfaces, after, closedPorts')
    BY <1>2 DEF StartOpened
  <2>3. NoNewTimer(entry[i], NewEntry) /\ ~NewEntry.waiting
    BY DEF NoNewTimer, NewEntry
  <2> HIDE DEF after
  <2> QED
    BY <2>1, <2>2, <2>3, BeginInitEntryMoves DEF Callers
<1>3. CASE UnsubscribeDone
  <2>1. CASE configured
    <3>1. entry'[i] = NoteUnsubscribed(entry[i])
      BY <1>3, <2>1 DEF UnsubscribeDone
    <3> QED
      BY <3>1, EntryType, NoteUnsubscribedMoves DEF EntryMoved, NoNewTimer, WaitsOn
  <2>2. CASE ~configured
    BY <1>1, <1>3, <2>2 DEF UnsubscribeDone
  <2> QED
    BY <2>1, <2>2
<1>4. CASE Subscribe
  <2> DEFINE after == [j \in Interfaces |->
                 [entry[j] EXCEPT !.window = StartWindow /\ ~entry[j].absent,
                                  !.idle = FALSE]]
  <2>1. ASSUME NEW j \in Interfaces
        PROVE  /\ after[j] \in Entries
               /\ after[j].waiting = entry[j].waiting
               /\ after[j].retryTimer = entry[j].retryTimer
               /\ after[j].liveness = entry[j].liveness
    <3>1. entry[j] \in Entries
      BY EntryType
    <3>2. (StartWindow /\ ~entry[j].absent) \in BOOLEAN
      BY <3>1 DEF Entries
    <3>3. \A b \in BOOLEAN :
             LET e == [entry[j] EXCEPT !.window = b, !.idle = FALSE]
             IN  /\ e \in Entries /\ e.waiting = entry[j].waiting
                 /\ e.retryTimer = entry[j].retryTimer /\ e.liveness = entry[j].liveness
      BY <3>1 DEF Entries
    <3> QED
      BY <3>2, <3>3
  <2>2. BeginInit("subscribe", Interfaces, after, closedPorts')
    BY <1>4 DEF Subscribe
  <2>3. after \in [Interfaces -> Entries]
    BY <2>1
  <2> HIDE DEF after
  <2>4. NoNewTimer(entry[i], after[i]) /\ WaitsOn(entry[i], after[i])
    BY <2>1 DEF NoNewTimer, WaitsOn
  <2> QED
    BY <2>2, <2>3, <2>4, BeginInitEntryMoves DEF Callers, WaitsOn
<1>5. CASE Stop
  <2>1. entry'[i] = [entry[i] EXCEPT !.retryTimer = FALSE, !.liveness = "off"]
    BY <1>5 DEF Stop
  <2>2. entry[i] \in Entries
    BY EntryType
  <2>3. ~entry'[i].retryTimer /\ entry'[i].liveness = "off"
    BY <2>1, <2>2 DEF Entries
  <2> QED
    BY <1>5, <2>3 DEF Stop, EntryMoved, NoNewTimer
<1>6. ASSUME NEW names \in SUBSET Interfaces, Reconnect(names) PROVE EntryMoved(i)
  <2> DEFINE after == [j \in Interfaces |->
                 IF j \in names
                 THEN [entry[j] EXCEPT !.backoff = FALSE, !.retryTimer = FALSE]
                 ELSE entry[j]]
  <2>1. ASSUME NEW j \in Interfaces
        PROVE  /\ after[j] \in Entries
               /\ after[j].waiting = entry[j].waiting
               /\ after[j].retryTimer => entry[j].retryTimer
               /\ after[j].liveness = entry[j].liveness
               /\ j \notin names => after[j] = entry[j]
    BY EntryType DEF Entries
  <2>2. BeginInit("reconnect", names, after, closedPorts')
    BY <1>6 DEF Reconnect
  <2>3. after \in [Interfaces -> Entries]
    BY <2>1
  <2> HIDE DEF after
  <2>4. NoNewTimer(entry[i], after[i]) /\ (i \notin names => WaitsOn(entry[i], after[i]))
    BY <2>1 DEF NoNewTimer, WaitsOn
  <2> QED
    BY <2>1, <2>2, <2>3, <2>4, BeginInitEntryMoves DEF Callers
<1>7. ASSUME NEW refused \in SUBSET Interfaces, NEW mute \in SUBSET Interfaces,
             ProbeDone(refused, mute)
      PROVE  EntryMoved(i)
  <2>1. \/ entry'[i] = entry[i]
        \/ \E b : entry'[i] = [entry[i] EXCEPT !.absent = b]
    BY <1>7 DEF ProbeDone
  <2>2. ASSUME NEW b, entry'[i] = [entry[i] EXCEPT !.absent = b] PROVE EntryMoved(i)
    <3>1. /\ entry'[i].waiting = entry[i].waiting
          /\ entry'[i].retryTimer = entry[i].retryTimer
          /\ entry'[i].liveness = entry[i].liveness
      BY <2>2, EntryType DEF Entries
    <3> QED
      BY <3>1 DEF EntryMoved, NoNewTimer, WaitsOn
  <2> QED
    BY <2>1, <2>2, SameEntryMoves
<1>8. CASE Start \/ (\E probes \in SUBSET {"probe"} : StartDone(probes)) \/ Unsubscribe
             \/ SubscribeDone \/ StopLeft \/ StopDone
  BY <1>1, <1>8 DEF Start, StartDone, Unsubscribe, SubscribeDone, StopLeft, StopDone
<1> QED
  BY <1>2, <1>3, <1>4, <1>5, <1>6, <1>7, <1>8 DEF ManagerNext

LEMMA AttemptStepMovesEntry ==
    ASSUME TypeOK, AttemptNext, NEW i \in Interfaces
    PROVE  EntryMoved(i)
<1>1. ASSUME NEW p \in Protocols, NEW works \in BOOLEAN, Reopened(p, works)
      PROVE  EntryMoved(i)
  <2>1. entry'[i] = entry[i] \/ entry'[i] = NoteNoCallbackServer(entry[i])
    BY <1>1 DEF Reopened
  <2>2. CASE entry'[i] = NoteNoCallbackServer(entry[i])
    BY <2>2, EntryType, NoteNoCallbackServerMoves DEF EntryMoved
  <2> QED
    BY <2>1, <2>2, SameEntryMoves
<1>2. ASSUME NEW j \in Interfaces, NEW c \in Callers, Resolved(j, c) PROVE EntryMoved(i)
  <2>1. CASE stopping
    BY <1>2, <2>1, SameEntryMoves DEF Resolved
  <2>2. CASE ~stopping
    <3> DEFINE e == [entry[j] EXCEPT !.url = address]
    <3>1. entry[j] \in Entries /\ address \in Addresses
      BY DEF TypeOK
    <3>2. e \in Entries /\ NoNewTimer(entry[j], e) /\ WaitsOn(entry[j], e)
      BY <3>1 DEF Entries, NoNewTimer, WaitsOn
    <3>3. SetEntry(j, e)
      BY <1>2, <2>2 DEF Resolved
    <3> QED
      BY <3>2, <3>3, SetEntryMoves
  <2> QED
    BY <2>1, <2>2
<1>3. ASSUME NEW j \in Interfaces, NEW c \in Callers, InitWorked(j, c) PROVE EntryMoved(i)
  BY <1>3, SameEntryMoves DEF InitWorked
<1>4. ASSUME NEW j \in Interfaces, NEW c \in Callers, InitAnswered(j, c) PROVE EntryMoved(i)
  <2> DEFINE e == NoteSubscribed(j, entry[j])
  <2>1. e \in Entries /\ NoNewTimer(entry[j], e) /\ WaitsOn(entry[j], e)
    BY EntryType, NoteSubscribedType, NoteSubscribedMoves DEF WaitsOn
  <2>2. SetEntry(j, e)
    BY <1>4 DEF InitAnswered
  <2> QED
    BY <2>1, <2>2, SetEntryMoves
<1>5. ASSUME NEW j \in Interfaces, NEW c \in Callers, NEW failure \in Failures,
             InitFailed(j, c, failure)
      PROVE  EntryMoved(i)
  <2> DEFINE e == NoteInitFailure(entry[j], failure)
  <2>1. e \in Entries /\ NoNewTimer(entry[j], e) /\ WaitsWithTimer(e)
    BY EntryType, NoteInitFailureType, NoteInitFailureMoves DEF TypeOK
  <2>2. SetEntry(j, e) /\ attempt[j][c].stage \in {"sent", "worked", "sweep"}
    BY <1>5 DEF InitFailed, At
  <2> QED
    BY <2>1, <2>2, SetEntryMoves
<1>6. ASSUME NEW j \in Interfaces,
             NEW e, e = [entry[j] EXCEPT !.subscribing = FALSE]
      PROVE  e \in Entries /\ NoNewTimer(entry[j], e) /\ WaitsOn(entry[j], e)
                /\ e.retryTimer = entry[j].retryTimer /\ e.liveness = entry[j].liveness
  BY <1>6, EntryType DEF Entries, NoNewTimer, WaitsOn
<1>7. ASSUME NEW j \in Interfaces, NEW c \in Callers, SweepDone(j, c) PROVE EntryMoved(i)
  BY <1>6, <1>7, SetEntryMoves DEF SweepDone
<1>8. ASSUME NEW j \in Interfaces, NEW c \in Callers, NEW failure \in Failures,
             SweepFailed(j, c, failure)
      PROVE  EntryMoved(i)
  <2> DEFINE d == [entry[j] EXCEPT !.subscribing = FALSE]
             e == NoteInitFailure(d, failure)
  <2>1. d \in Entries /\ d.retryTimer = entry[j].retryTimer /\ d.liveness = entry[j].liveness
    BY <1>6
  <2>2. SetEntry(j, e) /\ attempt[j][c].stage \in {"sent", "worked", "sweep"}
    BY <1>8 DEF SweepFailed, At
  <2> HIDE DEF d
  <2>3. e \in Entries /\ NoNewTimer(d, e) /\ WaitsWithTimer(e)
    BY <2>1, NoteInitFailureType, NoteInitFailureMoves DEF TypeOK
  <2>4. NoNewTimer(entry[j], e)
    BY <2>1, <2>3 DEF NoNewTimer
  <2> QED
    BY <2>2, <2>3, <2>4, SetEntryMoves
<1> QED
  BY <1>1, <1>2, <1>3, <1>4, <1>5, <1>7, <1>8 DEF AttemptNext

LEMMA TimerStepMovesEntry ==
    ASSUME TypeOK, TimerNext, NEW i \in Interfaces
    PROVE  EntryMoved(i)
<1> USE DEF methodVars, serverVars, worldVars, boundVars
<1>1. ASSUME NEW listing \in SUBSET Interfaces, Tick(listing) PROVE EntryMoved(i)
  <2> DEFINE mute == {j \in Interfaces :
                 ~QuietByNature(j, listing) /\ entry[j].silence = "silent"}
             due == {j \in mute : Due(j)}
             after == [j \in Interfaces |->
                 CASE QuietByNature(j, listing) -> [entry[j] EXCEPT !.silence = "fresh"]
                   [] j \in mute -> [entry[j] EXCEPT !.connected = FALSE]
                   [] OTHER -> entry[j]]
  <2>1. ASSUME NEW j \in Interfaces
        PROVE  /\ after[j] \in Entries
               /\ after[j].waiting = entry[j].waiting
               /\ after[j].retryTimer = entry[j].retryTimer
               /\ after[j].liveness = entry[j].liveness
    <3>1. \A e \in {[entry[j] EXCEPT !.silence = "fresh"],
                    [entry[j] EXCEPT !.connected = FALSE], entry[j]} :
             /\ e \in Entries /\ e.waiting = entry[j].waiting
             /\ e.retryTimer = entry[j].retryTimer /\ e.liveness = entry[j].liveness
      BY ZenonT(40), EntryType DEF Entries, Silences
    <3>2. after[j] \in {[entry[j] EXCEPT !.silence = "fresh"],
                        [entry[j] EXCEPT !.connected = FALSE], entry[j]}
      OBVIOUS
    <3> QED
      BY <3>1, <3>2
  <2>2. due \in SUBSET Interfaces /\ BeginInit("tick", due, after, closedPorts')
    BY <1>1 DEF Tick
  <2>3. after \in [Interfaces -> Entries]
    BY <2>1
  <2> HIDE DEF due, after
  <2>4. NoNewTimer(entry[i], after[i]) /\ WaitsOn(entry[i], after[i])
    BY <2>1 DEF NoNewTimer, WaitsOn
  <2> QED
    BY <2>2, <2>3, <2>4, BeginInitEntryMoves DEF Callers, WaitsOn
<1>2. ASSUME NEW j \in Interfaces, NEW c \in Callers, NEW e \in Entries,
             BeginInit(c, {j}, [entry EXCEPT ![j] = e], closedPorts'),
             NoNewTimer(entry[j], e), e.waiting => entry[j].waiting
      PROVE  EntryMoved(i)
  <2> DEFINE after == [entry EXCEPT ![j] = e]
  <2>1. /\ after \in [Interfaces -> Entries] /\ after[j] = e
        /\ i # j => after[i] = entry[i]
    BY DEF TypeOK
  <2> HIDE DEF after
  <2>2. NoNewTimer(entry[i], after[i]) /\ (i \notin {j} => WaitsOn(entry[i], after[i]))
           /\ (after[i].waiting => entry[i].waiting)
    BY <1>2, <2>1 DEF NoNewTimer, WaitsOn
  <2> QED
    BY <1>2, <2>1, <2>2, BeginInitEntryMoves DEF after
<1>3. ASSUME NEW j \in Interfaces, RetryFires(j) PROVE EntryMoved(i)
  <2> DEFINE e == [entry[j] EXCEPT !.retryTimer = FALSE]
  <2>1. e \in Entries /\ NoNewTimer(entry[j], e) /\ (e.waiting => entry[j].waiting)
    BY EntryType DEF Entries, NoNewTimer
  <2>2. BeginInit("retry", {j}, [entry EXCEPT ![j] = e], closedPorts')
    BY <1>3 DEF RetryFires
  <2> QED
    BY <1>2, <2>1, <2>2 DEF Callers
<1>4. ASSUME NEW j \in Interfaces, PongMissing(j) PROVE EntryMoved(i)
  <2> DEFINE e == NoteLost(entry[j])
  <2>1. e \in Entries /\ NoNewTimer(entry[j], e) /\ (e.waiting => entry[j].waiting)
    BY EntryType, NoteLostType, NoteLostMoves DEF NoNewTimer
  <2>2. BeginInit("lost", {j}, [entry EXCEPT ![j] = e], closedPorts')
    BY <1>4 DEF PongMissing
  <2> QED
    BY <1>2, <2>1, <2>2 DEF Callers
<1>5. ASSUME NEW j \in Interfaces, LivenessDropped(j) PROVE EntryMoved(i)
  <2> DEFINE e == [entry[j] EXCEPT !.liveness = "off"]
  <2>1. e \in Entries /\ NoNewTimer(entry[j], e) /\ WaitsOn(entry[j], e)
    BY EntryType DEF Entries, LivenessTimers, NoNewTimer, WaitsOn
  <2> QED
    BY <1>5, <2>1, SetEntryMoves DEF LivenessDropped
<1>6. ASSUME NEW j \in Interfaces, LivenessPing(j) PROVE EntryMoved(i)
  <2> DEFINE e == [entry[j] EXCEPT !.liveness = "pong", !.ponged = FALSE]
  <2>1. e \in Entries /\ e.retryTimer = entry[j].retryTimer /\ WaitsOn(entry[j], e)
    BY EntryType DEF Entries, LivenessTimers, WaitsOn
  <2>2. NoNewTimer(entry[j], e)
    BY <1>6, <2>1 DEF LivenessPing, NoNewTimer, Resting
  <2> QED
    BY <1>6, <2>1, <2>2, SetEntryMoves DEF LivenessPing
<1>7. ASSUME NEW j \in Interfaces, PongCame(j) PROVE EntryMoved(i)
  BY <1>7, EntryType, ArmLivenessType, ArmLivenessMoves, SetEntryMoves DEF PongCame
<1>8. ASSUME NEW j \in Interfaces, FallsSilent(j) \/ BackoffEnds(j) \/ WindowCloses(j)
      PROVE  EntryMoved(i)
  <2>1. ASSUME NEW e, \/ \E t \in Silences : e = [entry[j] EXCEPT !.silence = t]
                      \/ e = [entry[j] EXCEPT !.backoff = FALSE]
                      \/ e = [entry[j] EXCEPT !.window = FALSE]
        PROVE  e \in Entries /\ NoNewTimer(entry[j], e) /\ WaitsOn(entry[j], e)
    BY <2>1, EntryType DEF Entries, NoNewTimer, WaitsOn
  <2>2. PICK e : /\ SetEntry(j, e)
                 /\ \/ \E t \in Silences : e = [entry[j] EXCEPT !.silence = t]
                    \/ e = [entry[j] EXCEPT !.backoff = FALSE]
                    \/ e = [entry[j] EXCEPT !.window = FALSE]
    BY <1>8 DEF FallsSilent, BackoffEnds, WindowCloses, Silences
  <2> QED
    BY <2>1, <2>2, SetEntryMoves
<1> QED
  BY <1>1, <1>3, <1>4, <1>5, <1>6, <1>7, <1>8 DEF TimerNext

LEMMA WorldStepMovesEntry ==
    ASSUME TypeOK, WorldNext, NEW i \in Interfaces
    PROVE  EntryMoved(i)
<1>1. ASSUME NEW j \in Interfaces, EventArrives(j) \/ DeviceCallbackArrives(j)
      PROVE  EntryMoved(i)
  <2>1. ASSUME NEW kind, SetEntry(j, NoteEvent(j, entry[j], kind)) PROVE EntryMoved(i)
    BY <2>1, EntryType, NoteEventType, NoteEventMoves, SetEntryMoves
  <2>2. \/ entry' = entry
        \/ \E kind : SetEntry(j, NoteEvent(j, entry[j], kind))
    BY <1>1 DEF EventArrives, DeviceCallbackArrives, SetEntry
  <2> QED
    BY <2>1, <2>2, SameEntryMoves
<1>2. CASE entry' = entry
  BY <1>2, SameEntryMoves
<1> QED
  BY <1>1, <1>2 DEF WorldNext, SendsEvent, LeaveWorked, LeaveGivenUp, LateWorked, LateLost,
                    Dies, Restarts, CallbackHeldUp, AddressMoves

LEMMA EntryMoves ==
    ASSUME TypeOK, Next, NEW i \in Interfaces
    PROVE  EntryMoved(i)
  BY ManagerStepMovesEntry, AttemptStepMovesEntry, TimerStepMovesEntry,
     WorldStepMovesEntry DEF Next

-----------------------------------------------------------------------------
(* The inductive invariant.                                                *)

(* Which methods may be pending, and that an idle manager was started.     *)
MethodsOrdered ==
    /\ "stop" \in calls => stopping
    /\ "open" \in calls => ~configured
    /\ idle => configured \/ stopping

(* Before the clients are made nothing runs.                               *)
NothingBeforeStart ==
    ~configured /\ ~stopping =>
        \A i \in Interfaces :
            /\ ~entry[i].retryTimer /\ entry[i].liveness = "off"
            /\ \A c \in Callers : attempt[i][c].stage = "none"

(* Every callback server is open or known not to be; no #init() goes on    *)
(* without one, and no interface waits for its retry behind a closed port. *)
PortsAccounted ==
    ~stopping =>
        /\ configured => \A i \in Interfaces : ProtocolOf[i] \in listening \union closedPorts
        /\ \A i \in Interfaces, c \in Callers :
              attempt[i][c].stage = "resolve" => ProtocolOf[i] \in listening
        /\ configured => \A i \in Interfaces : PortClosed(i, closedPorts) =>
              /\ ~entry[i].waiting
              /\ \A c \in Callers : attempt[i][c].stage \in {"none", "reopen"}

(* An interface that waits has its timer or an #init() before its answer:  *)
(* the device sweep of an older one does not count.                        *)
WaitingIsPursued ==
    configured /\ ~stopping /\ ~idle =>
        \A i \in Interfaces : entry[i].waiting =>
            entry[i].retryTimer \/ \E c \in Callers : attempt[i][c].stage \in Pending

IInv ==
    /\ TypeOK
    /\ SentNamesUrl
    /\ MethodsOrdered
    /\ StoppedIsQuiet
    /\ IdleIsQuiet
    /\ NothingBeforeStart
    /\ PortsAccounted
    /\ WaitingIsPursued

LEMMA InitKeeps == Init => IInv
<1> SUFFICES ASSUME Init PROVE IInv
  OBVIOUS
<1>1. TypeOK
  BY TypeOfInit
<1>2. \A i \in Interfaces, c \in Callers : attempt[i][c] = NoAttempt
  BY DEF Init
<1>3. \A i \in Interfaces : entry[i] = NewEntry
  BY DEF Init
<1> QED
  BY <1>1, <1>2, <1>3
     DEF Init, IInv, SentNamesUrl, At, NoAttempt, MethodsOrdered, StoppedIsQuiet,
         IdleIsQuiet, NothingBeforeStart, NewEntry, PortsAccounted, WaitingIsPursued

(* What the steps do to the flags of the manager.                          *)
LEMMA MethodMoves ==
    ASSUME IInv, Next
    PROVE  /\ MethodsOrdered'
           /\ stopping => stopping'
           /\ configured' # configured =>
                 stopping \/ \E failed \in SUBSET FixedPorts : StartOpened(failed)
           /\ idle' /\ ~idle => Unsubscribe
           /\ idle /\ ~idle' => Subscribe
           /\ ~stopping /\ stopping' => Stop
           /\ "unsubscribe" \in calls /\ "unsubscribe" \notin calls' => UnsubscribeDone
<1>1. MethodsOrdered /\ TypeOK
  BY DEF IInv
<1>2. CASE UNCHANGED methodVars
  BY <1>1, <1>2 DEF methodVars, MethodsOrdered
<1>3. CASE ManagerNext
  <2>1. CASE Start
    BY <1>1, <2>1 DEF Start, MethodsOrdered
  <2>2. ASSUME NEW failed \in SUBSET FixedPorts, StartOpened(failed)
        PROVE  /\ MethodsOrdered' /\ idle' = idle /\ stopping' = stopping
               /\ "unsubscribe" \in calls => "unsubscribe" \in calls'
    BY <1>1, <2>2 DEF StartOpened, MethodsOrdered
  <2>3. ASSUME NEW probes \in SUBSET {"probe"}, StartDone(probes)
        PROVE  /\ MethodsOrdered' /\ idle' = idle /\ stopping' = stopping
               /\ configured' = configured
               /\ "unsubscribe" \in calls => "unsubscribe" \in calls'
    BY <1>1, <2>3 DEF StartDone, MethodsOrdered
  <2>4. CASE Unsubscribe
    BY <1>1, <2>4 DEF Unsubscribe, MethodsOrdered
  <2>5. CASE UnsubscribeDone
    BY <1>1, <2>5 DEF UnsubscribeDone, MethodsOrdered
  <2>6. CASE Subscribe
    BY <1>1, <2>6 DEF Subscribe, MethodsOrdered
  <2>7. CASE SubscribeDone
    BY <1>1, <2>7 DEF SubscribeDone, MethodsOrdered
  <2>8. CASE Stop
    BY <1>1, <2>8 DEF Stop, MethodsOrdered
  <2>9. CASE StopLeft \/ StopDone
    BY <1>1, <2>9 DEF StopLeft, StopDone, MethodsOrdered
  <2>10. ASSUME NEW names \in SUBSET Interfaces, Reconnect(names)
         PROVE  UNCHANGED methodVars
    BY <2>10 DEF Reconnect
  <2>11. ASSUME NEW refused \in SUBSET Interfaces, NEW mute \in SUBSET Interfaces,
                ProbeDone(refused, mute)
         PROVE  /\ MethodsOrdered' /\ idle' = idle /\ stopping' = stopping
                /\ configured' = configured
                /\ "unsubscribe" \in calls => "unsubscribe" \in calls'
    BY <1>1, <2>11 DEF ProbeDone, MethodsOrdered
  <2> QED
    BY <1>2, <1>3, <2>1, <2>2, <2>3, <2>4, <2>5, <2>6, <2>7, <2>8, <2>9, <2>10, <2>11
       DEF ManagerNext
<1>4. CASE AttemptNext
  BY <1>2, <1>4 DEF AttemptNext, Reopened, Resolved, InitWorked, InitAnswered, InitFailed,
                    SweepDone, SweepFailed
<1>5. CASE TimerNext
  BY <1>2, <1>5 DEF TimerNext, Tick, RetryFires, LivenessDropped, LivenessPing, PongCame,
                    PongMissing, FallsSilent, BackoffEnds, WindowCloses
<1>6. CASE WorldNext
  BY <1>2, <1>6 DEF WorldNext, EventArrives, DeviceCallbackArrives, SendsEvent, LeaveWorked,
                    LeaveGivenUp, LateWorked, LateLost, Dies, Restarts, CallbackHeldUp,
                    AddressMoves
<1> QED
  BY <1>3, <1>4, <1>5, <1>6 DEF Next

(* What they do to the callback servers.                                   *)
LEMMA ServerMoves ==
    ASSUME IInv, Next
    PROVE  \/ stopping
           \/ \E failed \in SUBSET FixedPorts : StartOpened(failed)
           \/ /\ listening \subseteq listening'
              /\ closedPorts' \subseteq closedPorts
              /\ closedPorts \subseteq closedPorts' \union listening'
<1>1. CASE UNCHANGED <<listening, closedPorts>>
  BY <1>1
<1>2. ASSUME NEW p \in Protocols, NEW works \in BOOLEAN, Reopened(p, works)
      PROVE  /\ listening \subseteq listening'
             /\ closedPorts' \subseteq closedPorts
             /\ closedPorts \subseteq closedPorts' \union listening'
  BY <1>2 DEF Reopened
<1>3. CASE StopLeft \/ StopDone
  BY <1>3 DEF StopLeft, StopDone, serverVars, IInv, MethodsOrdered
<1>4. CASE ManagerNext
  BY <1>1, <1>3, <1>4
     DEF ManagerNext, Start, StartDone, Unsubscribe, UnsubscribeDone, Subscribe,
         SubscribeDone, Stop, Reconnect, ProbeDone, serverVars
<1>5. CASE AttemptNext
  BY ZenonT(40), <1>1, <1>2, <1>5 DEF AttemptNext, Resolved, InitWorked, InitAnswered, InitFailed,
                          SweepDone, SweepFailed, serverVars
<1>6. CASE TimerNext
  BY <1>1, <1>6 DEF TimerNext, Tick, RetryFires, LivenessDropped, LivenessPing, PongCame,
                    PongMissing, FallsSilent, BackoffEnds, WindowCloses, serverVars
<1>7. CASE WorldNext
  BY <1>1, <1>7 DEF WorldNext, EventArrives, DeviceCallbackArrives, SendsEvent, LeaveWorked,
                    LeaveGivenUp, LateWorked, LateLost, Dies, Restarts, CallbackHeldUp,
                    AddressMoves, serverVars
<1> QED
  BY <1>4, <1>5, <1>6, <1>7 DEF Next

(* Before the clients are made no step touches an interface.               *)
LEMMA NothingMovesBeforeStart ==
    ASSUME IInv, Next, ~configured, ~configured', ~stopping, ~stopping',
           NEW i \in Interfaces, NEW c \in Callers
    PROVE  entry'[i] = entry[i] /\ attempt'[i][c].stage = attempt[i][c].stage
<1>1. \A j \in Interfaces :
         /\ ~entry[j].retryTimer /\ entry[j].liveness = "off"
         /\ \A d \in Callers : attempt[j][d].stage = "none"
  BY DEF IInv, NothingBeforeStart
<1>2. CASE entry' = entry /\ attempt' = attempt
  BY <1>2
<1>3. CASE ManagerNext
  <2>1. ASSUME NEW refused \in SUBSET Interfaces, NEW mute \in SUBSET Interfaces,
               ProbeDone(refused, mute)
        PROVE  entry'[i] = entry[i] /\ attempt' = attempt
    BY <2>1 DEF ProbeDone
  <2>2. ASSUME NEW failed \in SUBSET FixedPorts, StartOpened(failed) PROVE FALSE
    BY <2>2 DEF StartOpened
  <2>3. CASE UnsubscribeDone
    BY <1>2, <2>3 DEF UnsubscribeDone
  <2>4. CASE Start \/ (\E probes \in SUBSET {"probe"} : StartDone(probes))
             \/ SubscribeDone \/ StopLeft \/ StopDone
    BY <1>2, <2>4 DEF Start, StartDone, SubscribeDone, StopLeft, StopDone
  <2>5. ~Unsubscribe /\ ~Subscribe /\ ~Stop
          /\ \A names \in SUBSET Interfaces : ~Reconnect(names)
    BY DEF Unsubscribe, Subscribe, Stop, Reconnect
  <2> QED
    BY <1>3, <2>1, <2>2, <2>3, <2>4, <2>5 DEF ManagerNext
<1>4. CASE AttemptNext
  <2>1. ASSUME NEW p \in Protocols, NEW works \in BOOLEAN, Reopened(p, works)
        PROVE  entry'[i] = entry[i] /\ attempt'[i][c] = attempt[i][c]
    <3>1. \A d \in Callers : ~At(i, d, "reopen")
      BY <1>1 DEF At
    <3>2. entry'[i] = entry[i]
      BY <2>1, <3>1 DEF Reopened
    <3>3. attempt'[i][c] = attempt[i][c]
      BY <2>1, <3>1 DEF Reopened
    <3> QED
      BY <3>2, <3>3
  <2>2. ASSUME NEW j \in Interfaces, NEW d \in Callers, NEW failure \in Failures,
               \/ Resolved(j, d) \/ InitWorked(j, d) \/ InitAnswered(j, d)
               \/ InitFailed(j, d, failure) \/ SweepDone(j, d) \/ SweepFailed(j, d, failure)
        PROVE  FALSE
    BY <1>1, <2>2 DEF Resolved, InitWorked, InitAnswered, InitFailed, SweepDone,
                      SweepFailed, At
  <2> QED
    BY <1>4, <2>1, <2>2 DEF AttemptNext, Failures
<1>5. ~TimerNext
  BY <1>1 DEF TimerNext, Tick, RetryFires, LivenessDropped, LivenessPing, PongCame,
              PongMissing, PongDue, FallsSilent, BackoffEnds, WindowCloses
<1>6. CASE WorldNext
  BY <1>2, <1>6 DEF WorldNext, EventArrives, DeviceCallbackArrives, SendsEvent, LeaveWorked,
                    LeaveGivenUp, LateWorked, LateLost, Dies, Restarts, CallbackHeldUp,
                    AddressMoves
<1> QED
  BY <1>3, <1>4, <1>5, <1>6 DEF Next

LEMMA NothingBeforeStartKept ==
    ASSUME IInv, Next
    PROVE  NothingBeforeStart'
<1> SUFFICES ASSUME ~configured', ~stopping',
                    NEW i \in Interfaces
             PROVE  /\ ~entry'[i].retryTimer /\ entry'[i].liveness = "off"
                    /\ \A c \in Callers : attempt'[i][c].stage = "none"
  BY DEF NothingBeforeStart
<1>1. ~stopping
  BY MethodMoves
<1>2. \A failed \in SUBSET FixedPorts : ~StartOpened(failed)
  BY DEF StartOpened
<1>3. ~configured
  BY <1>1, <1>2, MethodMoves DEF IInv, TypeOK
<1>4. Callers # {}
  BY DEF Callers
<1> QED
  BY <1>1, <1>3, <1>4, NothingMovesBeforeStart DEF IInv, NothingBeforeStart

LEMMA SentNamesUrlKept ==
    ASSUME IInv, Next
    PROVE  SentNamesUrl'
<1> SUFFICES ASSUME NEW i \in Interfaces, NEW c \in Callers, attempt'[i][c].stage = "sent"
             PROVE  attempt'[i][c].url # NoAddress
  BY DEF SentNamesUrl, At
<1>1. TypeOK /\ SentNamesUrl
  BY DEF IInv
<1>2. CASE attempt'[i][c] = attempt[i][c]
  BY <1>1, <1>2 DEF SentNamesUrl, At
<1>3. CASE GoneOn(i, c)
  BY <1>1, <1>3, AddressAssumption DEF GoneOn, TypeOK
<1> QED
  BY <1>1, <1>2, <1>3, AttemptMoves DEF Moved, Begun

LEMMA StoppedIsQuietKept ==
    ASSUME IInv, Next
    PROVE  StoppedIsQuiet'
<1> SUFFICES ASSUME stopping', NEW i \in Interfaces
             PROVE  ~entry'[i].retryTimer /\ entry'[i].liveness = "off"
  BY DEF StoppedIsQuiet
<1>1. TypeOK /\ StoppedIsQuiet
  BY DEF IInv
<1>2. CASE stopping
  BY <1>1, <1>2, EntryMoves DEF StoppedIsQuiet, EntryMoved, NoNewTimer, Resting
<1>3. CASE ~stopping
  <2>1. Stop
    BY <1>3, MethodMoves
  <2>2. entry'[i] = [entry[i] EXCEPT !.retryTimer = FALSE, !.liveness = "off"]
    BY <2>1 DEF Stop
  <2> QED
    BY <1>1, <2>2, EntryType DEF Entries
<1> QED
  BY <1>2, <1>3

LEMMA IdleIsQuietKept ==
    ASSUME IInv, Next
    PROVE  IdleIsQuiet'
<1> SUFFICES ASSUME idle', "unsubscribe" \notin calls', NEW i \in Interfaces
             PROVE  ~entry'[i].retryTimer /\ entry'[i].liveness = "off"
  BY DEF IdleIsQuiet
<1>1. TypeOK /\ IdleIsQuiet /\ StoppedIsQuiet /\ MethodsOrdered
  BY DEF IInv
<1>2. idle
  <2>1. ~Unsubscribe
    BY DEF Unsubscribe
  <2> QED
    BY <2>1, MethodMoves
<1>3. CASE "unsubscribe" \notin calls
  BY <1>1, <1>2, <1>3, EntryMoves DEF IdleIsQuiet, EntryMoved, NoNewTimer, Resting
<1>4. CASE "unsubscribe" \in calls
  <2>1. UnsubscribeDone
    BY <1>4, MethodMoves
  <2>2. CASE configured
    <3>1. entry'[i] = NoteUnsubscribed(entry[i])
      BY <2>1, <2>2 DEF UnsubscribeDone
    <3> QED
      BY <1>1, <3>1, EntryType, NoteUnsubscribedMoves
  <2>3. CASE ~configured
    <3>1. stopping
      BY <1>1, <1>2, <2>3 DEF MethodsOrdered
    <3> QED
      BY <1>1, <2>1, <2>3, <3>1 DEF UnsubscribeDone, StoppedIsQuiet
  <2> QED
    BY <2>2, <2>3
<1> QED
  BY <1>3, <1>4

(* #init() begins only in a manager that has its clients.                  *)
LEMMA BegunIsConfigured ==
    ASSUME IInv, Next, NEW i \in Interfaces, NEW c \in Callers, Begun(i, c), ~stopping'
    PROVE  configured'
<1>1. ~stopping /\ attempt[i][c].stage = "none" /\ attempt'[i][c].stage # "none"
  BY DEF Begun
<1>2. CASE configured
  <2>1. CASE \E failed \in SUBSET FixedPorts : StartOpened(failed)
    BY <2>1 DEF StartOpened
  <2> QED
    BY <1>1, <1>2, <2>1, MethodMoves
<1>3. CASE ~configured
  BY <1>1, <1>3, NothingMovesBeforeStart DEF IInv, TypeOK
<1> QED
  BY <1>2, <1>3

LEMMA PortsAccountedKept ==
    ASSUME IInv, Next
    PROVE  PortsAccounted'
<1> SUFFICES ASSUME ~stopping'
             PROVE  PortsAccounted'
  BY DEF PortsAccounted
<1>1. ~stopping /\ TypeOK /\ PortsAccounted /\ NothingBeforeStart
  BY MethodMoves DEF IInv
<1>2. ASSUME NEW failed \in SUBSET FixedPorts, StartOpened(failed),
             NEW i \in Interfaces
      PROVE  /\ ProtocolOf[i] \in listening' \union closedPorts'
             /\ PortClosed(i, closedPorts') => ~entry'[i].waiting
             /\ ~configured
  <2> DEFINE after == [j \in Interfaces |-> NewEntry]
  <2>1. after \in [Interfaces -> Entries] /\ after[i] = NewEntry
    BY NewEntryType
  <2>2. BeginInit("start", Interfaces, after, failed)
    BY <1>2 DEF StartOpened
  <2> HIDE DEF after
  <2>3. ~entry'[i].waiting
    BY <2>1, <2>2, BeginInitEntry DEF NewEntry, Callers
  <2>4. ProtocolOf[i] \in listening' \union closedPorts'
    BY <1>2 DEF StartOpened
  <2>5. ~configured
    BY <1>2 DEF StartOpened, IInv, MethodsOrdered
  <2> QED
    BY <2>3, <2>4, <2>5
<1>3. ASSUME NEW i \in Interfaces, configured'
      PROVE  ProtocolOf[i] \in listening' \union closedPorts'
  <2>1. CASE \E failed \in SUBSET FixedPorts : StartOpened(failed)
    BY <1>2, <2>1
  <2>2. CASE ~\E failed \in SUBSET FixedPorts : StartOpened(failed)
    <3>1. configured
      BY <1>1, <1>3, <2>2, MethodMoves DEF TypeOK
    <3>2. ProtocolOf[i] \in listening \union closedPorts
      BY <1>1, <3>1 DEF PortsAccounted
    <3> QED
      BY <1>1, <2>2, <3>2, ServerMoves
  <2> QED
    BY <2>1, <2>2
<1>4. ASSUME NEW i \in Interfaces, NEW c \in Callers, attempt'[i][c].stage = "resolve"
      PROVE  ProtocolOf[i] \in listening'
  <2>1. Moved(i, c)
    BY <1>1, AttemptMoves
  <2>2. CASE attempt'[i][c] = attempt[i][c]
    <3>1. ProtocolOf[i] \in listening
      BY <1>1, <1>4, <2>2 DEF PortsAccounted
    <3>2. ASSUME NEW failed \in SUBSET FixedPorts, StartOpened(failed) PROVE FALSE
      <4>1. ~configured
        BY <1>2, <3>2
      <4> QED
        BY <1>1, <1>4, <2>2, <4>1 DEF NothingBeforeStart
    <3> QED
      BY <1>1, <3>1, <3>2, ServerMoves
  <2>3. CASE Begun(i, c)
    <3>1. configured' /\ ~PortClosed(i, closedPorts')
      BY <1>4, <2>3, BegunIsConfigured DEF Begun
    <3> QED
      BY <1>3, <3>1 DEF PortClosed
  <2>4. CASE GoneOn(i, c)
    BY <1>4, <2>4 DEF GoneOn
  <2> QED
    BY <1>4, <2>1, <2>2, <2>3, <2>4 DEF Moved
<1>5. ASSUME NEW i \in Interfaces, configured', PortClosed(i, closedPorts')
      PROVE  /\ ~entry'[i].waiting
             /\ \A c \in Callers : attempt'[i][c].stage \in {"none", "reopen"}
  <2>1. /\ \A c \in Callers : attempt[i][c].stage \in {"none", "reopen"}
        /\ ~entry'[i].waiting
    <3>1. CASE \E failed \in SUBSET FixedPorts : StartOpened(failed)
      BY <1>1, <1>2, <1>5, <3>1 DEF NothingBeforeStart
    <3>2. CASE ~\E failed \in SUBSET FixedPorts : StartOpened(failed)
      <4>1. configured /\ PortClosed(i, closedPorts)
        BY <1>1, <1>5, <3>2, MethodMoves, ServerMoves DEF TypeOK, PortClosed
      <4>2. /\ ~entry[i].waiting
            /\ \A c \in Callers : attempt[i][c].stage \in {"none", "reopen"}
        BY <1>1, <4>1 DEF PortsAccounted
      <4>3. EntryMoved(i)
        BY <1>1, EntryMoves
      <4> QED
        BY <4>2, <4>3 DEF EntryMoved, WaitsOn
    <3> QED
      BY <3>1, <3>2
  <2>2. ASSUME NEW c \in Callers PROVE attempt'[i][c].stage \in {"none", "reopen"}
    <3>1. Moved(i, c) /\ attempt[i][c].stage \in {"none", "reopen"}
      BY <1>1, <2>1, AttemptMoves
    <3> QED
      BY <1>5, <3>1 DEF Moved, Begun, GoneOn
  <2> QED
    BY <2>1, <2>2
<1> QED
  BY <1>3, <1>4, <1>5 DEF PortsAccounted

(* An #init() that ends before its answer leaves a timer to an interface   *)
(* that waits.                                                             *)
LEMMA EndLeavesTimer ==
    ASSUME TypeOK, Next, ~stopping, NEW i \in Interfaces, NEW c \in Callers,
           attempt[i][c].stage \in Pending, attempt'[i][c].stage \notin Pending
    PROVE  WaitsWithTimer(entry'[i])
<1>1. attempt \in [Interfaces -> [Callers -> AttemptRecords]]
  BY DEF TypeOK, AttemptRecords, Urls
<1>2. ASSUME NEW j \in Interfaces, NEW d \in Callers, NEW r,
             attempt' = [attempt EXCEPT ![j][d] = r]
      PROVE  i = j /\ c = d
  BY <1>1, <1>2
<1>3. entry[i] \in Entries
  BY EntryType
<1>4. ASSUME NEW e, SetEntry(i, e) PROVE entry'[i] = e
  BY <1>4 DEF SetEntry, TypeOK
<1>5. ASSUME NEW j \in Interfaces, NEW d \in Callers, NEW failure \in Failures,
             InitFailed(j, d, failure)
      PROVE  WaitsWithTimer(entry'[i])
  <2>1. i = j
    BY <1>2, <1>5 DEF InitFailed, EndAttempt
  <2> QED
    BY <1>3, <1>4, <1>5, <2>1, NoteInitFailureMoves DEF InitFailed
<1>6. ASSUME NEW j \in Interfaces, NEW d \in Callers, InitAnswered(j, d)
      PROVE  WaitsWithTimer(entry'[i])
  <2>1. i = j
    <3>1. \E r : attempt' = [attempt EXCEPT ![j][d] = r]
      BY <1>6 DEF InitAnswered, MoveTo
    <3> QED
      BY <1>2, <3>1
  <2> QED
    BY <1>3, <1>4, <1>6, <2>1, NoteSubscribedMoves DEF InitAnswered, WaitsWithTimer
<1>7. ASSUME NEW j \in Interfaces, NEW d \in Callers, NEW failure \in Failures,
             \/ Resolved(j, d) \/ InitWorked(j, d) \/ SweepDone(j, d)
             \/ SweepFailed(j, d, failure)
      PROVE  FALSE
  <2>1. CASE Resolved(j, d)
    <3>1. attempt' = [attempt EXCEPT ![j][d] = [stage |-> "sent", url |-> address]]
      BY <2>1 DEF Resolved
    <3>2. i = j /\ c = d
      BY <1>2, <3>1
    <3>3. attempt'[i][c].stage = "sent"
      BY <1>1, <3>1, <3>2
    <3> QED
      BY <3>3 DEF Pending
  <2>2. CASE InitWorked(j, d)
    <3>1. attempt' = [attempt EXCEPT ![j][d] = [attempt[j][d] EXCEPT !.stage = "worked"]]
      BY <1>1, <2>2 DEF InitWorked, MoveTo
    <3>2. i = j /\ c = d
      BY <1>2, <3>1
    <3>3. attempt'[i][c].stage = "worked"
      BY <1>1, <3>1, <3>2 DEF AttemptRecords
    <3> QED
      BY <3>3 DEF Pending
  <2>3. CASE SweepDone(j, d) \/ SweepFailed(j, d, failure)
    <3>1. i = j /\ c = d
      BY <1>2, <2>3 DEF SweepDone, SweepFailed, EndAttempt
    <3> QED
      BY <2>3, <3>1 DEF SweepDone, SweepFailed, At, Pending
  <2> QED
    BY <1>7, <2>1, <2>2, <2>3
<1>8. ASSUME NEW p \in Protocols, NEW works \in BOOLEAN, Reopened(p, works)
      PROVE  FALSE
  <2>1. ~At(i, c, "reopen")
    BY DEF At, Pending
  <2>2. attempt'[i][c] = attempt[i][c]
    BY <1>8, <2>1 DEF Reopened
  <2> QED
    BY <2>2
<1>9. ~(attempt' = attempt)
  OBVIOUS
<1>10. CASE AttemptNext
  BY <1>5, <1>6, <1>7, <1>8, <1>10 DEF AttemptNext, Failures
<1>11. CASE \/ \E failed \in SUBSET FixedPorts : StartOpened(failed)
            \/ Subscribe
            \/ \E names \in SUBSET Interfaces : Reconnect(names)
            \/ \E listing \in SUBSET Interfaces : Tick(listing)
            \/ \E j \in Interfaces : RetryFires(j) \/ PongMissing(j)
  <2>1. PICK d \in Callers, names \in SUBSET Interfaces :
           \E after, closed : BeginInit(d, names, after, closed)
    <3>1. ASSUME NEW listing \in SUBSET Interfaces, Tick(listing)
          PROVE  \E d \in Callers, names \in SUBSET Interfaces :
                    \E after, closed : BeginInit(d, names, after, closed)
      <4>1. {j \in {k \in Interfaces : ~QuietByNature(k, listing)
                                          /\ entry[k].silence = "silent"} : Due(j)}
                \in SUBSET Interfaces
        OBVIOUS
      <4> QED
        BY <3>1, <4>1 DEF Tick, Callers
    <3>2. ASSUME NEW failed \in SUBSET FixedPorts, StartOpened(failed)
          PROVE  \E d \in Callers, names \in SUBSET Interfaces :
                    \E after, closed : BeginInit(d, names, after, closed)
      BY <3>2 DEF StartOpened, Callers
    <3>3. ASSUME NEW j \in Interfaces, RetryFires(j) \/ PongMissing(j)
          PROVE  \E d \in Callers, names \in SUBSET Interfaces :
                    \E after, closed : BeginInit(d, names, after, closed)
      BY <3>3 DEF RetryFires, PongMissing, Callers
    <3>4. ASSUME NEW names \in SUBSET Interfaces, Reconnect(names)
          PROVE  \E d \in Callers, n \in SUBSET Interfaces :
                    \E after, closed : BeginInit(d, n, after, closed)
      BY <3>4 DEF Reconnect, Callers
    <3>5. ASSUME Subscribe
          PROVE  \E d \in Callers, names \in SUBSET Interfaces :
                    \E after, closed : BeginInit(d, names, after, closed)
      BY <3>5 DEF Subscribe, Callers
    <3> QED
      BY <1>11, <3>1, <3>2, <3>3, <3>4, <3>5
  <2>2. attempt'[i][c] = attempt[i][c]
    <3>1. attempt[i][c].stage # "none"
      BY DEF Pending
    <3>2. ~(i \in names /\ c = d)
      BY <2>1, <3>1 DEF BeginInit, CanInit, InFlight
    <3> QED
      BY <1>1, <2>1, <3>2 DEF BeginInit
  <2> QED
    BY <2>2
<1> QED
  BY <1>9, <1>10, <1>11, OthersLeaveAttempts

LEMMA SubscribeBegins ==
    ASSUME TypeOK, Subscribe, NEW i \in Interfaces
    PROVE  InitBegun(i)
<1>1. PICK after : BeginInit("subscribe", Interfaces, after, closedPorts')
  BY DEF Subscribe
<1>2. attempt'[i]["subscribe"].stage = FirstStage(i, after[i], closedPorts')
  BY <1>1, BeginInitMoves DEF Callers
<1>3. ~stopping /\ ~PortClosed(i, closedPorts') =>
          FirstStage(i, after[i], closedPorts') = "resolve"
  BY DEF FirstStage
<1> QED
  BY <1>2, <1>3 DEF InitBegun, Callers

LEMMA StartedNotWaiting ==
    ASSUME NEW failed, StartOpened(failed), NEW i \in Interfaces
    PROVE  ~entry'[i].waiting
<1> DEFINE after == [j \in Interfaces |-> NewEntry]
<1>1. after \in [Interfaces -> Entries] /\ after[i] = NewEntry
  BY NewEntryType
<1>2. BeginInit("start", Interfaces, after, failed)
  BY DEF StartOpened
<1> HIDE DEF after
<1> QED
  BY <1>1, <1>2, BeginInitEntry DEF NewEntry, Callers

LEMMA WaitingIsPursuedKept ==
    ASSUME IInv, Next
    PROVE  WaitingIsPursued'
<1> SUFFICES ASSUME configured', ~stopping', ~idle', NEW i \in Interfaces, entry'[i].waiting
             PROVE  \/ entry'[i].retryTimer
                    \/ \E c \in Callers : attempt'[i][c].stage \in Pending
  BY DEF WaitingIsPursued
<1>1. ~stopping /\ TypeOK
  BY MethodMoves DEF IInv
<1>2. ~InitBegun(i) \/ \E c \in Callers : attempt'[i][c].stage \in Pending
  <2>1. ~PortClosed(i, closedPorts')
    BY PortsAccountedKept DEF PortsAccounted
  <2> QED
    BY <1>1, <2>1 DEF InitBegun, Pending
<1>3. CASE Subscribe
  BY <1>1, <1>2, <1>3, SubscribeBegins
<1>4. ~\E failed \in SUBSET FixedPorts : StartOpened(failed)
  BY StartedNotWaiting
<1>5. CASE ~Subscribe
  <2>1. configured /\ ~idle
    BY <1>1, <1>4, <1>5, MethodMoves DEF TypeOK
  <2>2. EntryMoved(i)
    BY <1>1, EntryMoves
  <2>3. CASE WaitsOn(entry[i], entry'[i])
    <3>1. entry[i].retryTimer \/ \E c \in Callers : attempt[i][c].stage \in Pending
      BY <1>1, <2>1, <2>3 DEF IInv, WaitingIsPursued, WaitsOn
    <3>2. ASSUME NEW c \in Callers, attempt[i][c].stage \in Pending
          PROVE  \/ entry'[i].retryTimer
                 \/ attempt'[i][c].stage \in Pending
      BY <1>1, <2>1, <3>2, EndLeavesTimer DEF WaitsWithTimer, Resting
    <3> QED
      BY <2>3, <3>1, <3>2 DEF WaitsOn
  <2>4. CASE WaitsWithTimer(entry'[i])
    BY <1>1, <2>1, <2>4 DEF WaitsWithTimer, Resting
  <2> QED
    BY <1>2, <2>2, <2>3, <2>4 DEF EntryMoved
<1> QED
  BY <1>3, <1>5

-----------------------------------------------------------------------------
LEMMA NextKeeps ==
    ASSUME IInv, Next
    PROVE  IInv'
<1>1. TypeOK'
  BY TypeOfManagerStep, TypeOfAttemptStep, TypeOfTimerStep, TypeOfWorldStep DEF IInv, Next
<1>2. MethodsOrdered'
  BY MethodMoves
<1> QED
  BY <1>1, <1>2, SentNamesUrlKept, StoppedIsQuietKept, IdleIsQuietKept,
     NothingBeforeStartKept, PortsAccountedKept, WaitingIsPursuedKept DEF IInv

LEMMA StepKeeps == IInv /\ [Next]_vars => IInv'
<1> SUFFICES ASSUME IInv, UNCHANGED vars PROVE IInv'
  BY NextKeeps
<1> USE DEF vars, methodVars, serverVars, worldVars, boundVars
<1>1. TypeOK' /\ SentNamesUrl' /\ MethodsOrdered'
  BY DEF IInv, TypeOK, SentNamesUrl, At, MethodsOrdered
<1>2. StoppedIsQuiet' /\ IdleIsQuiet' /\ NothingBeforeStart'
  BY DEF IInv, StoppedIsQuiet, IdleIsQuiet, NothingBeforeStart
<1>3. PortsAccounted' /\ WaitingIsPursued'
  BY DEF IInv, PortsAccounted, PortClosed, WaitingIsPursued
<1> QED
  BY <1>1, <1>2, <1>3 DEF IInv

LEMMA AlwaysIInv == Spec => []IInv
  BY InitKeeps, StepKeeps, PTL DEF Spec

-----------------------------------------------------------------------------
(* The manager, the interface entries, the attempts and the interface      *)
(* processes keep their types; in particular every request that reaches a  *)
(* process, in time or late, names an address.                             *)
THEOREM TypeCorrect == Spec => []TypeOK
<1>1. IInv => TypeOK
  BY DEF IInv
<1> QED
  BY <1>1, AlwaysIInv, PTL

(* stop() leaves no retry timer and no liveness timer, and nothing that    *)
(* fails, answers or arrives after it arms one.  Nothing is said of the    *)
(* watchdog, whose interval can outlive it.                                *)
THEOREM StopIsQuiet == Spec => []StoppedIsQuiet
<1>1. IInv => StoppedIsQuiet
  BY DEF IInv
<1> QED
  BY <1>1, AlwaysIInv, PTL

(* Once unsubscribe() has returned no retry and no liveness timer is armed *)
(* until subscribe() is called, even by an #init() that was under way; the *)
(* watchdog is not covered.                                                *)
THEOREM UnsubscribedIsQuiet == Spec => []IdleIsQuiet
<1>1. IInv => IdleIsQuiet
  BY DEF IInv
<1> QED
  BY <1>1, AlwaysIInv, PTL

(* An interface that is shown as waiting is tried again: its retry timer   *)
(* is armed or an #init() of it is under way.                              *)
THEOREM WaitingGoesOn == Spec => []WaitingIsRetried
<1>1. IInv => WaitingIsRetried
  <2> SUFFICES ASSUME IInv, NEW i \in Interfaces,
                      entry[i].waiting /\ configured /\ ~stopping /\ ~idle
               PROVE  entry[i].retryTimer \/ InFlight(i) # {}
    BY DEF WaitingIsRetried
  <2>1. entry[i].retryTimer \/ \E c \in Callers : attempt[i][c].stage \in Pending
    BY DEF IInv, WaitingIsPursued
  <2>2. \A c \in Callers : attempt[i][c].stage \in Pending => c \in InFlight(i)
    BY DEF Pending, InFlight
  <2> QED
    BY <2>1, <2>2
<1> QED
  BY <1>1, AlwaysIInv, PTL

(* No request for a subscription is sent once stop() was called, by no     *)
(* #init() that was looking up the address or reopening a port before.     *)
THEOREM NothingIsSentAfterStop == Spec => NoInitAfterStop
<1>1. ASSUME IInv, Next, NEW i \in Interfaces, NEW c \in Callers,
             stopping, ~At(i, c, "sent")
      PROVE  ~At(i, c, "sent")'
  BY <1>1, AttemptMoves DEF IInv, Moved, Begun, GoneOn, At
<1>2. ASSUME UNCHANGED vars, NEW i \in Interfaces, NEW c \in Callers, ~At(i, c, "sent")
      PROVE  ~At(i, c, "sent")'
  BY <1>2 DEF vars, At
<1>3. IInv /\ [Next]_vars =>
         [\A i \in Interfaces, c \in Callers :
             stopping /\ ~At(i, c, "sent") => ~At(i, c, "sent")']_vars
  BY <1>1, <1>2
<1> QED
  BY <1>3, AlwaysIInv, PTL DEF Spec, NoInitAfterStop

(* Every request for a subscription names a callback port that is open.    *)
THEOREM OpenPortIsNamed == Spec => InitNamesOpenPort
<1>1. ASSUME IInv, Next, NEW i \in Interfaces, NEW c \in Callers,
             ~At(i, c, "sent"), At(i, c, "sent")'
      PROVE  ProtocolOf[i] \in listening
  <2>1. attempt[i][c].stage = "resolve" /\ ~stopping
    BY <1>1, AttemptMoves DEF IInv, Moved, Begun, GoneOn, At
  <2> QED
    BY <1>1, <2>1 DEF IInv, PortsAccounted
<1>2. ASSUME UNCHANGED vars, NEW i \in Interfaces, NEW c \in Callers,
             ~At(i, c, "sent"), At(i, c, "sent")'
      PROVE  FALSE
  BY <1>2 DEF vars, At
<1>3. IInv /\ [Next]_vars =>
         [\A i \in Interfaces, c \in Callers :
             ~At(i, c, "sent") /\ At(i, c, "sent")' => ProtocolOf[i] \in listening]_vars
  BY <1>1, <1>2
<1> QED
  BY <1>3, AlwaysIInv, PTL DEF Spec, InitNamesOpenPort

-----------------------------------------------------------------------------
(* What a ping knows: which events were heard since the init and since the *)
(* ping, and which are on their way.                                       *)

(* From e to f nothing is heard, no ping goes out and no subscription is   *)
(* given up.                                                               *)
HearsNothing(e, f) ==
    /\ f.heard => e.heard
    /\ f.heard /\ f.liveness = "pong" /\ ~f.ponged => e.liveness = "pong" /\ ~e.ponged

GivesUpNothing(e, f) == f.reconnecting => e.reconnecting

Steady(e, f) == HearsNothing(e, f) /\ GivesUpNothing(e, f)

LEMMA SteadyTwice ==
    ASSUME NEW e, NEW f, NEW g, Steady(e, f), Steady(f, g)
    PROVE  Steady(e, g)
  BY DEF Steady, HearsNothing, GivesUpNothing

LEMMA SteadyItself == ASSUME NEW e PROVE Steady(e, e)
  BY DEF Steady, HearsNothing, GivesUpNothing

LEMMA ArmLivenessSteady ==
    ASSUME NEW i, NEW e \in Entries
    PROVE  Steady(e, ArmLiveness(i, e))
  BY DEF ArmLiveness, Steady, HearsNothing, GivesUpNothing, Entries

LEMMA NoteNoCallbackServerSteady ==
    ASSUME NEW e \in Entries
    PROVE  Steady(e, NoteNoCallbackServer(e))
  BY DEF NoteNoCallbackServer, Steady, HearsNothing, GivesUpNothing, Entries

LEMMA NoteInitFailureSteady ==
    ASSUME NEW e \in Entries, NEW failure
    PROVE  Steady(e, NoteInitFailure(e, failure))
<1> DEFINE f == [e EXCEPT !.failing = TRUE, !.reconnecting = FALSE, !.backoff = TRUE,
                         !.connected = FALSE, !.absent = (failure = "refused"),
                         !.subscribing = FALSE, !.waiting = FALSE]
<1>1. Steady(e, f)
  BY DEF Steady, HearsNothing, GivesUpNothing, Entries
<1>2. Steady(e, NoteWaiting(e))
  BY DEF NoteWaiting, Steady, HearsNothing, GivesUpNothing, Entries
<1> HIDE DEF f
<1>3. NoteInitFailure(e, failure) = NoteWaiting(e) \/ NoteInitFailure(e, failure) = f
  BY DEF NoteInitFailure, f
<1> QED
  BY <1>1, <1>2, <1>3

(* An init that is answered starts afresh: nothing was heard since.        *)
LEMMA NoteSubscribedSteady ==
    ASSUME NEW i, NEW e \in Entries
    PROVE  ~NoteSubscribed(i, e).heard /\ Steady(e, NoteSubscribed(i, e))
  BY DEF NoteSubscribed, ArmLiveness, Steady, HearsNothing, GivesUpNothing, Entries

LEMMA NoteUnsubscribedSteady ==
    ASSUME NEW e \in Entries
    PROVE  Steady(e, NoteUnsubscribed(e))
  BY DEF NoteUnsubscribed, Steady, HearsNothing, GivesUpNothing, Entries

LEMMA NewEntrySteady ==
    ASSUME NEW e
    PROVE  ~NewEntry.heard /\ Steady(e, NewEntry)
  BY DEF NewEntry, Steady, HearsNothing, GivesUpNothing

(* A callback that is no event says nothing about events, and an event     *)
(* answers the ping.                                                       *)
LEMMA NoteEventSteady ==
    ASSUME NEW i, NEW e \in Entries
    PROVE  /\ Steady(e, NoteEvent(i, e, "device"))
           /\ NoteEvent(i, e, "event").ponged
           /\ GivesUpNothing(e, NoteEvent(i, e, "event"))
<1> DEFINE seen == [e EXCEPT !.silence = "fresh", !.connected = TRUE]
<1>1. seen \in Entries /\ Steady(e, seen) /\ seen.reconnecting = e.reconnecting
  BY DEF Entries, Silences, Steady, HearsNothing, GivesUpNothing
<1>2. /\ NoteEvent(i, e, "event").ponged
      /\ NoteEvent(i, e, "event").reconnecting = e.reconnecting
  BY DEF NoteEvent, Entries
<1> HIDE DEF seen
<1>3. NoteEvent(i, e, "device") = seen \/ NoteEvent(i, e, "device") = ArmLiveness(i, seen)
  BY DEF NoteEvent, seen
<1>4. Steady(seen, ArmLiveness(i, seen))
  BY <1>1, ArmLivenessSteady
<1>5. Steady(e, NoteEvent(i, e, "device"))
  BY <1>1, <1>3, <1>4, SteadyTwice
<1> QED
  BY <1>2, <1>5 DEF GivesUpNothing

(* #init() itself is steady up to its first await.                         *)
LEMMA BeginInitSteady ==
    ASSUME NEW d \in Callers, NEW names \in SUBSET Interfaces, NEW closed, NEW after,
           after \in [Interfaces -> Entries],
           BeginInit(d, names, after, closed),
           NEW i \in Interfaces
    PROVE  Steady(after[i], entry'[i])
<1>1. entry'[i] = IF i \in names THEN FirstEntry(i, after[i], closed) ELSE after[i]
  BY DEF BeginInit
<1>2. after[i] \in Entries
  OBVIOUS
<1>3. FirstEntry(i, after[i], closed) \in {after[i], NoteNoCallbackServer(after[i])}
  BY DEF FirstEntry
<1> QED
  BY <1>1, <1>2, <1>3, SteadyItself, NoteNoCallbackServerSteady

(* What a step may do to an interface in this respect.                     *)
StepSteady(i) ==
    \/ Steady(entry[i], entry'[i])
    \/ LivenessPing(i)
    \/ EventArrives(i)
    \/ PongMissing(i)

LEMMA SetEntrySteady ==
    ASSUME TypeOK, NEW j \in Interfaces, NEW e, SetEntry(j, e), Steady(entry[j], e),
           NEW i \in Interfaces
    PROVE  StepSteady(i)
<1>1. entry'[j] = e /\ (i # j => entry'[i] = entry[i])
  BY DEF SetEntry, TypeOK
<1> QED
  BY <1>1, SteadyItself DEF StepSteady

LEMMA SameEntrySteady ==
    ASSUME NEW i \in Interfaces, entry'[i] = entry[i]
    PROVE  StepSteady(i)
  BY SteadyItself DEF StepSteady

LEMMA ManagerStepSteady ==
    ASSUME TypeOK, ManagerNext, NEW i \in Interfaces
    PROVE  StepSteady(i)
<1> USE DEF methodVars, serverVars, worldVars, boundVars
<1>1. CASE entry' = entry
  BY <1>1, SameEntrySteady
<1>2. ASSUME NEW failed \in SUBSET FixedPorts, StartOpened(failed) PROVE StepSteady(i)
  <2> DEFINE after == [j \in Interfaces |-> NewEntry]
  <2>1. after \in [Interfaces -> Entries] /\ after[i] = NewEntry
    BY NewEntryType
  <2>2. BeginInit("start", Interfaces, after, failed)
    BY <1>2 DEF StartOpened
  <2> HIDE DEF after
  <2>3. Steady(NewEntry, entry'[i])
    BY <2>1, <2>2, BeginInitSteady DEF Callers
  <2> QED
    BY <2>3, NewEntrySteady, SteadyTwice DEF StepSteady
<1>3. CASE UnsubscribeDone
  <2>1. entry'[i] = entry[i] \/ entry'[i] = NoteUnsubscribed(entry[i])
    BY <1>3 DEF UnsubscribeDone
  <2> QED
    BY <2>1, EntryType, NoteUnsubscribedSteady, SteadyItself DEF StepSteady
<1>4. CASE Subscribe
  <2> DEFINE after == [j \in Interfaces |->
                 [entry[j] EXCEPT !.window = StartWindow /\ ~entry[j].absent,
                                  !.idle = FALSE]]
  <2>1. ASSUME NEW j \in Interfaces
        PROVE  /\ after[j] \in Entries
               /\ after[j].heard = entry[j].heard
               /\ after[j].ponged = entry[j].ponged
               /\ after[j].liveness = entry[j].liveness
               /\ after[j].reconnecting = entry[j].reconnecting
    <3>1. entry[j] \in Entries
      BY EntryType
    <3>2. (StartWindow /\ ~entry[j].absent) \in BOOLEAN
      BY <3>1 DEF Entries
    <3>3. \A b \in BOOLEAN :
             LET e == [entry[j] EXCEPT !.window = b, !.idle = FALSE]
             IN  /\ e \in Entries
                 /\ e.heard = entry[j].heard /\ e.ponged = entry[j].ponged
                 /\ e.liveness = entry[j].liveness
                 /\ e.reconnecting = entry[j].reconnecting
      BY <3>1 DEF Entries
    <3> QED
      BY <3>2, <3>3
  <2>2. BeginInit("subscribe", Interfaces, after, closedPorts)
    BY <1>4 DEF Subscribe
  <2>3. after \in [Interfaces -> Entries]
    BY <2>1
  <2> HIDE DEF after
  <2>4. Steady(after[i], entry'[i])
    BY <2>2, <2>3, BeginInitSteady DEF Callers
  <2>5. Steady(entry[i], after[i])
    BY <2>1 DEF Steady, HearsNothing, GivesUpNothing
  <2> QED
    BY <2>4, <2>5, SteadyTwice DEF StepSteady
<1>5. CASE Stop
  <2>1. entry'[i] = [entry[i] EXCEPT !.retryTimer = FALSE, !.liveness = "off"]
    BY <1>5 DEF Stop
  <2>2. Steady(entry[i], entry'[i])
    BY <2>1, EntryType DEF Entries, Steady, HearsNothing, GivesUpNothing
  <2> QED
    BY <2>2 DEF StepSteady
<1>6. ASSUME NEW names \in SUBSET Interfaces, Reconnect(names) PROVE StepSteady(i)
  <2> DEFINE after == [j \in Interfaces |->
                 IF j \in names
                 THEN [entry[j] EXCEPT !.backoff = FALSE, !.retryTimer = FALSE]
                 ELSE entry[j]]
  <2>1. ASSUME NEW j \in Interfaces
        PROVE  after[j] \in Entries /\ Steady(entry[j], after[j])
    BY EntryType DEF Entries, Steady, HearsNothing, GivesUpNothing
  <2>2. BeginInit("reconnect", names, after, closedPorts)
    BY <1>6 DEF Reconnect
  <2>3. after \in [Interfaces -> Entries]
    BY <2>1
  <2> HIDE DEF after
  <2>4. Steady(after[i], entry'[i])
    BY <2>2, <2>3, BeginInitSteady DEF Callers
  <2> QED
    BY <2>1, <2>4, SteadyTwice DEF StepSteady
<1>7. ASSUME NEW refused \in SUBSET Interfaces, NEW mute \in SUBSET Interfaces,
             ProbeDone(refused, mute)
      PROVE  StepSteady(i)
  <2>1. \/ entry'[i] = entry[i]
        \/ \E b : entry'[i] = [entry[i] EXCEPT !.absent = b]
    BY <1>7 DEF ProbeDone
  <2>2. ASSUME NEW b, entry'[i] = [entry[i] EXCEPT !.absent = b]
        PROVE  Steady(entry[i], entry'[i])
    BY <2>2, EntryType DEF Entries, Steady, HearsNothing, GivesUpNothing
  <2> QED
    BY <2>1, <2>2, SameEntrySteady DEF StepSteady
<1>8. CASE Start \/ (\E probes \in SUBSET {"probe"} : StartDone(probes)) \/ Unsubscribe
             \/ SubscribeDone \/ StopLeft \/ StopDone
  BY <1>1, <1>8 DEF Start, StartDone, Unsubscribe, SubscribeDone, StopLeft, StopDone
<1> QED
  BY <1>2, <1>3, <1>4, <1>5, <1>6, <1>7, <1>8 DEF ManagerNext

LEMMA AttemptStepSteady ==
    ASSUME TypeOK, AttemptNext, NEW i \in Interfaces
    PROVE  StepSteady(i)
<1>1. ASSUME NEW p \in Protocols, NEW works \in BOOLEAN, Reopened(p, works)
      PROVE  StepSteady(i)
  <2>1. entry'[i] = entry[i] \/ entry'[i] = NoteNoCallbackServer(entry[i])
    BY <1>1 DEF Reopened
  <2> QED
    BY <2>1, EntryType, NoteNoCallbackServerSteady, SteadyItself DEF StepSteady
<1>2. ASSUME NEW j \in Interfaces, NEW c \in Callers, Resolved(j, c) PROVE StepSteady(i)
  <2>1. entry' = entry \/ SetEntry(j, [entry[j] EXCEPT !.url = address])
    BY <1>2 DEF Resolved
  <2>2. Steady(entry[j], [entry[j] EXCEPT !.url = address])
    BY EntryType DEF Entries, Steady, HearsNothing, GivesUpNothing
  <2> QED
    BY <2>1, <2>2, SameEntrySteady, SetEntrySteady
<1>3. ASSUME NEW j \in Interfaces, NEW c \in Callers, InitWorked(j, c) PROVE StepSteady(i)
  BY <1>3, SameEntrySteady DEF InitWorked
<1>4. ASSUME NEW j \in Interfaces, NEW c \in Callers, InitAnswered(j, c) PROVE StepSteady(i)
  BY <1>4, EntryType, NoteSubscribedSteady, SetEntrySteady DEF InitAnswered
<1>5. ASSUME NEW j \in Interfaces, NEW c \in Callers, NEW failure \in Failures,
             InitFailed(j, c, failure)
      PROVE  StepSteady(i)
  BY <1>5, EntryType, NoteInitFailureSteady, SetEntrySteady DEF InitFailed
<1>6. ASSUME NEW j \in Interfaces,
             NEW e, e = [entry[j] EXCEPT !.subscribing = FALSE]
      PROVE  e \in Entries /\ Steady(entry[j], e)
  BY <1>6, EntryType DEF Entries, Steady, HearsNothing, GivesUpNothing
<1>7. ASSUME NEW j \in Interfaces, NEW c \in Callers, SweepDone(j, c) PROVE StepSteady(i)
  BY <1>6, <1>7, SetEntrySteady DEF SweepDone
<1>8. ASSUME NEW j \in Interfaces, NEW c \in Callers, NEW failure \in Failures,
             SweepFailed(j, c, failure)
      PROVE  StepSteady(i)
  <2> DEFINE d == [entry[j] EXCEPT !.subscribing = FALSE]
             e == NoteInitFailure(d, failure)
  <2>1. d \in Entries /\ Steady(entry[j], d)
    BY <1>6
  <2>2. SetEntry(j, e)
    BY <1>8 DEF SweepFailed
  <2> HIDE DEF d
  <2>3. Steady(entry[j], e)
    BY <2>1, NoteInitFailureSteady, SteadyTwice
  <2> QED
    BY <2>2, <2>3, SetEntrySteady
<1> QED
  BY <1>1, <1>2, <1>3, <1>4, <1>5, <1>7, <1>8 DEF AttemptNext

LEMMA TimerStepSteady ==
    ASSUME TypeOK, TimerNext, NEW i \in Interfaces
    PROVE  StepSteady(i)
<1> USE DEF methodVars, serverVars, worldVars, boundVars
<1>1. ASSUME NEW listing \in SUBSET Interfaces, Tick(listing) PROVE StepSteady(i)
  <2> DEFINE mute == {j \in Interfaces :
                 ~QuietByNature(j, listing) /\ entry[j].silence = "silent"}
             due == {j \in mute : Due(j)}
             after == [j \in Interfaces |->
                 CASE QuietByNature(j, listing) -> [entry[j] EXCEPT !.silence = "fresh"]
                   [] j \in mute -> [entry[j] EXCEPT !.connected = FALSE]
                   [] OTHER -> entry[j]]
  <2>1. ASSUME NEW j \in Interfaces
        PROVE  after[j] \in Entries /\ Steady(entry[j], after[j])
    <3>1. /\ [entry[j] EXCEPT !.silence = "fresh"] \in Entries
          /\ Steady(entry[j], [entry[j] EXCEPT !.silence = "fresh"])
      BY EntryType DEF Entries, Silences, Steady, HearsNothing, GivesUpNothing
    <3>2. /\ [entry[j] EXCEPT !.connected = FALSE] \in Entries
          /\ Steady(entry[j], [entry[j] EXCEPT !.connected = FALSE])
      BY EntryType DEF Entries, Steady, HearsNothing, GivesUpNothing
    <3>3. entry[j] \in Entries /\ Steady(entry[j], entry[j])
      BY EntryType, SteadyItself
    <3>4. after[j] \in {[entry[j] EXCEPT !.silence = "fresh"],
                        [entry[j] EXCEPT !.connected = FALSE], entry[j]}
      OBVIOUS
    <3> QED
      BY <3>1, <3>2, <3>3, <3>4
  <2>2. due \in SUBSET Interfaces /\ BeginInit("tick", due, after, closedPorts)
    BY <1>1 DEF Tick
  <2>3. after \in [Interfaces -> Entries]
    BY <2>1
  <2> HIDE DEF due, after
  <2>4. Steady(after[i], entry'[i])
    BY <2>2, <2>3, BeginInitSteady DEF Callers
  <2> QED
    BY <2>1, <2>4, SteadyTwice DEF StepSteady
<1>2. ASSUME NEW j \in Interfaces, NEW c \in Callers, NEW e \in Entries,
             BeginInit(c, {j}, [entry EXCEPT ![j] = e], closedPorts)
      PROVE  /\ i = j => Steady(e, entry'[i])
             /\ i # j => Steady(entry[i], entry'[i])
  <2> DEFINE after == [entry EXCEPT ![j] = e]
  <2>1. /\ after \in [Interfaces -> Entries] /\ after[j] = e
        /\ i # j => after[i] = entry[i]
    BY DEF TypeOK
  <2>2. BeginInit(c, {j}, after, closedPorts)
    BY <1>2
  <2> HIDE DEF after
  <2>3. Steady(after[i], entry'[i])
    BY <2>1, <2>2, BeginInitSteady
  <2> QED
    BY <2>1, <2>3
<1>3. ASSUME NEW j \in Interfaces, RetryFires(j) PROVE StepSteady(i)
  <2> DEFINE e == [entry[j] EXCEPT !.retryTimer = FALSE]
  <2>1. e \in Entries /\ Steady(entry[j], e)
    BY EntryType DEF Entries, Steady, HearsNothing, GivesUpNothing
  <2>2. BeginInit("retry", {j}, [entry EXCEPT ![j] = e], closedPorts)
    BY <1>3 DEF RetryFires
  <2> HIDE DEF e
  <2>3. /\ i = j => Steady(e, entry'[i])
        /\ i # j => Steady(entry[i], entry'[i])
    BY <1>2, <2>1, <2>2 DEF Callers
  <2> QED
    BY <2>1, <2>3, SteadyTwice DEF StepSteady
<1>4. ASSUME NEW j \in Interfaces, PongMissing(j) PROVE StepSteady(i)
  <2> DEFINE e == NoteLost(entry[j])
  <2>1. e \in Entries
    BY EntryType, NoteLostType
  <2>2. BeginInit("lost", {j}, [entry EXCEPT ![j] = e], closedPorts)
    BY <1>4 DEF PongMissing
  <2> HIDE DEF e
  <2>3. i # j => Steady(entry[i], entry'[i])
    BY <1>2, <2>1, <2>2 DEF Callers
  <2> QED
    BY <1>4, <2>3 DEF StepSteady
<1>5. ASSUME NEW j \in Interfaces, LivenessDropped(j) PROVE StepSteady(i)
  <2>1. Steady(entry[j], [entry[j] EXCEPT !.liveness = "off"])
    BY EntryType DEF Entries, Steady, HearsNothing, GivesUpNothing
  <2> QED
    BY <1>5, <2>1, SetEntrySteady DEF LivenessDropped
<1>6. ASSUME NEW j \in Interfaces, LivenessPing(j) PROVE StepSteady(i)
  <2>1. i # j => entry'[i] = entry[i]
    BY <1>6 DEF LivenessPing, SetEntry, TypeOK
  <2> QED
    BY <1>6, <2>1, SameEntrySteady DEF StepSteady
<1>7. ASSUME NEW j \in Interfaces, PongCame(j) PROVE StepSteady(i)
  BY <1>7, EntryType, ArmLivenessSteady, SetEntrySteady DEF PongCame
<1>8. ASSUME NEW j \in Interfaces, FallsSilent(j) \/ BackoffEnds(j) \/ WindowCloses(j)
      PROVE  StepSteady(i)
  <2>1. ASSUME NEW e, \/ \E t \in Silences : e = [entry[j] EXCEPT !.silence = t]
                      \/ e = [entry[j] EXCEPT !.backoff = FALSE]
                      \/ e = [entry[j] EXCEPT !.window = FALSE]
        PROVE  Steady(entry[j], e)
    BY <2>1, EntryType DEF Entries, Steady, HearsNothing, GivesUpNothing
  <2>2. PICK e : /\ SetEntry(j, e)
                 /\ \/ \E t \in Silences : e = [entry[j] EXCEPT !.silence = t]
                    \/ e = [entry[j] EXCEPT !.backoff = FALSE]
                    \/ e = [entry[j] EXCEPT !.window = FALSE]
    BY <1>8 DEF FallsSilent, BackoffEnds, WindowCloses, Silences
  <2> QED
    BY <2>1, <2>2, SetEntrySteady
<1> QED
  BY <1>1, <1>3, <1>4, <1>5, <1>6, <1>7, <1>8 DEF TimerNext

LEMMA WorldStepSteady ==
    ASSUME TypeOK, WorldNext, NEW i \in Interfaces
    PROVE  StepSteady(i)
<1>1. ASSUME NEW j \in Interfaces, EventArrives(j) PROVE StepSteady(i)
  <2>1. i # j => entry'[i] = entry[i]
    BY <1>1 DEF EventArrives, TypeOK
  <2> QED
    BY <1>1, <2>1, SameEntrySteady DEF StepSteady
<1>2. ASSUME NEW j \in Interfaces, DeviceCallbackArrives(j) PROVE StepSteady(i)
  BY <1>2, EntryType, NoteEventSteady, SetEntrySteady DEF DeviceCallbackArrives
<1>3. CASE entry' = entry
  BY <1>3, SameEntrySteady
<1> QED
  BY <1>1, <1>2, <1>3 DEF WorldNext, SendsEvent, LeaveWorked, LeaveGivenUp, LateWorked, LateLost,
                    Dies, Restarts, CallbackHeldUp, AddressMoves

LEMMA EveryStepSteady ==
    ASSUME TypeOK, Next, NEW i \in Interfaces
    PROVE  StepSteady(i)
  BY ManagerStepSteady, AttemptStepSteady, TimerStepSteady, WorldStepSteady DEF Next

(* The messages on their way are from processes that can call us.          *)
InboundIsReachable == inbound \subseteq Reachable

(* Nothing was lost: the process runs and calls this machine's address.    *)
HealthyIsListed == \A i \in healthy : i \in up /\ address \in handlers[i]

(* Events were heard only from an interface that reaches an open port.     *)
HeardIsReached ==
    ~stopping => \A i \in Interfaces :
        entry[i].heard => configured /\ i \in Reachable /\ ProtocolOf[i] \in listening

(* The answer to the ping of a healthy interface that was heard before is  *)
(* on its way.                                                             *)
PingIsAnswered ==
    ~stopping => \A i \in healthy :
        entry[i].heard /\ entry[i].liveness = "pong" /\ ~entry[i].ponged => i \in inbound

HearingInv ==
    /\ InboundIsReachable
    /\ HealthyIsListed
    /\ HeardIsReached
    /\ PingIsAnswered

LEMMA InitHears == Init => HearingInv
<1> SUFFICES ASSUME Init PROVE HearingInv
  OBVIOUS
<1>1. \A i \in Interfaces : ~entry[i].heard
  BY DEF Init, NewEntry
<1>2. inbound = {} /\ healthy = {}
  BY DEF Init
<1> QED
  BY <1>1, <1>2 DEF HearingInv, InboundIsReachable, HealthyIsListed, HeardIsReached,
                    PingIsAnswered

(* What comes is from a process that calls us, and only its arrival takes  *)
(* a message away.                                                         *)
LEMMA InboundMoves ==
    ASSUME TypeOK, Next, NEW i \in Interfaces
    PROVE  /\ i \in inbound' => i \in inbound \/ CallsUs(i)
           /\ i \in inbound /\ i \notin inbound' => EventArrives(i)
<1> USE DEF worldVars
<1>1. CASE inbound' = inbound
  BY <1>1
<1>2. ASSUME NEW listing \in SUBSET Interfaces, Tick(listing)
      PROVE  /\ i \in inbound' => i \in inbound \/ CallsUs(i)
             /\ i \in inbound => i \in inbound'
  <2>1. inbound' = inbound \union
            {j \in PingAnswering : entry[j].silence = "quiet" /\ CallsUs(j)}
    BY <1>2 DEF Tick
  <2> QED
    BY <2>1
<1>3. ASSUME NEW j \in Interfaces, LivenessPing(j) \/ SendsEvent(j)
      PROVE  /\ i \in inbound' => i \in inbound \/ CallsUs(i)
             /\ i \in inbound => i \in inbound'
  BY <1>3 DEF LivenessPing, SendsEvent
<1>4. ASSUME NEW j \in Interfaces, EventArrives(j)
      PROVE  /\ i \in inbound' => i \in inbound
             /\ i \in inbound /\ i \notin inbound' => i = j
  BY <1>4 DEF EventArrives
<1>5. CASE ManagerNext
  BY <1>1, <1>5 DEF ManagerNext, Start, StartOpened, StartDone, Unsubscribe, UnsubscribeDone,
                    Subscribe, SubscribeDone, Stop, StopLeft, StopDone, Reconnect, ProbeDone
<1>6. CASE AttemptNext
  BY <1>1, <1>6 DEF AttemptNext, Reopened, Resolved, InitWorked, InitAnswered, InitFailed,
                    SweepDone, SweepFailed
<1>7. CASE TimerNext
  BY <1>1, <1>2, <1>3, <1>7 DEF TimerNext, RetryFires, LivenessDropped, PongCame,
                    PongMissing, FallsSilent, BackoffEnds, WindowCloses
<1>8. CASE WorldNext
  BY <1>1, <1>3, <1>4, <1>8 DEF WorldNext, DeviceCallbackArrives, LeaveWorked,
                    LeaveGivenUp, LateWorked, LateLost, Dies, Restarts, CallbackHeldUp,
                    AddressMoves
<1> QED
  BY <1>5, <1>6, <1>7, <1>8 DEF Next

(* Only an answer to an init makes an interface healthy, and everything    *)
(* that loses its entry in the process ends that.                          *)
LEMMA HealthyMoves ==
    ASSUME TypeOK, HealthyIsListed, Next
    PROVE  /\ HealthyIsListed'
           /\ \A i \in healthy' \ healthy : \E c \in Callers : InitAnswered(i, c)
<1> USE DEF worldVars
<1>1. handlers \in [Interfaces -> SUBSET Addresses] /\ healthy \subseteq Interfaces
  BY DEF TypeOK
<1>2. CASE /\ healthy' \subseteq healthy /\ UNCHANGED <<address, up>>
           /\ \A i \in healthy' : handlers[i] \subseteq handlers'[i]
  BY <1>2 DEF HealthyIsListed
<1>3. CASE UNCHANGED <<healthy, address, up, handlers>>
  BY <1>2, <1>3
<1>4. ASSUME NEW i \in Interfaces, NEW c \in Callers, InitAnswered(i, c)
      PROVE  /\ HealthyIsListed'
             /\ healthy' \ healthy \subseteq {i}
  BY <1>4 DEF InitAnswered, HealthyIsListed
<1>5. ASSUME NEW i \in Interfaces, NEW c \in Callers, InitWorked(i, c)
      PROVE  /\ healthy' \subseteq healthy /\ UNCHANGED <<address, up>>
             /\ \A j \in healthy' : handlers[j] \subseteq handlers'[j]
  BY <1>1, <1>5 DEF InitWorked
<1>6. ASSUME NEW i \in Interfaces, NEW l \in Leavers, LeaveWorked(l, i)
      PROVE  /\ healthy' \subseteq healthy /\ UNCHANGED <<address, up>>
             /\ \A j \in healthy' : handlers[j] \subseteq handlers'[j]
  BY <1>1, <1>6 DEF LeaveWorked
<1>7. ASSUME NEW i \in Interfaces, NEW r, LateWorked(i, r)
      PROVE  /\ healthy' \subseteq healthy /\ UNCHANGED <<address, up>>
             /\ \A j \in healthy' : handlers[j] \subseteq handlers'[j]
  BY <1>1, <1>7 DEF LateWorked
<1>8. ASSUME NEW i \in Interfaces, Dies(i) \/ Restarts(i)
      PROVE  HealthyIsListed' /\ healthy' \subseteq healthy
  BY <1>1, <1>8 DEF Dies, Restarts, HealthyIsListed
<1>9. CASE AddressMoves
  BY <1>9 DEF AddressMoves, HealthyIsListed
<1>10. ASSUME NEW i \in Interfaces, CallbackHeldUp(i)
       PROVE  healthy' \subseteq healthy /\ UNCHANGED <<address, up, handlers>>
  BY <1>10 DEF CallbackHeldUp
<1>11. CASE ManagerNext
  BY <1>3, <1>11 DEF ManagerNext, Start, StartOpened, StartDone, Unsubscribe, UnsubscribeDone,
                     Subscribe, SubscribeDone, Stop, StopLeft, StopDone, Reconnect, ProbeDone
<1>12. CASE AttemptNext
  <2>1. CASE \E p \in Protocols, works \in BOOLEAN : Reopened(p, works)
    BY <1>3, <2>1 DEF Reopened
  <2>2. ASSUME NEW i \in Interfaces, NEW c \in Callers, NEW failure,
               \/ Resolved(i, c) \/ InitFailed(i, c, failure)
               \/ SweepDone(i, c) \/ SweepFailed(i, c, failure)
        PROVE  UNCHANGED <<healthy, address, up, handlers>>
    BY <2>2 DEF Resolved, InitFailed, SweepDone, SweepFailed
  <2> QED
    BY <1>2, <1>3, <1>4, <1>5, <1>12, <2>1, <2>2 DEF AttemptNext, Failures
<1>13. CASE TimerNext
  BY <1>3, <1>13 DEF TimerNext, Tick, RetryFires, LivenessDropped, LivenessPing, PongCame,
                     PongMissing, FallsSilent, BackoffEnds, WindowCloses
<1>14. CASE WorldNext
  <2>1. ASSUME NEW i \in Interfaces, NEW l, NEW r,
               \/ EventArrives(i) \/ DeviceCallbackArrives(i) \/ SendsEvent(i)
               \/ LeaveGivenUp(l, i) \/ LateLost(i, r)
        PROVE  UNCHANGED <<healthy, address, up, handlers>>
    BY <2>1 DEF EventArrives, DeviceCallbackArrives, SendsEvent, LeaveGivenUp, LateLost
  <2> QED
    BY <1>2, <1>3, <1>6, <1>7, <1>8, <1>9, <1>10, <1>14, <2>1 DEF WorldNext
<1> QED
  BY <1>11, <1>12, <1>13, <1>14 DEF Next

LEMMA InboundIsReachableKept ==
    ASSUME IInv, InboundIsReachable, Next
    PROVE  InboundIsReachable'
<1>1. TypeOK /\ TypeOK'
  BY NextKeeps DEF IInv
<1>2. inbound' \subseteq Interfaces
  BY <1>1 DEF TypeOK
<1> QED
  BY <1>1, <1>2, InboundMoves DEF InboundIsReachable, CallsUs

(* An event that arrives is heard only behind an open port.                *)
LEMMA EventIsHeard ==
    ASSUME TypeOK, NEW i \in Interfaces, EventArrives(i)
    PROVE  /\ configured /\ ProtocolOf[i] \in listening =>
                 entry'[i].ponged /\ GivesUpNothing(entry[i], entry'[i])
           /\ ~(configured /\ ProtocolOf[i] \in listening) => entry'[i] = entry[i]
           /\ i \in inbound
<1>1. CASE configured /\ ProtocolOf[i] \in listening
  <2>1. entry'[i] = NoteEvent(i, entry[i], "event")
    BY <1>1 DEF EventArrives, TypeOK
  <2> QED
    BY <1>1, <2>1, EntryType, NoteEventSteady DEF EventArrives
<1>2. CASE ~(configured /\ ProtocolOf[i] \in listening)
  BY <1>2 DEF EventArrives
<1> QED
  BY <1>1, <1>2

(* A ping changes nothing of what was heard, and its answer is under way   *)
(* if the process calls us.                                                *)
LEMMA PingIsSent ==
    ASSUME TypeOK, NEW i \in Interfaces, LivenessPing(i)
    PROVE  /\ entry'[i].heard = entry[i].heard
           /\ entry'[i].reconnecting = entry[i].reconnecting
           /\ CallsUs(i) => i \in inbound'
<1>1. entry'[i] = [entry[i] EXCEPT !.liveness = "pong", !.ponged = FALSE]
  BY DEF LivenessPing, SetEntry, TypeOK
<1> QED
  BY <1>1, EntryType DEF LivenessPing, Entries

(* And a lost subscription leaves no ping.                                 *)
LEMMA LostHearsNothing ==
    ASSUME TypeOK, NEW i \in Interfaces, PongMissing(i)
    PROVE  HearsNothing(entry[i], entry'[i])
<1> DEFINE e == NoteLost(entry[i])
           after == [entry EXCEPT ![i] = e]
<1>1. e \in Entries /\ HearsNothing(entry[i], e)
  <2>1. e.heard = entry[i].heard /\ e.liveness = "off"
    BY EntryType DEF NoteLost, Entries
  <2> QED
    BY <2>1, EntryType, NoteLostType DEF HearsNothing
<1> HIDE DEF e
<1>2. after \in [Interfaces -> Entries] /\ after[i] = e
  BY <1>1 DEF TypeOK
<1>3. BeginInit("lost", {i}, after, closedPorts)
  BY DEF PongMissing, e
<1> HIDE DEF after
<1>4. Steady(after[i], entry'[i])
  BY <1>2, <1>3, BeginInitSteady DEF Callers
<1> QED
  BY <1>1, <1>2, <1>4 DEF Steady, HearsNothing

(* What makes an interface heard, and what makes it wait for a PONG.       *)
LEMMA HearingMoves ==
    ASSUME TypeOK, Next, NEW i \in Interfaces
    PROVE  \/ HearsNothing(entry[i], entry'[i])
           \/ LivenessPing(i)
           \/ EventArrives(i)
  BY EveryStepSteady, LostHearsNothing DEF StepSteady, Steady

LEMMA StartHearsNothing ==
    ASSUME TypeOK, NEW failed, StartOpened(failed), NEW i \in Interfaces
    PROVE  ~entry'[i].heard
<1> DEFINE after == [j \in Interfaces |-> NewEntry]
<1>1. after \in [Interfaces -> Entries] /\ after[i] = NewEntry
  BY NewEntryType
<1>2. BeginInit("start", Interfaces, after, failed)
  BY DEF StartOpened
<1> HIDE DEF after
<1>3. Steady(after[i], entry'[i])
  BY <1>1, <1>2, BeginInitSteady DEF Callers
<1> QED
  BY <1>1, <1>3, NewEntrySteady DEF Steady, HearsNothing

LEMMA HeardIsReachedKept ==
    ASSUME IInv, HearingInv, Next
    PROVE  HeardIsReached'
<1> SUFFICES ASSUME ~stopping', NEW i \in Interfaces, entry'[i].heard
             PROVE  configured' /\ i \in Reachable /\ ProtocolOf[i] \in listening'
  BY DEF HeardIsReached
<1>1. ~stopping /\ TypeOK
  BY MethodMoves DEF IInv
<1>2. ~\E failed \in SUBSET FixedPorts : StartOpened(failed)
  BY <1>1, StartHearsNothing
<1>3. configured /\ i \in Reachable /\ ProtocolOf[i] \in listening
  <2>1. CASE entry[i].heard
    BY <1>1, <2>1 DEF HearingInv, HeardIsReached
  <2>2. CASE EventArrives(i) /\ ~entry[i].heard
    <3>1. configured /\ ProtocolOf[i] \in listening
      BY <1>1, <2>2, EventIsHeard
    <3> QED
      BY <1>1, <2>2, <3>1, EventIsHeard DEF HearingInv, InboundIsReachable
  <2> QED
    BY <1>1, <2>1, <2>2, HearingMoves, PingIsSent DEF HearsNothing
<1>4. configured'
  BY <1>1, <1>2, <1>3, MethodMoves DEF IInv, TypeOK
<1>5. ProtocolOf[i] \in listening'
  BY <1>1, <1>2, <1>3, ServerMoves
<1> QED
  BY <1>3, <1>4, <1>5

LEMMA PingIsAnsweredKept ==
    ASSUME IInv, HearingInv, Next
    PROVE  PingIsAnswered'
<1> SUFFICES ASSUME ~stopping', NEW i \in healthy',
                    entry'[i].heard, entry'[i].liveness = "pong", ~entry'[i].ponged
             PROVE  i \in inbound'
  BY DEF PingIsAnswered
<1>1. ~stopping /\ TypeOK
  BY MethodMoves DEF IInv
<1>2. healthy' \subseteq Interfaces
  BY <1>1, HealthyMoves DEF HearingInv, TypeOK, InitAnswered, IInv
<1>3. i \in Interfaces
  BY <1>2
<1>4. i \in healthy
  <2>1. ASSUME NEW c \in Callers, InitAnswered(i, c) PROVE ~entry'[i].heard
    <3>1. entry'[i] = NoteSubscribed(i, entry[i])
      BY <1>1, <1>3, <2>1 DEF InitAnswered, SetEntry, TypeOK
    <3> QED
      BY <1>1, <1>3, <3>1, EntryType, NoteSubscribedSteady
  <2> QED
    BY <1>1, <2>1, HealthyMoves DEF HearingInv
<1>5. CASE LivenessPing(i)
  <2>1. entry[i].heard
    BY <1>1, <1>3, <1>5, PingIsSent
  <2>2. CallsUs(i)
    BY <1>1, <1>3, <1>4, <2>1 DEF HearingInv, HealthyIsListed, HeardIsReached, CallsUs
  <2> QED
    BY <1>1, <1>3, <1>5, <2>2, PingIsSent
<1>6. CASE EventArrives(i)
  <2>1. entry'[i] = entry[i] /\ ~(configured /\ ProtocolOf[i] \in listening)
    BY <1>1, <1>3, <1>6, EventIsHeard
  <2> QED
    BY <1>1, <1>3, <2>1 DEF HearingInv, HeardIsReached
<1>7. CASE HearsNothing(entry[i], entry'[i]) /\ ~EventArrives(i)
  <2>1. i \in inbound
    BY <1>1, <1>4, <1>7 DEF HearsNothing, HearingInv, PingIsAnswered
  <2> QED
    BY <1>1, <1>3, <1>7, <2>1, InboundMoves
<1> QED
  BY <1>1, <1>3, <1>5, <1>6, <1>7, HearingMoves

LEMMA HearingStep == IInv /\ HearingInv /\ [Next]_vars => HearingInv'
<1>1. ASSUME IInv, HearingInv, Next PROVE HearingInv'
  <2>1. TypeOK /\ InboundIsReachable /\ HealthyIsListed
    BY <1>1 DEF IInv, HearingInv
  <2>2. InboundIsReachable'
    BY <1>1, <2>1, InboundIsReachableKept
  <2>3. HealthyIsListed'
    BY <1>1, <2>1, HealthyMoves
  <2>4. HeardIsReached' /\ PingIsAnswered'
    BY <1>1, HeardIsReachedKept, PingIsAnsweredKept
  <2> QED
    BY <2>2, <2>3, <2>4 DEF HearingInv
<1>2. ASSUME HearingInv, UNCHANGED vars PROVE HearingInv'
  BY <1>2 DEF vars, methodVars, serverVars, worldVars, HearingInv, InboundIsReachable,
              HealthyIsListed, HeardIsReached, PingIsAnswered
<1> QED
  BY <1>1, <1>2

LEMMA AlwaysHears == Spec => []HearingInv
  BY InitHears, HearingStep, AlwaysIInv, PTL DEF Spec

(* The liveness ping gives up no subscription that delivers: a PONG is     *)
(* missed only after the process lost the handler, the address moved or a  *)
(* callback was held up, whatever #init() overlaps with the ping.          *)
THEOREM OnlyTheLostAreGivenUp == Spec => LostMeansLost
<1>1. ASSUME IInv, HearingInv, Next, NEW i \in Interfaces,
             ~entry[i].reconnecting, entry'[i].reconnecting
      PROVE  i \notin healthy
  <2>1. TypeOK
    BY <1>1 DEF IInv
  <2>2. PongMissing(i)
    <3>1. ~GivesUpNothing(entry[i], entry'[i])
      BY <1>1 DEF GivesUpNothing
    <3> QED
      BY <1>1, <2>1, <3>1, EveryStepSteady, PingIsSent, EventIsHeard
         DEF StepSteady, Steady
  <2>3. /\ entry[i].liveness = "pong" /\ ~stopping /\ (i \in healthy => i \notin inbound)
        /\ ~entry[i].ponged /\ entry[i].heard
    BY <2>2 DEF PongMissing, PongDue, PongLost
  <2> QED
    BY <1>1, <2>3 DEF HearingInv, PingIsAnswered
<1>2. ASSUME UNCHANGED vars, NEW i \in Interfaces,
             ~entry[i].reconnecting, entry'[i].reconnecting
      PROVE  FALSE
  BY <1>2 DEF vars
<1>3. IInv /\ HearingInv /\ [Next]_vars =>
         [\A i \in Interfaces :
             ~entry[i].reconnecting /\ entry'[i].reconnecting => i \notin healthy]_vars
  BY <1>1, <1>2
<1> QED
  BY <1>3, AlwaysIInv, AlwaysHears, PTL DEF Spec, LostMeansLost

-----------------------------------------------------------------------------
(* A manager that wants events watches over its subscriptions: the         *)
(* watchdog runs, or a start() or subscribe() under way will start it.  No *)
(* unsubscribe() that comes in between leaves it without one.              *)
SomethingWatches ==
    configured /\ ~idle /\ ~stopping =>
        watchdog \/ leaked > 0 \/ calls \intersect {"start", "subscribe"} # {}

THEOREM WatchedWhileSubscribed == Spec => []SomethingWatches
<1>1. Init => SomethingWatches
  BY DEF Init, SomethingWatches
<1>2. IInv /\ SomethingWatches /\ [Next]_vars => SomethingWatches'
  <2> SUFFICES ASSUME IInv, SomethingWatches, [Next]_vars PROVE SomethingWatches'
    OBVIOUS
  <2>1. TypeOK /\ leaked \in Nat
    BY DEF IInv, TypeOK
  <2>2. CASE UNCHANGED methodVars
    BY <2>2 DEF methodVars, SomethingWatches
  <2>3. CASE ManagerNext
    <3>1. CASE Start \/ Unsubscribe \/ UnsubscribeDone \/ Subscribe \/ Stop \/ StopLeft \/ StopDone
      BY <2>1, <3>1 DEF Start, Unsubscribe, UnsubscribeDone, Subscribe, Stop, StopLeft, StopDone,
                        SomethingWatches
    <3>2. CASE \/ \E failed \in SUBSET FixedPorts : StartOpened(failed)
               \/ \E probes \in SUBSET {"probe"} : StartDone(probes)
               \/ SubscribeDone
      BY <2>1, <3>2 DEF StartOpened, StartDone, SubscribeDone, StartWatchdog,
                        SomethingWatches
    <3>3. CASE \/ \E names \in SUBSET Interfaces : Reconnect(names)
               \/ \E refused, mute \in SUBSET Interfaces : ProbeDone(refused, mute)
      BY <2>1, <2>2, <3>3 DEF Reconnect, ProbeDone, SomethingWatches
    <3> QED
      BY <2>3, <3>1, <3>2, <3>3 DEF ManagerNext
  <2>4. CASE AttemptNext
    BY <2>2, <2>4 DEF AttemptNext, Reopened, Resolved, InitWorked, InitAnswered, InitFailed,
                      SweepDone, SweepFailed
  <2>5. CASE TimerNext
    BY <2>2, <2>5 DEF TimerNext, Tick, RetryFires, LivenessDropped, LivenessPing, PongCame,
                      PongMissing, FallsSilent, BackoffEnds, WindowCloses
  <2>6. CASE WorldNext
    BY <2>2, <2>6 DEF WorldNext, EventArrives, DeviceCallbackArrives, SendsEvent, LeaveWorked,
                      LeaveGivenUp, LateWorked, LateLost, Dies, Restarts, CallbackHeldUp,
                      AddressMoves
  <2>7. CASE UNCHANGED vars
    BY <2>2, <2>7 DEF vars
  <2> QED
    BY <2>3, <2>4, <2>5, <2>6, <2>7 DEF Next
<1> QED
  BY <1>1, <1>2, AlwaysIInv, PTL DEF Spec
=============================================================================
