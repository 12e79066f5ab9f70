----------------------------- MODULE CacheStore -----------------------------
(***************************************************************************)
(* What the backend remembers of one BidCos interface between two answers: *)
(* the device list, the service messages and the outage counter of one     *)
(* device (packages/backend/src/cache with the handlers of api/backend.ts).*)
(*                                                                         *)
(* Callbacks of the interface arrive in the order it sends them; an answer *)
(* to a read was true when the interface gave it and is applied later.     *)
(* Devices and counters are kept in files (DebouncedJsonFile), which lag   *)
(* behind until stop() flushes them; a kill takes what lags.               *)
(***************************************************************************)
EXTENDS Naturals, Sequences, FiniteSets

CONSTANTS
    Devices,        \* the devices that may be paired
    AutoAck,        \* the setting autoAckStickyUnreach
    Budgets         \* bounds: how many changes, outages and restarts, and what is read

Reads == {"poll", "button"}     \* who reads: a timer or a (re-)init, and the user

Bounds == [changes : Nat, outages : Nat, restarts : Nat,
           reads : SUBSET (Reads \X {"devices", "messages"})]

ASSUME BudgetsAssumption ==
    /\ IsFiniteSet(Devices) /\ AutoAck \in BOOLEAN
    /\ Budgets \subseteq Bounds

Datapoints == {"UNREACH", "STICKY_UNREACH"}

VARIABLES
    left,           \* of the budget
    running,        \* whether the backend runs
    paired,         \* the interface: its devices
    away,           \* the interface: whether the device is unreachable
    sticky,         \* the interface: STICKY_UNREACH, until it is acknowledged
    calls           \* the callbacks it has sent

VARIABLES
    reads,          \* the reads under way, with the answer once it is given
    devices,        \* DeviceCache
    messages,       \* ServiceMessageStore
    entry,          \* UnreachCache: the counter and the state of the device
    acks,           \* the writes of #acknowledge(): on their way, and taken
    file            \* what devices.json and unreach.json hold

VARIABLES
    outages,        \* history: how often the device went away
    reported,       \* history: as entry, from the UNREACH events alone
    doubtful        \* history: the devices on which the answer applied last was older
                    \* than a callback

interface == <<paired, away, sticky, calls>>
caches == <<reads, devices, messages, entry, acks, file>>
history == <<outages, reported, doubtful>>
vars == <<left, running, interface, caches, history>>

Entry == [count : Nat, unreach : BOOLEAN]
Reported == [count : Nat, unreach : BOOLEAN, masked : BOOLEAN]
NoRead == [of |-> "none", given |-> FALSE, answer |-> {}, late |-> {}]

DeviceCall == [call : {"newDevices", "deleteDevices"}, of : Devices]
EventCall == [call : {"event"}, of : Datapoints, value : BOOLEAN]

TypeOK ==
    /\ left \in Bounds
    /\ running \in BOOLEAN
    /\ paired \subseteq Devices /\ away \in BOOLEAN /\ sticky \in BOOLEAN
    /\ calls \in Seq(DeviceCall \union EventCall)
    /\ reads \in [Reads -> [of : {"none", "devices", "messages"}, given : BOOLEAN,
                            answer : SUBSET (Devices \union Datapoints), late : SUBSET Devices]]
    /\ devices \subseteq Devices /\ messages \subseteq Datapoints
    /\ entry \in Entry /\ acks \in [sent : Nat, taken : Nat]
    /\ file \in [devices : SUBSET Devices, entry : Entry, reported : Reported]
    /\ outages \in Nat /\ reported \in Reported /\ doubtful \subseteq Devices

Init ==
    /\ left \in Budgets
    /\ running = TRUE
    /\ paired = {} /\ away = FALSE /\ sticky = FALSE /\ calls = <<>>
    /\ reads = [r \in Reads |-> NoRead]
    /\ devices = {} /\ messages = {} /\ entry = [count |-> 0, unreach |-> FALSE]
    /\ acks = [sent |-> 0, taken |-> 0]
    /\ outages = 0 /\ doubtful = {}
    /\ reported = [count |-> 0, unreach |-> FALSE, masked |-> FALSE]
    /\ file = [devices |-> {}, entry |-> entry, reported |-> reported]

-----------------------------------------------------------------------------
(* The interface process.  Nobody hears it while the backend is off.       *)

Tell(s) == calls' = IF running THEN calls \o s ELSE calls
Event(d, value) == [call |-> "event", of |-> d, value |-> value]
Flags == {d \in Datapoints : IF d = "UNREACH" THEN away ELSE sticky}

Pair(d) ==
    /\ left.changes > 0 /\ d \notin paired
    /\ left' = [left EXCEPT !.changes = @ - 1]
    /\ paired' = paired \union {d}
    /\ Tell(<<[call |-> "newDevices", of |-> d]>>)
    /\ UNCHANGED <<running, away, sticky, caches, history>>

Unpair(d) ==
    /\ left.changes > 0 /\ d \in paired
    /\ left' = [left EXCEPT !.changes = @ - 1]
    /\ paired' = paired \ {d}
    /\ Tell(<<[call |-> "deleteDevices", of |-> d]>>)
    /\ UNCHANGED <<running, away, sticky, caches, history>>

(* UNREACH is repeated, STICKY_UNREACH comes before or after it.           *)
GoesAway ==
    /\ left.outages > 0 /\ ~away
    /\ left' = [left EXCEPT !.outages = @ - 1]
    /\ away' = TRUE /\ sticky' = TRUE
    /\ outages' = outages + 1
    /\ LET u == Event("UNREACH", TRUE)
           s == Event("STICKY_UNREACH", TRUE) IN
       \E told \in {<<u, u, s>>, <<s, u>>} : Tell(told)
    /\ UNCHANGED <<running, paired, caches, reported, doubtful>>

ComesBack ==
    /\ away
    /\ away' = FALSE
    /\ Tell(<<Event("UNREACH", FALSE)>>)
    /\ UNCHANGED <<left, running, paired, sticky, caches, history>>

(* The interface answers listDevices or getServiceMessages.                *)
Answer(r) ==
    /\ reads[r].of # "none" /\ ~reads[r].given
    /\ reads' = [reads EXCEPT ![r] = [of |-> @.of, given |-> TRUE, late |-> {},
                                      answer |-> IF @.of = "devices" THEN paired ELSE Flags]]
    /\ UNCHANGED <<left, running, interface, devices, messages, entry, acks, file, history>>

(* It takes the write of an acknowledgement; a device that is away may not.*)
TakeAck ==
    /\ acks.sent > 0
    /\ \/ /\ acks' = [sent |-> acks.sent - 1, taken |-> acks.taken + 1]
          /\ sticky' = FALSE
          /\ Tell(<<Event("STICKY_UNREACH", FALSE)>>)
       \/ /\ away
          /\ acks' = [acks EXCEPT !.sent = @ - 1]
          /\ UNCHANGED <<sticky, calls>>
    /\ UNCHANGED <<left, running, paired, away, reads, devices, messages, entry, file, history>>

-----------------------------------------------------------------------------
(* UnreachCache.note()                                                     *)

(* A slip: the acknowledgement is taken for the recovery.                  *)
NoteBackWhenAcknowledged(e, d, value) ==
    IF value THEN [count |-> IF e.unreach THEN e.count ELSE e.count + 1, unreach |-> TRUE]
    ELSE [e EXCEPT !.unreach = @ /\ d # "STICKY_UNREACH"]

Note(e, d, value) ==
    IF value THEN [count |-> IF e.unreach THEN e.count ELSE e.count + 1, unreach |-> TRUE]
    ELSE [e EXCEPT !.unreach = @ /\ d # "UNREACH"]

(* #noteUnreach(): the edge of STICKY_UNREACH is acknowledged if the       *)
(* setting is on.                                                          *)
NoteUnreach(d, value) ==
    /\ entry' = Note(entry, d, value)
    /\ acks' = IF AutoAck /\ d = "STICKY_UNREACH" /\ value /\ ~entry.unreach
               THEN [acks EXCEPT !.sent = @ + 1] ELSE acks

(* Of what a poll lists, in any order: the first makes the edge.           *)
NoteListed(listed) ==
    IF listed = {} THEN UNCHANGED <<entry, acks>>
    ELSE \E d \in listed : NoteUnreach(d, TRUE)

(* The outages that UNREACH events alone tell of.                          *)
Told(r, value) ==
    [r EXCEPT !.count = IF value /\ ~r.unreach THEN @ + 1 ELSE @, !.unreach = value]

(* The callbacks: #onEvent(), newDevices and deleteDevices.                *)
Callback ==
    /\ calls # <<>>
    /\ calls' = Tail(calls)
    /\ LET c == Head(calls) IN
       IF c.call = "event"
       THEN /\ messages' = IF c.value THEN messages \union {c.of} ELSE messages \ {c.of}
            /\ NoteUnreach(c.of, c.value)
            /\ reported' = IF c.of = "UNREACH" THEN Told(reported, c.value) ELSE reported
            /\ UNCHANGED <<reads, devices, doubtful>>
       ELSE /\ devices' = IF c.call = "newDevices" THEN devices \union {c.of} ELSE devices \ {c.of}
            /\ reads' = [r \in Reads |-> IF reads[r].given
                                         THEN [reads[r] EXCEPT !.late = @ \union {c.of}]
                                         ELSE reads[r]]
            /\ doubtful' = doubtful \ {c.of}
            /\ UNCHANGED <<messages, entry, acks, reported>>
    /\ UNCHANGED <<left, running, paired, away, sticky, file, outages>>

Read(r, of) ==
    /\ running /\ reads[r].of = "none" /\ <<r, of>> \in left.reads
    /\ reads' = [reads EXCEPT ![r].of = of]
    /\ UNCHANGED <<left, running, interface, devices, messages, entry, acks, file, history>>

(* A slip: the answer is added to what is there.                           *)
AddDevices(r) ==
    /\ reads[r].of = "devices" /\ reads[r].given
    /\ devices' = devices \union reads[r].answer
    /\ doubtful' = reads[r].late
    /\ reads' = [reads EXCEPT ![r] = NoRead]
    /\ UNCHANGED <<left, running, interface, messages, entry, acks, file, outages, reported>>

(* #refreshDevices() after its await.                                      *)
ReplaceDevices(r) ==
    /\ reads[r].of = "devices" /\ reads[r].given
    /\ devices' = reads[r].answer
    /\ doubtful' = reads[r].late
    /\ reads' = [reads EXCEPT ![r] = NoRead]
    /\ UNCHANGED <<left, running, interface, messages, entry, acks, file, outages, reported>>

(* A slip: an empty answer is taken for none.                              *)
ReplaceMessagesIfAny(r) ==
    /\ reads[r].of = "messages" /\ reads[r].given
    /\ messages' = IF reads[r].answer = {} THEN messages ELSE reads[r].answer
    /\ NoteListed(reads[r].answer)
    /\ reads' = [reads EXCEPT ![r] = NoRead]
    /\ UNCHANGED <<left, running, interface, devices, file, history>>

(* #refreshServiceMessages() after its awaits: what is listed counts too.  *)
ReplaceMessages(r) ==
    /\ reads[r].of = "messages" /\ reads[r].given
    /\ messages' = reads[r].answer
    /\ NoteListed(reads[r].answer)
    /\ reads' = [reads EXCEPT ![r] = NoRead]
    /\ UNCHANGED <<left, running, interface, devices, file, history>>

(* The acknowledge button, and the end of any #acknowledge().              *)
Acknowledge ==
    /\ "STICKY_UNREACH" \in messages /\ acks = [sent |-> 0, taken |-> 0]
    /\ acks' = [acks EXCEPT !.sent = 1]
    /\ UNCHANGED <<left, running, interface, reads, devices, messages, entry, file, history>>

Acknowledged ==
    /\ acks.taken > 0
    /\ acks' = [acks EXCEPT !.taken = @ - 1]
    /\ messages' = messages \ {"STICKY_UNREACH"}
    /\ UNCHANGED <<left, running, interface, reads, devices, entry, file, history>>

(* reset() keeps the state of a device: an outage under way is not counted *)
(* again.  If UNREACH does not say so, the flag masks its next edge.       *)
ResetUnreach ==
    /\ running
    /\ entry' = [entry EXCEPT !.count = 0]
    /\ reported' = [reported EXCEPT !.count = 0, !.masked = entry.unreach /\ ~reported.unreach]
    /\ UNCHANGED <<left, running, interface, reads, devices, messages, acks, file, outages, doubtful>>

-----------------------------------------------------------------------------
(* The files: written after a delay, by stop(), or not any more.           *)

Current == [devices |-> devices, entry |-> entry, reported |-> reported]

Write ==
    /\ running /\ left.restarts > 0      \* without one to come nothing reads the files
    /\ file' \in {[file EXCEPT !.devices = devices],
                  [file EXCEPT !.entry = entry, !.reported = reported]}
    /\ UNCHANGED <<left, running, interface, reads, devices, messages, entry, acks, history>>

End ==
    /\ running /\ left.restarts > 0
    /\ left' = [left EXCEPT !.restarts = @ - 1]
    /\ running' = FALSE
    /\ file' \in {Current, file}
    /\ calls' = <<>> /\ messages' = {}
    /\ reads' = [r \in Reads |-> NoRead] /\ acks' = [sent |-> 0, taken |-> 0]
    /\ UNCHANGED <<paired, away, sticky, devices, entry, history>>

(* CacheStore.load()                                                       *)
Load ==
    /\ ~running
    /\ running' = TRUE
    /\ devices' = file.devices
    /\ entry' = file.entry
    /\ reported' = file.reported
    /\ doubtful' = Devices
    /\ UNCHANGED <<left, interface, reads, messages, acks, file, outages>>

-----------------------------------------------------------------------------
ReadStep(r) == Answer(r) \/ ReplaceDevices(r) \/ ReplaceMessages(r)

Next ==
    \/ \E d \in Devices : Pair(d) \/ Unpair(d)
    \/ GoesAway \/ ComesBack \/ TakeAck
    \/ Callback
    \/ \E r \in Reads : Read(r, "devices") \/ Read(r, "messages") \/ ReadStep(r)
    \/ Acknowledge \/ Acknowledged \/ ResetUnreach
    \/ Write \/ End \/ Load

Spec == Init /\ [][Next]_vars

(* The interface answers and calls, and the poll comes round.              *)
FairSpec ==
    /\ Spec
    /\ WF_vars(TakeAck) /\ WF_vars(Callback) /\ WF_vars(Acknowledged) /\ WF_vars(Load)
    /\ \A r \in Reads : WF_vars(ReadStep(r))
    /\ SF_vars(Read("poll", "messages"))

-----------------------------------------------------------------------------
(* When every callback has arrived, the list is what the interface has.    *)
(* An answer that is applied late may be wrong on the devices that a       *)
(* callback named since it was given, and on no other, until the next      *)
(* callback or answer; after a restart all are open (#refreshDevices() and *)
(* the callbacks of api/backend.ts).                                       *)
ListIsTheInterface ==
    running /\ calls = <<>> => \A d \in Devices \ doubtful : d \in devices <=> d \in paired

(* Every outage that UNREACH events tell of is counted, over restarts too, *)
(* whatever polls and acknowledgements come between ("it is kept whether   *)
(* this is on or off, so the information survives", api/types.ts) - but    *)
(* the first one after a reset() that found the flag set and UNREACH not:  *)
(* STICKY_UNREACH came first, an old answer set the flag again, or a poll  *)
(* that still lists STICKY_UNREACH.  Never is more than that one lost.     *)
EveryOutageCounts == reported.count <= entry.count + (IF reported.masked THEN 1 ELSE 0)

(* Whatever came late or was lost, the poll makes the messages those of    *)
(* the interface when these change no more (pollServiceMessages()).        *)
MessagesSettle == <>[](messages = Flags)

(* packages/core/src/api/types.ts: "Either of them going true counts, once *)
(* ... it is one continuous state and not three".                          *)
OneOutageCountsOnce == entry.count <= outages
=============================================================================
