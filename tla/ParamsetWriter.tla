--------------------------- MODULE ParamsetWriter ---------------------------
(***************************************************************************)
(* Saving and repairing paramsets: ParamsetWriter and ConfigRepair of      *)
(* packages/backend/src/write, the dialog that asks for a write, the paced *)
(* queue the writes go through (WriteQueue) and the interface process that *)
(* stores them.                                                            *)
(*                                                                         *)
(* A call works through its targets one after the other: it asks for the   *)
(* description and the current values, which is not queued, works out what *)
(* to send, and enqueues one write.  Other calls, other clients of the     *)
(* interface and the user's Cancel go on between these steps.  All targets *)
(* are channels of one interface.                                          *)
(***************************************************************************)
EXTENDS ParamsetValues, FiniteSets, Functions, SequencesExt

CONSTANTS
    Calls,          \* the calls that may be made
    Requests,       \* what each call may ask for
    Channels,       \* the channels of the interface
    Identity,       \* what a channel's description is known by, or Unidentified
    Description,    \* the paramset description: a function of the parameters
    Stored,         \* what the channels may hold at first
    Line,           \* the interface
    Gap,            \* its pace
    ForeignWrites,  \* what another client writes: channel, parameter and value
    MaxForeign,     \* writes of other clients
    MaxCancels      \* times the user presses Cancel

Kinds == {"put", "link", "value", "repair"}
MaxTargets == 3
Unidentified == "no identity"
Tasks == Calls \X (1..MaxTargets)

VARIABLES
    device,     \* what the interface process holds for each channel
    call,       \* the calls: where each of them is
    sent,       \* the payload of each write that was enqueued
    applied,    \* the writes the interface process has worked off
    cancels,    \* how often the user pressed Cancel
    foreign,    \* the writes of other clients so far
    pending, held, running, started, timer, since, promise  \* see WriteQueue

queueVars == <<pending, held, running, started, timer, since, promise>>
vars == <<device, call, sent, applied, cancels, foreign, queueVars>>

Q == INSTANCE WriteQueue WITH Interfaces <- {Line}, Pace <- [i \in {Line} |-> Gap]

ASSUME RequestsAssumption ==
    \A c \in Calls : \A r \in Requests[c] :
        /\ DOMAIN r = {"kind", "targets", "values", "writeAll", "always"}
        /\ r.kind \in Kinds /\ r.writeAll \in BOOLEAN
        /\ r.targets \in Seq(Channels) /\ Len(r.targets) \in 1..MaxTargets
        \* the dialog does not offer its own channel among the others
        /\ r.kind = "put" => \A k \in 2..Len(r.targets) : r.targets[k] # r.targets[1]

ASSUME StoredAssumption == \A s \in Stored : DOMAIN s = Channels

ASSUME BoundsAssumption == Gap \in Nat /\ MaxForeign \in Nat /\ MaxCancels \in Nat

Unborn == [at |-> 0, step |-> "none", request |-> Nothing, shown |-> Nothing,
           original |-> Nothing, results |-> <<>>]

Working == {c \in Calls : call[c].step \in {"asking", "answered", "writing"}}

Target(c) == call[c].request.targets[call[c].at]
TaskOf(c) == <<c, call[c].at>>

Outcomes == {"written", "nothing", "problems", "unread", "refused", "failed", "cancelled"}
IsOk(outcome) == outcome \in {"written", "nothing"}

TypeOK ==
    /\ applied \subseteq Tasks /\ DOMAIN sent \subseteq Tasks
    /\ cancels \in 0..MaxCancels /\ foreign \in 0..MaxForeign
    /\ \A c \in Calls :
          /\ call[c].step \in {"none", "shown", "asking", "answered", "writing", "done"}
          /\ \A k \in DOMAIN call[c].results : call[c].results[k] \in Outcomes
          /\ call[c].step \in {"asking", "answered", "writing"} =>
                Len(call[c].results) = call[c].at - 1
    /\ Q!TypeOK

Init ==
    /\ device \in Stored
    /\ call = [c \in Calls |-> Unborn]
    /\ sent = Nothing
    /\ applied = {} /\ cancels = 0 /\ foreign = 0
    /\ Q!Init

-----------------------------------------------------------------------------
(* The dialog: buildPreview() shows what a write of its edits would send.  *)
(* The user edited something, or the Write button is disabled.             *)
Preview(c, r) ==
    LET shown == Diff(device[r.targets[1]], r.values, Description, r.writeAll).values IN
    /\ r.kind = "put" /\ call[c] = Unborn
    /\ shown # Nothing
    /\ call' = [call EXCEPT ![c] = [@ EXCEPT !.step = "shown", !.request = r, !.shown = shown]]
    /\ UNCHANGED <<device, sent, applied, cancels, foreign, queueVars>>

(* Write: paramset.put is called with what the preview shows.              *)
Confirm(c) ==
    /\ call[c].step = "shown"
    /\ call' = [call EXCEPT ![c] = [@ EXCEPT !.step = "asking", !.at = 1,
                                             !.request.values = call[c].shown]]
    /\ UNCHANGED <<device, sent, applied, cancels, foreign, queueVars>>

(* The calls without such a preview: a link, a single value, a repair.     *)
Ask(c, r) ==
    /\ r.kind # "put" /\ call[c] = Unborn
    /\ call' = [call EXCEPT ![c] = [@ EXCEPT !.step = "asking", !.at = 1, !.request = r]]
    /\ UNCHANGED <<device, sent, applied, cancels, foreign, queueVars>>

(* multiApplyEligibility(): every channel after the first needs the        *)
(* identity of the first, which must have one, and is not that channel     *)
(* again.  What is refused is an address, wherever the call lists it.      *)
IsIneligible(channel, source) ==
    \/ channel = source
    \/ Identity[source] = Unidentified
    \/ Identity[channel] # Identity[source]

IsRefused(r, k) ==
    /\ r.kind = "put"
    /\ \E j \in 2..Len(r.targets) :
          r.targets[j] = r.targets[k] /\ IsIneligible(r.targets[j], r.targets[1])

(* The next target that is not refused, or one past the last.              *)
Following(r, k) ==
    CHOOSE j \in k+1 .. Len(r.targets)+1 :
        /\ j <= Len(r.targets) => ~IsRefused(r, j)
        /\ \A between \in k+1 .. j-1 : IsRefused(r, between)

(* One target has its result; a bulk ends where a write was cancelled.     *)
Ended(entry, outcome) ==
    LET r == entry.request
        next == Following(r, entry.at)
        refusals == [j \in 1 .. next - entry.at - 1 |-> "refused"]
        over == outcome = "cancelled" /\ r.kind \in {"put", "link"}
    IN  IF over THEN [entry EXCEPT !.step = "done", !.results = Append(@, outcome)]
        ELSE [entry EXCEPT
                !.step = IF next > Len(r.targets) THEN "done" ELSE "asking",
                !.at = next,
                !.original = Nothing,
                !.results = Append(@, outcome) \o refusals]

(* The description and the values of the target are there.  What was put   *)
(* with writeAll, and a single value, is not compared, so nothing is read. *)
Read(c) ==
    /\ call[c].step = "asking"
    /\ LET r == call[c].request IN
       call' = [call EXCEPT ![c] = [@ EXCEPT !.step = "answered",
                  !.original = IF r.kind = "value" \/ r.writeAll THEN Nothing
                               ELSE device[Target(c)]]]
    /\ UNCHANGED <<device, sent, applied, cancels, foreign, queueVars>>

(* One of the two requests failed: that is the result of this target.      *)
ReadFails(c) ==
    /\ call[c].step = "asking"
    /\ call' = [call EXCEPT ![c] = Ended(@, "unread")]
    /\ UNCHANGED <<device, sent, applied, cancels, foreign, queueVars>>

(* What the target would be sent, and the parameters that keep it from it. *)
PayloadOf(r, original) ==
    LET diff == Diff(original, r.values, Description, r.writeAll)
        unwritable == {p \in DOMAIN r.values :
                         \/ p \notin DOMAIN Description
                         \/ ~IsValid(Cast(r.values[p], Description[p]), Description[p])}
    IN  CASE r.kind = "put" -> diff
          [] r.kind = "link" ->
                [diff EXCEPT !.values = WithAlwaysSent(@, r.values, Description, r.always)]
          [] r.kind = "value" ->
                [problems |-> unwritable,
                 values |-> [p \in DOMAIN r.values \ unwritable |->
                                Cast(r.values[p], Description[p])]]
          [] r.kind = "repair" ->
                [problems |-> {}, values |-> RepairPayload(original, Description)]

WorkedOut(c) ==
    LET payload == PayloadOf(call[c].request, call[c].original) IN
    IF payload.problems # {} THEN "problems"
    ELSE IF payload.values = Nothing THEN "nothing"
    ELSE "send"

(* A slip, as in version 2: what was read is sent along.                   *)
WriteWithWhatWasRead(c) ==
    /\ call[c].step = "answered" /\ WorkedOut(c) = "send"
    /\ LET payload == PayloadOf(call[c].request, call[c].original) IN
       sent' = sent @@ (TaskOf(c) :> (payload.values @@ call[c].original))
    /\ call' = [call EXCEPT ![c].step = "writing"]
    /\ Q!Enqueue(Line, TaskOf(c))
    /\ UNCHANGED <<device, applied, cancels, foreign>>

(* The answer of the read is worked out: one write is enqueued ...         *)
Write(c) ==
    /\ call[c].step = "answered" /\ WorkedOut(c) = "send"
    /\ sent' = [t \in DOMAIN sent \union {TaskOf(c)} |->
                  IF t = TaskOf(c) THEN PayloadOf(call[c].request, call[c].original).values
                                   ELSE sent[t]]
    /\ call' = [call EXCEPT ![c].step = "writing"]
    /\ Q!Enqueue(Line, TaskOf(c))
    /\ UNCHANGED <<device, applied, cancels, foreign>>

(* ... or there is nothing to write, or something nobody may write.        *)
NoWrite(c) ==
    /\ call[c].step = "answered" /\ WorkedOut(c) # "send"
    /\ call' = [call EXCEPT ![c] = Ended(@, WorkedOut(c))]
    /\ UNCHANGED <<device, sent, applied, cancels, foreign, queueVars>>

(* A slip: the caller hears that all is well when the write failed.        *)
WriteEndsWell(c, outcome) ==
    /\ call[c].step = "writing" /\ TaskOf(c) \in started[Line]
    /\ outcome = "resolved" => TaskOf(c) \in applied
    /\ Q!Settle(Line, outcome)
    /\ call' = [call EXCEPT ![c] = Ended(@, "written")]
    /\ UNCHANGED <<device, sent, applied, cancels, foreign>>

(* The write on the wire is over and its caller goes on; the queue starts  *)
(* the next one.                                                           *)
WriteEnds(c, outcome) ==
    /\ call[c].step = "writing" /\ TaskOf(c) \in started[Line]
    /\ outcome = "resolved" => TaskOf(c) \in applied
    /\ Q!Settle(Line, outcome)
    /\ call' = [call EXCEPT ![c] =
                  Ended(@, IF outcome = "resolved" THEN "written" ELSE "failed")]
    /\ UNCHANGED <<device, sent, applied, cancels, foreign>>

(* A slip: the callers of what was dropped hear nothing.                   *)
CancelUnheard ==
    /\ cancels < MaxCancels /\ Working # {}
    /\ cancels' = cancels + 1
    /\ Q!Cancel({Line})
    /\ UNCHANGED <<call, device, sent, applied, foreign>>

(* write.cancel: the queue drops what waits in it, and the callers of what *)
(* it drops go on with that.                                               *)
Cancel ==
    /\ cancels < MaxCancels /\ Working # {}
    /\ cancels' = cancels + 1
    /\ Q!Cancel({Line})
    /\ call' = [c \in Calls |->
                  IF call[c].step = "writing" /\ TaskOf(c) \in Q!CancelledIn(Line)
                  THEN Ended(call[c], "cancelled") ELSE call[c]]
    /\ UNCHANGED <<device, sent, applied, foreign>>

PaceTimerFires == Q!TimerFires(Line)
                  /\ UNCHANGED <<device, call, sent, applied, cancels, foreign>>

Tick == Q!Tick /\ UNCHANGED <<device, call, sent, applied, cancels, foreign>>

-----------------------------------------------------------------------------
(* The interface process stores a write, also one the backend has given up *)
(* on; hmipserver stores it even if it then answers with a fault.  rfd     *)
(* answers ok to what it drops, or holds as something else, because the    *)
(* description does not admit it.                                          *)
Unfit(payload) ==
    {p \in DOMAIN payload :
        p \in DOMAIN Description => ~IsValid(payload[p], Description[p])}

Holds(payload, lost) == [p \in DOMAIN payload \ lost |-> Unwrap(payload[p])]

Overwritten(old, new) ==
    [p \in DOMAIN old \union DOMAIN new |-> IF p \in DOMAIN new THEN new[p] ELSE old[p]]

Applies(t) ==
    /\ t \in DOMAIN sent \ applied
    /\ t \in started[Line] \/ promise[t] = "rejected"
    /\ \E lost \in SUBSET Unfit(sent[t]) :
          LET channel == call[t[1]].request.targets[t[2]] IN
          device' = [device EXCEPT ![channel] = Overwritten(@, Holds(sent[t], lost))]
    /\ applied' = applied \union {t}
    /\ UNCHANGED <<call, sent, cancels, foreign, queueVars>>

(* Another client, the CCU's own user interface, changes a parameter.      *)
ForeignWrite(channel, p, v) ==
    /\ foreign < MaxForeign
    /\ foreign' = foreign + 1
    /\ device' = [device EXCEPT ![channel] = Overwritten(@, [q \in {p} |-> v])]
    /\ UNCHANGED <<call, sent, applied, cancels, queueVars>>

Next ==
    \/ \E c \in Calls :
          \/ \E r \in Requests[c] : Preview(c, r) \/ Ask(c, r)
          \/ Confirm(c)
          \/ Read(c) \/ ReadFails(c)
          \/ Write(c) \/ NoWrite(c)
          \/ \E outcome \in {"resolved", "rejected"} : WriteEnds(c, outcome)
    \/ Cancel
    \/ PaceTimerFires \/ Tick
    \/ \E t \in DOMAIN sent : Applies(t)
    \/ \E f \in ForeignWrites : ForeignWrite(f[1], f[2], f[3])

Spec == Init /\ [][Next]_vars

(* Reads and writes end, because every RPC has a timeout, timers fire, and *)
(* what has its answer is worked out.  Nothing is asked of the user.       *)
Fairness ==
    /\ \A c \in Calls :
          /\ WF_vars(Read(c) \/ ReadFails(c))
          /\ WF_vars(Write(c) \/ NoWrite(c))
          /\ WF_vars(\E outcome \in {"resolved", "rejected"} : WriteEnds(c, outcome))
    /\ WF_vars(PaceTimerFires) /\ WF_vars(Tick)

FairSpec == Spec /\ Fairness

-----------------------------------------------------------------------------
(* buildPreview(): "what the dialog shows here is literally what           *)
(* paramset.put will compute again in the backend".  Whatever the device   *)
(* came to hold between the preview and the write, no target is sent a     *)
(* value that differs from the one the preview showed for the parameter.   *)
(* Nor is it sent a parameter the preview did not show, unless the user    *)
(* chose to write all of them: then what the preview left out, because the *)
(* stored or the entered value is not valid, is sent after all, with its   *)
(* default (ParamsetDialog.svelte, paramset.ts, diff.ts).                  *)
IsAsShown(values, request, shown) ==
    \A p \in DOMAIN values :
        \/ p \in DOMAIN shown /\ values[p] = shown[p]
        \/ /\ request.writeAll /\ p \notin DOMAIN shown
           /\ values[p] = Cast(Description[p].DEFAULT, Description[p])

SentWasShown ==
    \A t \in DOMAIN sent :
        call[t[1]].request.kind = "put" =>
            IsAsShown(sent[t], call[t[1]].request, call[t[1]].shown)

(* A stored value that is the value v: of its kind and with its content,   *)
(* or the name of it in an enum.                                           *)
IsTheValue(stored, v, d) ==
    \/ /\ Kind(Unwrap(stored)) = Kind(Unwrap(v))
       /\ Unwrap(stored)[2] = Unwrap(v)[2]
    \/ /\ d.TYPE = "ENUM" /\ EnumIndex(stored, d) # {}
       /\ Unwrap(v) = Num(Finite(EnumIndex(stored, d)))

(* A stored value that is none of the parameter's, a string in an INTEGER  *)
(* for one, though its cast is v: diffParamset() finds no change in it,    *)
(* and only a repair puts it right.                                        *)
OnlyReadsLike(stored, v, d) ==
    /\ ~IsValid(stored, d)
    /\ Unwrap(Cast(stored, d)) = Unwrap(v)

(* A value of the call was in the write that the interface answered with   *)
(* ok, or is what was read of this target before it.                       *)
AsAsked(c, p) ==
    LET d == Description[p]
        v == Cast(call[c].request.values[p], d)
        read == call[c].original
    IN  \/ TaskOf(c) \in applied /\ p \in DOMAIN sent[TaskOf(c)]
        \/ /\ p \in DOMAIN read
           /\ IsTheValue(read[p], v, d) \/ OnlyReadsLike(read[p], v, d)

(* Of a target that is answered as ok every value of the call was sent and *)
(* acknowledged, or left out because the target was read to hold it: no    *)
(* failure, no problem and no other target's answer passes for that.  What *)
(* the device makes of a write it acknowledged is not known here.          *)
OkIsTrue ==
    [][\A c \in Working :
          (/\ call[c].request.kind # "repair"
           /\ Len(call'[c].results) >= call[c].at
           /\ IsOk(call'[c].results[call[c].at]))
              => \A p \in DOMAIN call[c].request.values : AsAsked(c, p)]_vars

(* A channel that was repaired holds a valid value for every parameter     *)
(* that has one, and stays that way whatever is saved, worked off late or  *)
(* repaired beside it.                                                     *)
AllValid(channel) ==
    \A p \in DOMAIN Description :
        Description[p].writable /\ FallbackValue(Description[p]) # {} =>
            p \in DOMAIN device[channel] /\ IsValid(device[channel][p], Description[p])

RepairedIsValid ==
    \A c \in Calls :
        call[c].request # Nothing /\ call[c].request.kind = "repair" =>
            \A k \in DOMAIN call[c].results :
                call[c].results[k] = "written" => AllValid(call[c].request.targets[k])

(* Every call is answered, whatever fails, waits or is cancelled.          *)
EveryCallReturns == \A c \in Calls : c \in Working ~> c \notin Working

=============================================================================
