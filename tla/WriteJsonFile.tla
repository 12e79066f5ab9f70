---------------------------- MODULE WriteJsonFile ----------------------------
(***************************************************************************)
(* writeJsonFile() of packages/backend/src/util/jsonFile.ts, for one file. *)
(*                                                                         *)
(* A call writes <file>.tmp and renames it.  The calls for one file share  *)
(* the temporary file, so each waits until the one before it has settled.  *)
(* Calls are numbered in the order they were made.  What a file holds is   *)
(* the number of the call that wrote it and whether it is all there: the   *)
(* program may be killed, or the disk fill up, in the middle of a write.   *)
(***************************************************************************)
EXTENDS Integers

CONSTANTS MaxCalls      \* bound: how many calls there are

ASSUME CallsAssumption == MaxCalls \in Nat

Calls == 1..MaxCalls

VARIABLES
    issued,     \* how many calls were made
    stage,      \* where each call is
    tmp,        \* <file>.tmp
    file        \* the file itself

writeVars == <<issued, stage, tmp, file>>

Stages == {"unused", "waiting", "writing", "written", "ok", "failed", "lost"}
Settled == {"ok", "failed", "lost"}
UnderWay == {"writing", "written"}

NoFile == [by |-> 0, whole |-> TRUE]

Contents == [by : 0..MaxCalls, whole : BOOLEAN]

WriteTypeOK ==
    /\ issued \in 0..MaxCalls
    /\ stage \in [Calls -> Stages]
    /\ \A n \in Calls : stage[n] = "unused" <=> n > issued
    /\ tmp \in Contents
    /\ file \in Contents

WriteInit ==
    /\ issued = 0
    /\ stage = [n \in Calls |-> "unused"]
    /\ tmp = NoFile
    /\ file = NoFile

Move(n, s) == stage' = [stage EXCEPT ![n] = s]

(* previous.then(): the call before has settled, whether it worked or not. *)
HasTurn(n) ==
    stage[n] = "waiting" /\ \A m \in 1..(n - 1) : stage[m] \in Settled

Call ==
    /\ issued < MaxCalls
    /\ issued' = issued + 1
    /\ Move(issued + 1, "waiting")
    /\ UNCHANGED <<tmp, file>>

(* What 2.x did: the value is written straight over the file.              *)
BeginInPlace(n) ==
    /\ HasTurn(n)
    /\ Move(n, "writing")
    /\ tmp' = [by |-> n, whole |-> FALSE]
    /\ file' = [by |-> n, whole |-> FALSE]
    /\ UNCHANGED issued

(* mkdir(), then writeFile() opens the temporary file, empty.              *)
Begin(n) ==
    /\ HasTurn(n)
    /\ Move(n, "writing")
    /\ tmp' = [by |-> n, whole |-> FALSE]
    /\ UNCHANGED <<issued, file>>

(* writeFile() is through; what another call wrote meanwhile stays mixed.  *)
Finish(n) ==
    /\ stage[n] = "writing"
    /\ Move(n, "written")
    /\ tmp' = [tmp EXCEPT !.whole = (tmp.by = n)]
    /\ UNCHANGED <<issued, file>>

Rename(n) ==
    /\ stage[n] = "written"
    /\ IF tmp = NoFile THEN
           /\ Move(n, "failed")
           /\ UNCHANGED <<tmp, file>>
       ELSE
           /\ Move(n, "ok")
           /\ file' = tmp
           /\ tmp' = NoFile
    /\ UNCHANGED issued

(* Any of the three steps fails: no space, no permission.                  *)
Fail(n) ==
    /\ HasTurn(n) \/ stage[n] \in UnderWay
    /\ Move(n, "failed")
    /\ UNCHANGED <<issued, tmp, file>>

(* The process is killed; the files stay as they are.                      *)
Kill ==
    /\ stage' = [n \in Calls |->
                    IF stage[n] \in Settled \union {"unused"} THEN stage[n] ELSE "lost"]
    /\ UNCHANGED <<issued, tmp, file>>

Proceed(n) == Begin(n) \/ Finish(n) \/ Rename(n)

WriteNext ==
    \/ Call
    \/ \E n \in Calls : Begin(n)
    \/ \E n \in Calls : Finish(n)
    \/ \E n \in Calls : Rename(n)
    \/ \E n \in Calls : Fail(n)
    \/ Kill

WriteSpec == WriteInit /\ [][WriteNext]_writeVars

-----------------------------------------------------------------------------
(* Whatever fails and whenever the process is killed, the file is some     *)
(* complete value that was written, or not there yet.                      *)
FileIsWhole == file.whole

(* A write whose promise was fulfilled stays: it is replaced by a later    *)
(* call's value and never by an earlier one's.                             *)
AnsweredIsKept == \A n \in Calls : stage[n] = "ok" => file.by >= n
=============================================================================
