-------------------------- MODULE DebouncedJsonFile --------------------------
(***************************************************************************)
(* DebouncedJsonFile of packages/backend/src/util/jsonFile.ts: the file of *)
(* one cache, written at most once per delay, flushed by Backend.stop()    *)
(* and removed by config.clearCaches.                                      *)
(*                                                                         *)
(* #writing is a chain of promises of which each makes one call of         *)
(* writeJsonFile() when the one before has settled: number k of the chain  *)
(* is call k of WriteJsonFile.  Saved values are numbered.                 *)
(***************************************************************************)
EXTENDS WriteJsonFile, Sequences

CONSTANTS
    MaxSaves,       \* bound: how often save() is called
    MaxRemoves      \* bound: how often remove() is called

ASSUME BoundsAssumption == MaxSaves \in Nat /\ MaxRemoves \in Nat

VARIABLES
    saved,          \* how many values were saved
    pending,        \* #pending, 0 for undefined
    timer,          \* #timer
    chain,          \* the values #writing has yet to write
    written,        \* the value each call of writeJsonFile() has
    flushing,       \* the ends of #writing that calls of flush() wait for
    removing,       \* the calls of remove()
    removes         \* how many of them there were

VARIABLES
    gone,           \* history: the newest value a removal removed
    dropped,        \* history: the newest value remove() or a kill gave up or took
    kept            \* history: the newest value flush() answered for

memory == <<saved, pending, timer, chain, written, flushing, removing, removes>>
history == <<gone, dropped, kept>>
vars == <<writeVars, memory, history>>

Values == 0..MaxSaves

TypeOK ==
    /\ WriteTypeOK
    /\ saved \in Values
    /\ pending \in Values
    /\ timer \in BOOLEAN
    /\ chain \in Seq(Values \ {0})
    /\ written \in [Calls -> Values]
    /\ flushing \in SUBSET Nat
    /\ removing \in SUBSET [after : Nat, upTo : Values]
    /\ removes \in 0..MaxRemoves
    /\ gone \in Values /\ dropped \in Values /\ kept \in Values

Init ==
    /\ WriteInit
    /\ saved = 0 /\ pending = 0 /\ timer = FALSE
    /\ chain = <<>>
    /\ written = [n \in Calls |-> 0]
    /\ flushing = {} /\ removing = {} /\ removes = 0
    /\ gone = 0 /\ dropped = 0 /\ kept = 0

InFile == IF ~file.whole THEN -1 ELSE IF file.by = 0 THEN 0 ELSE written[file.by]

(* The end of #writing at this moment.                                     *)
End == issued + Len(chain)

(* A slip: an error is not caught, and the chain ends with it.             *)
ChainWentWell(k) == k <= issued /\ (k > 0 => stage[k] = "ok")

ChainSettled(k) == k <= issued /\ (k > 0 => stage[k] \in Settled)

Save ==
    /\ saved < MaxSaves
    /\ saved' = saved + 1
    /\ pending' = saved + 1
    /\ timer' = TRUE
    /\ UNCHANGED <<writeVars, chain, written, flushing, removing, removes, history>>

(* flush() up to its await, also when the timer calls it.                  *)
HandOver ==
    /\ timer' = FALSE
    /\ pending' = 0
    /\ chain' = IF pending = 0 THEN chain ELSE Append(chain, pending)

TimerFires ==
    /\ timer
    /\ HandOver
    /\ UNCHANGED <<writeVars, saved, written, flushing, removing, removes, history>>

Flush ==
    /\ HandOver
    /\ flushing' = flushing \union {IF pending = 0 THEN End ELSE End + 1}
    /\ UNCHANGED <<writeVars, saved, written, removing, removes, history>>

(* flush() returns.  It has answered for the value if it was written, and  *)
(* no remove() is under way that may take the file.                        *)
FlushReturns(k) ==
    /\ k \in flushing
    /\ ChainSettled(k)
    /\ flushing' = flushing \ {k}
    /\ kept' = IF k > 0 /\ stage[k] = "ok" /\ removing = {} /\ written[k] > kept
                  /\ written[k] > dropped
               THEN written[k] ELSE kept
    /\ UNCHANGED <<writeVars, saved, pending, timer, chain, written, removing, removes,
                   gone, dropped>>

(* The next promise of #writing calls writeJsonFile().                     *)
WriteNextOne ==
    /\ chain # <<>>
    /\ ChainSettled(issued)
    /\ Call
    /\ written' = [written EXCEPT ![issued + 1] = Head(chain)]
    /\ chain' = Tail(chain)
    /\ UNCHANGED <<saved, pending, timer, flushing, removing, removes, history>>

(* remove(): what is scheduled is dropped, what is being written awaited.  *)
Remove ==
    /\ removes < MaxRemoves
    /\ removes' = removes + 1
    /\ timer' = FALSE
    /\ pending' = 0
    /\ removing' = removing \union {[after |-> End, upTo |-> saved]}
    /\ dropped' = saved
    /\ kept' = 0
    /\ UNCHANGED <<writeVars, saved, chain, written, flushing, gone>>

(* A slip: the file is removed without waiting for #writing.               *)
MayRemoveAtOnce(r) == TRUE

MayRemove(r) == ChainSettled(r.after)

Removed(r) ==
    /\ r \in removing
    /\ MayRemove(r)
    /\ removing' = removing \ {r}
    /\ file' = NoFile
    /\ gone' = IF r.upTo > gone THEN r.upTo ELSE gone
    /\ dropped' = IF InFile > dropped THEN InFile ELSE dropped
    /\ kept' = 0
    /\ UNCHANGED <<issued, stage, tmp, saved, pending, timer, chain, written, flushing,
                   removes>>

(* A directory we may not write to: removeFile() swallows it.              *)
NotRemoved(r) ==
    /\ r \in removing
    /\ MayRemove(r)
    /\ removing' = removing \ {r}
    /\ UNCHANGED <<writeVars, saved, pending, timer, chain, written, flushing, removes,
                   history>>

Killed ==
    /\ Kill
    /\ pending' = 0 /\ timer' = FALSE /\ chain' = <<>>
    /\ flushing' = {} /\ removing' = {}
    /\ dropped' = saved
    /\ UNCHANGED <<saved, written, removes, gone, kept>>

FileStep(n) == Proceed(n) /\ UNCHANGED <<memory, history>>

FileFails(n) == Fail(n) /\ UNCHANGED <<memory, history>>

Next ==
    \/ Save
    \/ TimerFires
    \/ Flush
    \/ \E k \in flushing : FlushReturns(k)
    \/ WriteNextOne
    \/ Remove
    \/ \E r \in removing : Removed(r) \/ NotRemoved(r)
    \/ Killed
    \/ \E n \in Calls : FileStep(n) \/ FileFails(n)

Spec == Init /\ [][Next]_vars

(* The timer runs, promises are continued, the file system answers.        *)
FairSpec ==
    /\ Spec
    /\ WF_vars(TimerFires)
    /\ WF_vars(WriteNextOne)
    /\ \A n \in Calls : WF_vars(FileStep(n))

-----------------------------------------------------------------------------
Kept == INSTANCE KeptFile WITH value <- InFile

(* The file of a cache is a KeptFile: always one whole saved value, going  *)
(* only to newer ones, and nothing comes back after remove().              *)
IsAKeptFile == Kept!Spec

(* flush() "writes immediately": the value it returned for, or a newer     *)
(* one, is in the file whatever fails or kills the program afterwards,     *)
(* until remove() is called.                                               *)
FlushedIsKept == kept > 0 => InFile >= kept

(* The newest value gets into the file, unless a write fails, the program  *)
(* is killed or the file removed.                                          *)
EverySaveLands ==
    \A v \in 1..MaxSaves :
        pending = v ~> \/ InFile >= v
                       \/ dropped >= v
                       \/ \E n \in Calls : written[n] >= v /\ stage[n] = "failed"
=============================================================================
