---------------------------- MODULE JsonFileProofs ----------------------------
(***************************************************************************)
(* What writeJsonFile() and DebouncedJsonFile keep for any number of       *)
(* values, writes and removals, that a DebouncedJsonFile is a KeptFile,    *)
(* and that it forgets no value.                                           *)
(***************************************************************************)
EXTENDS DebouncedJsonFile, TLAPS

(* One call after the other: behind one that has not settled all wait.     *)
InTurn ==
    \A m, n \in Calls :
        m < n /\ stage[m] \notin Settled => stage[n] \in {"waiting", "unused"}

(* So the temporary file is that of the call that is writing.              *)
TmpIsMine ==
    \A n \in Calls :
        /\ stage[n] = "writing" => tmp.by = n
        /\ stage[n] = "written" => tmp = [by |-> n, whole |-> TRUE]

FileIsAnswered == FileIsWhole /\ (file.by > 0 => stage[file.by] = "ok")

(* The inductive invariant of the writes of a file.                        *)
WriteInv == WriteTypeOK /\ InTurn /\ TmpIsMine /\ FileIsAnswered

USE DEF Calls, Stages, Settled, UnderWay, Contents, NoFile

-----------------------------------------------------------------------------
LEMMA CallKeeps ==
    ASSUME CallsAssumption, WriteInv, Call
    PROVE  WriteInv'
  BY DEF CallsAssumption, WriteInv, WriteTypeOK, InTurn, TmpIsMine, FileIsAnswered,
         FileIsWhole, Call, Move

LEMMA BeginKeeps ==
    ASSUME CallsAssumption, WriteInv, NEW n \in Calls, Begin(n)
    PROVE  WriteInv'
<1> USE DEF CallsAssumption, WriteInv, Begin, HasTurn
<1>1. /\ WriteTypeOK'
      /\ stage' = [stage EXCEPT ![n] = "writing"]
  BY DEF WriteTypeOK, Move
<1>2. InTurn'
  BY <1>1 DEF WriteTypeOK, InTurn
<1>3. TmpIsMine'
  BY <1>1 DEF WriteTypeOK, InTurn, TmpIsMine
<1>4. FileIsAnswered'
  BY <1>1 DEF WriteTypeOK, FileIsAnswered, FileIsWhole
<1>5. QED
  BY <1>1, <1>2, <1>3, <1>4

LEMMA FinishKeeps ==
    ASSUME CallsAssumption, WriteInv, NEW n \in Calls, Finish(n)
    PROVE  WriteInv'
<1> USE DEF CallsAssumption, WriteInv, Finish
<1>1. /\ WriteTypeOK'
      /\ stage' = [stage EXCEPT ![n] = "written"]
  BY DEF WriteTypeOK, Move
<1>2. InTurn'
  BY <1>1 DEF WriteTypeOK, InTurn
<1>3. TmpIsMine'
  <2>1. tmp' = [by |-> n, whole |-> TRUE]
    BY DEF WriteTypeOK, TmpIsMine
  <2>2. ASSUME NEW m \in Calls, m # n  PROVE stage'[m] \notin UnderWay
    <3>1. m < n \/ n < m
      BY <2>2
    <3>2. QED
      BY <1>1, <3>1, <2>2 DEF WriteTypeOK, InTurn
  <2>3. QED
    BY <1>1, <2>1, <2>2 DEF TmpIsMine, WriteTypeOK
<1>4. FileIsAnswered'
  BY <1>1 DEF WriteTypeOK, FileIsAnswered, FileIsWhole
<1>5. QED
  BY <1>1, <1>2, <1>3, <1>4

(* The rename takes the whole value of this very call.                     *)
LEMMA RenameKeeps ==
    ASSUME CallsAssumption, WriteInv, NEW n \in Calls, Rename(n)
    PROVE  /\ WriteInv'
           /\ file' = [by |-> n, whole |-> TRUE]
           /\ issued' = issued /\ stage' = [stage EXCEPT ![n] = "ok"]
<1> USE DEF CallsAssumption, WriteInv, Rename, Move
<1>1. tmp = [by |-> n, whole |-> TRUE] /\ tmp # NoFile
  BY DEF TmpIsMine
<1>2. /\ file' = [by |-> n, whole |-> TRUE] /\ tmp' = NoFile
      /\ issued' = issued /\ stage' = [stage EXCEPT ![n] = "ok"]
  BY <1>1
<1>3. WriteTypeOK'
  BY <1>2 DEF WriteTypeOK
<1>4. InTurn'
  BY <1>2 DEF WriteTypeOK, InTurn
<1>5. TmpIsMine'
  <2>1. ASSUME NEW m \in Calls, m # n  PROVE stage'[m] \notin UnderWay
    <3>1. m < n \/ n < m
      BY <2>1
    <3>2. QED
      BY <1>2, <3>1, <2>1 DEF WriteTypeOK, InTurn
  <2>2. QED
    BY <1>2, <2>1 DEF TmpIsMine, WriteTypeOK
<1>6. FileIsAnswered'
  BY <1>2 DEF WriteTypeOK, FileIsAnswered, FileIsWhole
<1>7. QED
  BY <1>2, <1>3, <1>4, <1>5, <1>6

LEMMA FailKeeps ==
    ASSUME CallsAssumption, WriteInv, NEW n \in Calls, Fail(n)
    PROVE  WriteInv'
  BY DEF CallsAssumption, WriteInv, WriteTypeOK, InTurn, TmpIsMine, FileIsAnswered,
         FileIsWhole, Fail, HasTurn, Move

LEMMA KillKeeps ==
    ASSUME CallsAssumption, WriteInv, Kill
    PROVE  WriteInv'
  BY DEF CallsAssumption, WriteInv, WriteTypeOK, InTurn, TmpIsMine, FileIsAnswered,
         FileIsWhole, Kill

LEMMA WriteInitKept ==
    ASSUME CallsAssumption, WriteInit
    PROVE  WriteInv
  BY DEF CallsAssumption, WriteInv, WriteTypeOK, InTurn, TmpIsMine, FileIsAnswered,
         FileIsWhole, WriteInit

LEMMA NothingKeeps ==
    ASSUME WriteInv, UNCHANGED writeVars
    PROVE  WriteInv'
  BY DEF writeVars, WriteInv, WriteTypeOK, InTurn, TmpIsMine, FileIsAnswered, FileIsWhole

LEMMA ProceedKeeps ==
    ASSUME CallsAssumption, WriteInv, NEW n \in Calls, Proceed(n)
    PROVE  WriteInv'
  BY BeginKeeps, FinishKeeps, RenameKeeps DEF Proceed

LEMMA WriteStepKeeps ==
    ASSUME CallsAssumption, WriteInv, [WriteNext]_writeVars
    PROVE  WriteInv'
  BY CallKeeps, BeginKeeps, FinishKeeps, RenameKeeps, FailKeeps, KillKeeps, NothingKeeps
     DEF WriteNext

(* The calls of writeJsonFile() have their types, and the calls that were  *)
(* not made yet are the last ones.                                         *)
THEOREM WriteTypeCorrect == WriteSpec => []WriteTypeOK
<1>1. WriteInit => WriteInv
  BY WriteInitKept, CallsAssumption
<1>2. WriteInv /\ [WriteNext]_writeVars => WriteInv'
  BY WriteStepKeeps, CallsAssumption
<1>3. WriteInv => WriteTypeOK
  BY DEF WriteInv
<1>4. QED
  BY <1>1, <1>2, <1>3, PTL DEF WriteSpec

(* However many writes of a file overlap, whichever fail and whenever the  *)
(* program is killed, the file is never half a value.                      *)
THEOREM FileStaysWhole == WriteSpec => []FileIsWhole
<1>1. WriteInit => WriteInv
  BY WriteInitKept, CallsAssumption
<1>2. WriteInv /\ [WriteNext]_writeVars => WriteInv'
  BY WriteStepKeeps, CallsAssumption
<1>3. WriteInv => FileIsWhole
  BY DEF WriteInv, FileIsAnswered
<1>4. QED
  BY <1>1, <1>2, <1>3, PTL DEF WriteSpec

(* A write that was answered is only ever replaced by a later one.  Every  *)
(* step but Rename leaves the file and who was answered; and a call that   *)
(* renames has none behind it that was answered.                           *)
THEOREM AnswersAreKept == WriteSpec => []AnsweredIsKept
<1>1. WriteInit => WriteInv /\ AnsweredIsKept
  BY WriteInitKept, CallsAssumption DEF WriteInit, AnsweredIsKept
<1>2. WriteInv /\ AnsweredIsKept /\ [WriteNext]_writeVars => WriteInv' /\ AnsweredIsKept'
  <2> SUFFICES ASSUME WriteInv, AnsweredIsKept, [WriteNext]_writeVars
               PROVE  AnsweredIsKept'
    BY WriteStepKeeps, CallsAssumption
  <2> USE DEF WriteInv, WriteTypeOK, AnsweredIsKept
  <2>1. ASSUME NEW n \in Calls, Rename(n)  PROVE AnsweredIsKept'
    <3>1. file' = [by |-> n, whole |-> TRUE] /\ stage' = [stage EXCEPT ![n] = "ok"]
      BY <2>1, RenameKeeps, CallsAssumption
    <3>2. ASSUME NEW m \in Calls, stage'[m] = "ok"  PROVE n >= m
      <4>1. stage[n] = "written"
        BY <2>1 DEF Rename
      <4>2. CASE n < m
        BY <3>1, <3>2, <4>1, <4>2 DEF InTurn
      <4>3. QED
        BY <4>2, CallsAssumption DEF CallsAssumption
    <3>3. QED
      BY <3>1, <3>2
  <2>2. CASE Call
    BY <2>2, CallsAssumption DEF CallsAssumption, Call, Move
  <2>3. ASSUME NEW n \in Calls, Begin(n) \/ Finish(n) \/ Fail(n)  PROVE AnsweredIsKept'
    BY <2>3 DEF Begin, Finish, Fail, Move
  <2>4. CASE Kill
    BY <2>4 DEF Kill
  <2>5. CASE UNCHANGED writeVars
    BY <2>5 DEF writeVars
  <2>6. QED
    BY <2>1, <2>2, <2>3, <2>4, <2>5 DEF WriteNext
<1>3. QED
  BY <1>1, <1>2, PTL DEF WriteSpec

-----------------------------------------------------------------------------
(* The values on their way to the file, in the order they get there: those *)
(* writeJsonFile() was called with and those #writing has yet to write.    *)
Value(k) == IF k <= issued THEN written[k] ELSE chain[k - issued]

(* They are saved values, older ones first, and #pending is the newest.    *)
ValuesInOrder ==
    /\ pending <= saved
    /\ \A k \in 1..End :
        /\ Value(k) \in 1..saved
        /\ pending > 0 => Value(k) < pending
        /\ \A j \in 1..(k - 1) : Value(j) < Value(k)

(* What gets written behind the writes a remove() waits for is newer than  *)
(* what it removes.                                                        *)
RemovalsTakeOld ==
    \A r \in removing :
        /\ r.upTo <= saved
        /\ pending > 0 => pending > r.upTo
        /\ \A k \in 1..End : k > r.after => Value(k) > r.upTo

(* So what is still to be written is newer than all that was removed.      *)
GoneIsOver ==
    /\ gone <= saved
    /\ pending > 0 => pending > gone
    /\ \A k \in 1..End : k > issued \/ stage[k] \notin Settled => Value(k) > gone

(* A value that was written and not removed is there, or a newer one is.   *)
AnsweredIsThere ==
    \A k \in Calls : stage[k] = "ok" /\ written[k] > dropped => InFile >= written[k]

(* The inductive invariant of a DebouncedJsonFile.                         *)
IInv ==
    /\ TypeOK
    /\ WriteInv
    /\ ValuesInOrder
    /\ RemovalsTakeOld
    /\ GoneIsOver
    /\ AnsweredIsThere
    /\ FlushedIsKept

(* The steps that leave the values on their way as they are.               *)
LEMMA ValuesStay ==
    ASSUME UNCHANGED <<issued, written, chain>>
    PROVE  End' = End /\ \A k : Value(k)' = Value(k)
  BY DEF End, Value

LEMMA InFileIsSaved ==
    ASSUME IInv
    PROVE  /\ InFile \in 0..saved
           /\ file.by \in Calls \union {0}
           /\ file.by \in Calls => InFile = written[file.by] /\ stage[file.by] = "ok"
                                    /\ InFile > 0
           /\ file.by = 0 => InFile = 0
<1> USE BoundsAssumption, CallsAssumption DEF BoundsAssumption, CallsAssumption
<1>1. file.whole /\ file.by \in Calls \union {0} /\ saved \in Nat /\ issued \in 0..MaxCalls
  BY DEF IInv, WriteInv, WriteTypeOK, TypeOK, Values, FileIsAnswered, FileIsWhole
<1>2. CASE file.by = 0
  BY <1>1, <1>2 DEF InFile
<1>3. CASE file.by \in Calls
  <2>1. stage[file.by] = "ok"
    BY <1>3 DEF IInv, WriteInv, FileIsAnswered
  <2>2. file.by <= issued
    BY <1>1, <1>3, <2>1 DEF IInv, WriteInv, WriteTypeOK
  <2>3. Value(file.by) = written[file.by] /\ file.by \in 1..End
    BY <1>1, <1>3, <2>2 DEF Value, End, IInv, TypeOK
  <2>4. written[file.by] \in 1..saved
    BY <2>3 DEF IInv, ValuesInOrder
  <2>5. QED
    BY <1>1, <1>3, <2>1, <2>4 DEF InFile
<1>4. QED
  BY <1>1, <1>2, <1>3

-----------------------------------------------------------------------------
USE BoundsAssumption, CallsAssumption DEF BoundsAssumption, CallsAssumption, Values

(* A value behind the others, and the first of them taken.                 *)
LEMMA AppendElements ==
    ASSUME NEW S, NEW q \in Seq(S), NEW v \in S
    PROVE  /\ Append(q, v) \in Seq(S)
           /\ Len(q) \in Nat /\ Len(Append(q, v)) = Len(q) + 1
           /\ Append(q, v)[Len(q) + 1] = v
           /\ \A k \in 1..Len(q) : Append(q, v)[k] = q[k]
  OBVIOUS

LEMMA TailElements ==
    ASSUME NEW S, NEW q \in Seq(S), q # <<>>
    PROVE  /\ Tail(q) \in Seq(S)
           /\ Head(q) \in S /\ Head(q) = q[1]
           /\ Len(q) \in Nat /\ Len(q) > 0 /\ Len(Tail(q)) = Len(q) - 1
           /\ \A k \in 1..Len(Tail(q)) : Tail(q)[k] = q[k + 1]
  OBVIOUS

LEMMA InitKept ==
    ASSUME Init
    PROVE  IInv
<1>1. WriteInv
  BY WriteInitKept DEF Init
<1>0. TypeOK
  <2>1. chain \in Seq(Values \ {0})
    BY DEF Init
  <2>2. QED
    <3>1. WriteTypeOK
      BY <1>1 DEF WriteInv
    <3>2. flushing \in SUBSET Nat /\ removing \in SUBSET [after : Nat, upTo : Values]
      BY DEF Init
    <3>3. written \in [Calls -> Values]
      BY DEF Init
    <3>4. saved \in Values /\ pending \in Values /\ removes \in 0..MaxRemoves
          /\ gone \in Values /\ dropped \in Values /\ kept \in Values
      BY DEF Init
    <3>5. timer \in BOOLEAN
      BY DEF Init
    <3>6. QED
      BY <2>1, <3>1, <3>2, <3>3, <3>4, <3>5 DEF TypeOK
<1>2. ValuesInOrder /\ RemovalsTakeOld /\ GoneIsOver
  BY DEF Init, WriteInit, ValuesInOrder, RemovalsTakeOld, GoneIsOver, End
<1>3. AnsweredIsThere /\ FlushedIsKept
  BY DEF Init, WriteInit, AnsweredIsThere, FlushedIsKept, InFile
<1>4. QED
  BY <1>0, <1>1, <1>2, <1>3 DEF IInv

LEMMA SaveKeeps ==
    ASSUME IInv, Save
    PROVE  IInv'
<1> USE DEF IInv, Save
<1>0. WriteInv'
  BY NothingKeeps
<1>1. TypeOK'
  BY <1>0 DEF WriteInv, TypeOK, history
<1>2. End' = End /\ (\A k : Value(k)' = Value(k)) /\ End \in Nat
  BY ValuesStay DEF writeVars, End, TypeOK, WriteTypeOK
<1>3. ValuesInOrder'
  BY <1>2 DEF ValuesInOrder, TypeOK
<1>4. RemovalsTakeOld'
  BY <1>2 DEF RemovalsTakeOld, TypeOK
<1>5. GoneIsOver'
  BY <1>2 DEF GoneIsOver, TypeOK, history, writeVars
<1>6. AnsweredIsThere' /\ FlushedIsKept'
  BY DEF AnsweredIsThere, FlushedIsKept, InFile, history, writeVars
<1>7. QED
  BY <1>0, <1>1, <1>3, <1>4, <1>5, <1>6

(* #pending becomes the last value on its way ...                          *)
LEMMA HandedOver ==
    ASSUME IInv, HandOver, UNCHANGED <<issued, written>>, pending # 0
    PROVE  /\ End \in Nat /\ issued \in Nat /\ End' = End + 1 /\ issued <= End
           /\ \A k : k = End + 1 => Value(k)' = pending
           /\ \A k \in 1..End : Value(k)' = Value(k)
<1>1. /\ chain \in Seq(Values \ {0}) /\ pending \in Values \ {0}
      /\ chain' = Append(chain, pending) /\ issued' = issued /\ written' = written
      /\ issued \in Nat
  BY DEF IInv, HandOver, TypeOK, WriteTypeOK
<1>2. /\ Len(chain) \in Nat /\ Len(chain') = Len(chain) + 1
      /\ chain'[Len(chain) + 1] = pending
      /\ \A k \in 1..Len(chain) : chain'[k] = chain[k]
  BY <1>1, AppendElements
<1>3. \A k \in 1..End : k > issued => k - issued \in 1..Len(chain)
  BY <1>1, <1>2 DEF End
<1>4. QED
  BY <1>1, <1>2, <1>3 DEF End, Value

(* ... and is newer than the others and than whatever was removed or is    *)
(* being removed.                                                          *)
LEMMA HandOverKeeps ==
    ASSUME IInv, HandOver, flushing' \in SUBSET Nat,
           UNCHANGED <<writeVars, saved, written, removing, removes, history>>
    PROVE  IInv'
<1> USE DEF IInv
<1>0. WriteInv'
  BY NothingKeeps
<1>1. TypeOK'
  <2>1. chain' \in Seq(Values \ {0})
    <3>1. CASE pending = 0
      BY <3>1 DEF HandOver, TypeOK
    <3>2. CASE pending # 0
      BY <3>2, AppendElements DEF HandOver, TypeOK
    <3>3. QED
      BY <3>1, <3>2
  <2>2. QED
    <3>1. WriteTypeOK'
      BY <1>0 DEF WriteInv
    <3>2. timer' \in BOOLEAN
      BY DEF HandOver
    <3>3. saved' \in Values /\ pending' \in Values /\ removes' \in 0..MaxRemoves
          /\ gone' \in Values /\ dropped' \in Values /\ kept' \in Values
      BY DEF HandOver, TypeOK, history
    <3>4. written' \in [Calls -> Values] /\ flushing' \in SUBSET Nat
          /\ removing' \in SUBSET [after : Nat, upTo : Values]
      BY DEF TypeOK
    <3>5. QED
      BY <2>1, <3>1, <3>2, <3>3, <3>4 DEF TypeOK
<1>2. AnsweredIsThere' /\ FlushedIsKept'
  BY DEF AnsweredIsThere, FlushedIsKept, InFile, history, writeVars
<1>3. CASE pending = 0
  <2>1. End' = End /\ \A k : Value(k)' = Value(k)
    BY <1>3, ValuesStay DEF HandOver, writeVars
  <2>2. QED
    BY <1>0, <1>1, <1>2, <1>3, <2>1
       DEF HandOver, ValuesInOrder, RemovalsTakeOld, GoneIsOver, writeVars, history
<1>4. CASE pending # 0
  <2>1. pending \in 1..saved
    BY <1>4 DEF TypeOK, ValuesInOrder
  <2>2. /\ End \in Nat /\ issued \in Nat /\ End' = End + 1 /\ issued <= End
        /\ \A k : k = End + 1 => Value(k)' = pending
        /\ \A k \in 1..End : Value(k)' = Value(k)
    BY <1>4, HandedOver DEF writeVars
  <2>3. ValuesInOrder'
    <3>1. pending' = 0 /\ saved' = saved /\ saved \in Nat
      BY DEF HandOver, TypeOK
    <3>2. ASSUME NEW k \in 1..End'
          PROVE  Value(k)' \in 1..saved /\ \A j \in 1..(k - 1) : Value(j)' < Value(k)'
      <4>1. CASE k \in 1..End
        <5>1. ASSUME NEW j \in 1..(k - 1)  PROVE j \in 1..End
          BY <4>1, <2>2
        <5>2. QED
          BY <4>1, <5>1, <2>2 DEF ValuesInOrder
      <4>2. CASE k = End + 1
        <5>1. ASSUME NEW j \in 1..(k - 1)  PROVE Value(j)' < pending
          <6>1. j \in 1..End
            BY <4>2, <2>2
          <6>2. QED
            BY <6>1, <2>1, <2>2, <1>4 DEF ValuesInOrder
        <5>2. QED
          BY <4>2, <5>1, <2>1, <2>2
      <4>3. QED
        BY <3>2, <4>1, <4>2, <2>2
    <3>3. QED
      BY <3>1, <3>2 DEF ValuesInOrder
  <2>4. RemovalsTakeOld'
    BY <2>1, <2>2, <1>4 DEF HandOver, RemovalsTakeOld
  <2>5. GoneIsOver'
    BY <2>1, <2>2, <1>4 DEF HandOver, GoneIsOver, writeVars, history
  <2>6. QED
    BY <1>0, <1>1, <1>2, <2>3, <2>4, <2>5
<1>5. QED
  BY <1>3, <1>4

LEMMA FlushKeeps ==
    ASSUME IInv, TimerFires \/ Flush
    PROVE  IInv'
<1>1. flushing' \in SUBSET Nat
  <2>1. Len(chain) \in Nat /\ issued \in Nat
    BY DEF IInv, TypeOK, WriteTypeOK
  <2>2. flushing \subseteq Nat
    BY DEF IInv, TypeOK
  <2>3. End \in Nat /\ End + 1 \in Nat
    BY <2>1 DEF End
  <2>4. QED
    BY <2>2, <2>3 DEF TimerFires, Flush
<1>2. QED
  BY <1>1, HandOverKeeps DEF TimerFires, Flush

LEMMA FlushReturnsKeeps ==
    ASSUME IInv, NEW k \in flushing, FlushReturns(k)
    PROVE  IInv'
<1> USE DEF IInv, FlushReturns
<1>1. kept' = kept \/ (k \in Calls /\ stage[k] = "ok" /\ kept' = written[k]
                        /\ written[k] > dropped)
  BY DEF ChainSettled, TypeOK, WriteTypeOK
<1>0. WriteInv'
  BY NothingKeeps
<1>2. TypeOK'
  BY <1>0, <1>1 DEF WriteInv, TypeOK
<1>3. End' = End /\ \A j : Value(j)' = Value(j)
  BY ValuesStay DEF writeVars
<1>4. ValuesInOrder' /\ RemovalsTakeOld' /\ GoneIsOver'
  BY <1>3 DEF ValuesInOrder, RemovalsTakeOld, GoneIsOver, writeVars
<1>5. AnsweredIsThere' /\ FlushedIsKept'
  BY <1>1 DEF AnsweredIsThere, FlushedIsKept, InFile, writeVars
<1>6. QED
  BY <1>0, <1>2, <1>4, <1>5

(* A value moves from #writing to writeJsonFile() and keeps its place.     *)
LEMMA ValuesMoveOn ==
    ASSUME IInv, WriteNextOne
    PROVE  /\ End' = End /\ End \in Nat /\ issued < End
           /\ \A k \in 1..End : Value(k)' = Value(k)
<1> USE DEF IInv
<1>1. /\ issued \in Nat /\ issued' = issued + 1 /\ issued + 1 \in Calls
      /\ stage \in [Calls -> Stages] /\ stage' = [stage EXCEPT ![issued + 1] = "waiting"]
      /\ stage[issued + 1] = "unused" /\ file' = file
  BY DEF WriteNextOne, Call, Move, TypeOK, WriteTypeOK
<1>2. /\ chain \in Seq(Values \ {0}) /\ chain # <<>> /\ chain' = Tail(chain)
      /\ written \in [Calls -> Values]
      /\ written' = [written EXCEPT ![issued + 1] = Head(chain)]
  BY DEF WriteNextOne, TypeOK
<1>3. /\ Tail(chain) \in Seq(Values \ {0}) /\ Head(chain) \in Values \ {0}
      /\ Head(chain) = chain[1] /\ Len(chain) \in Nat /\ Len(chain) > 0
      /\ Len(Tail(chain)) = Len(chain) - 1
      /\ \A k \in 1..Len(Tail(chain)) : Tail(chain)[k] = chain[k + 1]
  BY <1>2, TailElements
<1>4. End' = End /\ End \in Nat /\ issued < End
  BY <1>1, <1>2, <1>3 DEF End
<1>5. ASSUME NEW k \in 1..End  PROVE Value(k)' = Value(k)
  <2>1. CASE k <= issued
    <3>1. k \in Calls /\ k # issued + 1 /\ k <= issued + 1
      BY <1>1, <2>1
    <3>2. QED
      BY <1>1, <1>2, <2>1, <3>1 DEF Value
  <2>2. CASE k = issued + 1
    <3>1. written'[k] = chain[1] /\ k - issued = 1
      BY <1>1, <1>2, <1>3, <2>2
    <3>2. QED
      BY <1>1, <2>2, <3>1 DEF Value
  <2>3. CASE k > issued + 1
    <3>1. /\ k - issued' \in 1..Len(Tail(chain)) /\ (k - issued') + 1 = k - issued
          /\ ~(k <= issued) /\ ~(k <= issued')
      BY <1>1, <1>3, <2>3 DEF End
    <3>2. QED
      BY <1>2, <1>3, <3>1 DEF Value
  <2>4. QED
    BY <1>1, <1>4, <2>1, <2>2, <2>3
<1>6. QED
  BY <1>4, <1>5

LEMMA WriteNextOneKeeps ==
    ASSUME IInv, WriteNextOne
    PROVE  IInv'
<1> USE DEF IInv
<1>0. WriteInv'
  BY CallKeeps DEF WriteNextOne
<1>1. /\ issued \in Nat /\ issued' = issued + 1 /\ issued + 1 \in Calls
      /\ stage \in [Calls -> Stages] /\ stage' = [stage EXCEPT ![issued + 1] = "waiting"]
      /\ stage[issued + 1] = "unused" /\ file' = file
  BY DEF WriteNextOne, Call, Move, TypeOK, WriteTypeOK
<1>2. /\ chain \in Seq(Values \ {0}) /\ chain # <<>> /\ chain' = Tail(chain)
      /\ written \in [Calls -> Values]
      /\ written' = [written EXCEPT ![issued + 1] = Head(chain)]
  BY DEF WriteNextOne, TypeOK
<1>3. /\ Tail(chain) \in Seq(Values \ {0}) /\ Head(chain) \in Values \ {0}
      /\ Head(chain) = chain[1] /\ Len(chain) \in Nat /\ Len(chain) > 0
      /\ Len(Tail(chain)) = Len(chain) - 1
      /\ \A k \in 1..Len(Tail(chain)) : Tail(chain)[k] = chain[k + 1]
  BY <1>2, TailElements
<1>4. End' = End /\ End \in Nat
  BY ValuesMoveOn
<1>5. \A k \in 1..End : Value(k)' = Value(k)
  BY ValuesMoveOn
<1>6. ValuesInOrder'
  <2>1. \A k \in 1..End, j \in Nat : j \in 1..(k - 1) => j \in 1..End
    BY <1>4
  <2>2. QED
    BY <1>4, <1>5, <2>1 DEF WriteNextOne, ValuesInOrder
<1>7. RemovalsTakeOld'
  BY <1>4, <1>5 DEF WriteNextOne, RemovalsTakeOld
<1>8. GoneIsOver'
  <2>1. \A k \in 1..End : k > issued' \/ stage'[k] \notin Settled
                          => k > issued \/ stage[k] \notin Settled
    BY <1>1, <1>4
  <2>2. QED
    BY <1>4, <1>5, <2>1 DEF WriteNextOne, GoneIsOver, history
<1>9. TypeOK'
  <2>1. WriteTypeOK' /\ chain' \in Seq(Values \ {0}) /\ written' \in [Calls -> Values]
    BY <1>0, <1>1, <1>2, <1>3 DEF WriteInv
  <2>2. QED
    BY <2>1 DEF WriteNextOne, TypeOK, history
<1>10. InFile' = InFile
  BY InFileIsSaved, <1>1, <1>2 DEF InFile
<1>11. AnsweredIsThere' /\ FlushedIsKept'
  BY <1>1, <1>2, <1>10 DEF AnsweredIsThere, FlushedIsKept, WriteNextOne, history
<1>12. QED
  BY <1>0, <1>6, <1>7, <1>8, <1>9, <1>11

(* What was written is among the saved values.                             *)
LEMMA WrittenIsSaved ==
    ASSUME IInv, NEW k \in Calls, stage[k] # "unused"
    PROVE  written[k] \in 1..saved
<1>1. k \in 1..issued /\ issued \in Nat /\ Len(chain) \in Nat
  BY DEF IInv, TypeOK, WriteTypeOK
<1>2. k \in 1..End /\ Value(k) = written[k]
  BY <1>1 DEF End, Value
<1>3. QED
  BY <1>2 DEF IInv, ValuesInOrder

(* remove() will take what was saved so far, and nothing else is pending.  *)
LEMMA RemoveKeeps ==
    ASSUME IInv, Remove
    PROVE  IInv'
<1> USE DEF IInv, Remove
<1>0. WriteInv'
  BY NothingKeeps
<1>1. End' = End /\ (\A k : Value(k)' = Value(k)) /\ End \in Nat /\ saved \in Nat
  BY ValuesStay DEF writeVars, TypeOK, WriteTypeOK, End
<1>2. TypeOK'
  <2>1. WriteTypeOK' /\ removing' \in SUBSET [after : Nat, upTo : Values]
    BY <1>0, <1>1 DEF WriteInv, TypeOK
  <2>2. removes' \in 0..MaxRemoves
    BY DEF TypeOK
  <2>3. timer' \in BOOLEAN
    OBVIOUS
  <2>4. saved' \in Values /\ pending' \in Values /\ chain' \in Seq(Values \ {0})
        /\ written' \in [Calls -> Values] /\ flushing' \in SUBSET Nat
        /\ gone' \in Values /\ dropped' \in Values /\ kept' \in Values
    BY DEF TypeOK
  <2>5. QED
    BY <2>1, <2>2, <2>3, <2>4 DEF TypeOK
<1>3. ValuesInOrder' /\ GoneIsOver'
  BY <1>1 DEF ValuesInOrder, GoneIsOver, writeVars
<1>4. RemovalsTakeOld'
  BY <1>1 DEF RemovalsTakeOld
<1>5. AnsweredIsThere'
  BY WrittenIsSaved, <1>1 DEF AnsweredIsThere, writeVars
<1>6. FlushedIsKept'
  BY DEF FlushedIsKept
<1>7. QED
  BY <1>0, <1>2, <1>3, <1>4, <1>5, <1>6

(* The file goes.  The writes that remove() waited for have settled, so    *)
(* what is not written yet comes from behind them and is newer.            *)
LEMMA RemovedKeeps ==
    ASSUME IInv, NEW r \in removing, Removed(r)
    PROVE  IInv'
<1> USE DEF IInv, Removed
<1>1. r.upTo \in Values /\ r.upTo <= saved /\ r.after \in Nat /\ saved \in Nat
      /\ issued \in Nat /\ gone \in Values
  BY DEF TypeOK, WriteTypeOK, RemovalsTakeOld
<1>2. InFile \in 0..saved
  BY InFileIsSaved
<1>3. WriteInv'
  BY DEF WriteInv, WriteTypeOK, InTurn, TmpIsMine, FileIsAnswered, FileIsWhole
<1>4. TypeOK'
  <2>1. WriteTypeOK'
    BY <1>3 DEF WriteInv
  <2>2. gone' \in Values /\ dropped' \in Values
    BY <1>1, <1>2 DEF TypeOK
  <2>3. removing' \in SUBSET [after : Nat, upTo : Values]
    BY DEF TypeOK
  <2>4. QED
    BY <2>1, <2>2, <2>3 DEF TypeOK
<1>5. End' = End /\ \A k : Value(k)' = Value(k)
  BY ValuesStay
<1>6. ValuesInOrder' /\ RemovalsTakeOld'
  BY <1>5 DEF ValuesInOrder, RemovalsTakeOld
<1>7. GoneIsOver'
  <2>1. gone' \in {gone, r.upTo} /\ pending' = pending /\ saved' = saved
        /\ issued' = issued /\ stage' = stage
    OBVIOUS
  <2>2. ASSUME NEW k \in 1..End, k > issued \/ stage[k] \notin Settled
        PROVE  k > r.after
    <3>1. r.after <= issued /\ (r.after > 0 => stage[r.after] \in Settled)
      BY DEF MayRemove, ChainSettled
    <3>2. SUFFICES ASSUME k <= issued, k < r.after  PROVE FALSE
      BY <1>1, <2>2, <3>1
    <3>3. k \in Calls /\ r.after \in Calls /\ stage[k] \notin Settled
      BY <1>1, <2>2, <3>1, <3>2 DEF TypeOK, WriteTypeOK
    <3>4. QED
      BY <3>1, <3>2, <3>3 DEF WriteInv, InTurn
  <2>3. QED
    BY <1>1, <1>5, <2>1, <2>2 DEF GoneIsOver, RemovalsTakeOld
<1>8. AnsweredIsThere'
  <2>1. dropped' >= dropped /\ dropped' >= InFile /\ stage' = stage /\ written' = written
    BY <1>2 DEF TypeOK
  <2>2. \A k \in Calls : written[k] \in Values
    BY DEF TypeOK
  <2>3. \A k \in Calls : ~(stage'[k] = "ok" /\ written'[k] > dropped')
    BY <1>2, <1>4, <2>1, <2>2 DEF AnsweredIsThere, TypeOK
  <2>4. QED
    BY <2>3 DEF AnsweredIsThere
<1>9. FlushedIsKept'
  BY DEF FlushedIsKept
<1>10. QED
  BY <1>3, <1>4, <1>6, <1>7, <1>8, <1>9

LEMMA NotRemovedKeeps ==
    ASSUME IInv, NEW r \in removing, NotRemoved(r)
    PROVE  IInv'
<1> USE DEF IInv, NotRemoved
<1>0. WriteInv'
  BY NothingKeeps
<1>1. TypeOK'
  BY <1>0 DEF WriteInv, TypeOK, history
<1>2. End' = End /\ \A k : Value(k)' = Value(k)
  BY ValuesStay DEF writeVars
<1>3. ValuesInOrder' /\ RemovalsTakeOld' /\ GoneIsOver'
  BY <1>2 DEF ValuesInOrder, RemovalsTakeOld, GoneIsOver, writeVars, history
<1>4. AnsweredIsThere' /\ FlushedIsKept'
  BY DEF AnsweredIsThere, FlushedIsKept, InFile, writeVars, history
<1>5. QED
  BY <1>0, <1>1, <1>3, <1>4

(* Only the calls that settled remain, and the file as it was.             *)
LEMMA KilledKeeps ==
    ASSUME IInv, Killed
    PROVE  IInv'
<1> USE DEF IInv, Killed
<1>0. WriteInv'
  BY KillKeeps
<1>1. /\ issued \in 0..MaxCalls /\ issued' = issued /\ file' = file /\ saved \in Nat
      /\ stage \in [Calls -> Stages] /\ stage' \in [Calls -> Stages]
      /\ \A n \in Calls : stage[n] = "unused" <=> n > issued
      /\ \A n \in Calls : stage'[n] = "ok" <=> stage[n] = "ok"
      /\ \A n \in Calls : n <= issued => stage'[n] \in Settled
  BY <1>0 DEF Kill, TypeOK, WriteTypeOK, WriteInv
<1>2. End' = issued /\ End \in Nat /\ issued <= End
  BY <1>1 DEF End, TypeOK
<1>3. ASSUME NEW k \in 1..issued  PROVE Value(k)' = Value(k) /\ k \in 1..End
  <2>1. k <= issued /\ k \in 1..End
    BY <1>1, <1>2
  <2>2. QED
    BY <1>1, <2>1 DEF Value
<1>4. ValuesInOrder'
  <2>1. \A k \in 1..issued : \A j \in 1..(k - 1) : j \in 1..issued
    BY <1>1
  <2>2. QED
    BY <1>1, <1>2, <1>3, <2>1 DEF ValuesInOrder
<1>5. RemovalsTakeOld'
  BY DEF RemovalsTakeOld
<1>6. GoneIsOver'
  BY <1>1, <1>2 DEF GoneIsOver
<1>7. TypeOK'
  <2>1. WriteTypeOK'
    BY <1>0 DEF WriteInv
  <2>2. timer' \in BOOLEAN
    OBVIOUS
  <2>3. chain' \in Seq(Values \ {0}) /\ flushing' \in SUBSET Nat
        /\ removing' \in SUBSET [after : Nat, upTo : Values]
    OBVIOUS
  <2>4. saved' \in Values /\ pending' \in Values /\ written' \in [Calls -> Values]
        /\ removes' \in 0..MaxRemoves
        /\ gone' \in Values /\ dropped' \in Values /\ kept' \in Values
    BY DEF TypeOK
  <2>5. QED
    BY <2>1, <2>2, <2>3, <2>4 DEF TypeOK
<1>8. AnsweredIsThere'
  BY <1>1, WrittenIsSaved DEF AnsweredIsThere
<1>9. FlushedIsKept'
  BY <1>1 DEF FlushedIsKept, InFile
<1>10. QED
  BY <1>0, <1>4, <1>5, <1>6, <1>7, <1>8, <1>9

(* A write that begins, ends or fails leaves the file, and who was         *)
(* answered, as they are.                                                  *)
LEMMA OtherStepsKeep ==
    ASSUME IInv, NEW n \in Calls, Begin(n) \/ Finish(n) \/ Fail(n),
           UNCHANGED <<memory, history>>
    PROVE  IInv'
<1> USE DEF IInv
<1>0. WriteInv'
  BY BeginKeeps, FinishKeeps, FailKeeps
<1>1. /\ issued' = issued /\ file' = file
      /\ stage \in [Calls -> Stages] /\ stage' \in [Calls -> Stages]
      /\ \A k \in Calls : stage'[k] = "ok" <=> stage[k] = "ok"
      /\ \A k \in Calls : stage[k] \in Settled => stage'[k] \in Settled
  BY <1>0 DEF WriteInv, WriteTypeOK, TypeOK, Begin, Finish, Fail, HasTurn, Move
<1>2. UNCHANGED <<saved, pending, chain, written, removing, gone, dropped, kept>>
  BY DEF memory, history
<1>3. End' = End /\ (\A k : Value(k)' = Value(k)) /\ issued \in 0..MaxCalls
  BY <1>1, <1>2, ValuesStay DEF TypeOK, WriteTypeOK
<1>4. TypeOK'
  BY <1>0, <1>2 DEF WriteInv, TypeOK, memory
<1>5. ValuesInOrder' /\ RemovalsTakeOld'
  BY <1>2, <1>3 DEF ValuesInOrder, RemovalsTakeOld
<1>6. GoneIsOver'
  <2>1. \A k \in 1..End : k > issued \/ k \in Calls
    BY <1>3
  <2>2. QED
    BY <1>1, <1>2, <1>3, <2>1 DEF GoneIsOver
<1>7. AnsweredIsThere' /\ FlushedIsKept'
  BY <1>1, <1>2 DEF AnsweredIsThere, FlushedIsKept, InFile
<1>8. QED
  BY <1>0, <1>4, <1>5, <1>6, <1>7

(* A rename replaces the value in the file by a newer one that was saved   *)
(* and not removed.                                                        *)
LEMMA RenameIsNewer ==
    ASSUME IInv, NEW n \in Calls, Rename(n), UNCHANGED <<memory, history>>
    PROVE  /\ InFile' = written[n] /\ written[n] \in 1..saved
           /\ written[n] > InFile /\ written[n] > gone
           /\ \A m \in Calls : stage[m] = "ok" => written[m] < written[n]
<1> USE DEF IInv
<1>1. file' = [by |-> n, whole |-> TRUE] /\ written' = written
  BY RenameKeeps DEF memory
<1>2. InFile' = written[n]
  BY <1>1, CallsAssumption DEF InFile
<1>3. /\ stage[n] = "written" /\ issued \in Nat /\ Len(chain) \in Nat /\ n <= issued
      /\ saved \in Nat
  BY DEF Rename, TypeOK, WriteTypeOK
<1>4. written[n] \in 1..saved
  BY <1>3, WrittenIsSaved
<1>5. n \in 1..End /\ Value(n) = written[n]
  BY <1>3 DEF End, Value
<1>6. written[n] > gone
  BY <1>3, <1>5 DEF GoneIsOver
<1>7. ASSUME NEW m \in Calls, stage[m] = "ok"  PROVE written[m] < written[n]
  <2>1. m < n
    <3>1. ~(n < m) /\ m # n
      BY <1>3, <1>7 DEF WriteInv, InTurn
    <3>2. QED
      BY <3>1
  <2>2. m <= issued /\ m \in 1..(n - 1)
    BY <1>3, <2>1
  <2>3. Value(m) = written[m]
    BY <2>2 DEF Value
  <2>4. QED
    BY <1>5, <2>2, <2>3 DEF ValuesInOrder
<1>8. written[n] > InFile
  BY <1>4, <1>7, InFileIsSaved
<1>9. QED
  BY <1>2, <1>4, <1>6, <1>7, <1>8

LEMMA RenameStepKeeps ==
    ASSUME IInv, NEW n \in Calls, Rename(n), UNCHANGED <<memory, history>>
    PROVE  IInv'
<1> USE DEF IInv
<1>0. WriteInv' /\ issued' = issued /\ stage' = [stage EXCEPT ![n] = "ok"]
  BY RenameKeeps
<1>1. stage \in [Calls -> Stages] /\ issued \in 0..MaxCalls
  BY DEF TypeOK, WriteTypeOK
<1>2. UNCHANGED <<saved, pending, chain, written, removing, gone, dropped, kept>>
  BY DEF memory, history
<1>3. End' = End /\ \A k : Value(k)' = Value(k)
  BY <1>0, <1>2, ValuesStay
<1>4. TypeOK'
  BY <1>0, <1>2 DEF WriteInv, TypeOK, memory
<1>5. ValuesInOrder' /\ RemovalsTakeOld'
  BY <1>2, <1>3 DEF ValuesInOrder, RemovalsTakeOld
<1>6. GoneIsOver'
  <2>1. \A k \in 1..End : k > issued \/ k \in Calls
    BY <1>1
  <2>2. QED
    BY <1>0, <1>1, <1>2, <1>3, <2>1 DEF GoneIsOver
<1>7. InFile' = written[n] /\ written[n] > InFile
      /\ \A m \in Calls : stage[m] = "ok" => written[m] < written[n]
  BY RenameIsNewer
<1>8. AnsweredIsThere'
  <2>1. ASSUME NEW m \in Calls, stage'[m] = "ok"  PROVE written[n] >= written[m]
    <3>1. written[n] \in Nat /\ written[m] \in Nat
      BY DEF TypeOK
    <3>2. CASE m = n
      BY <3>1, <3>2
    <3>3. CASE m # n
      BY <3>1, <3>3, <2>1, <1>0, <1>1, <1>7
    <3>4. QED
      BY <3>2, <3>3
  <2>2. QED
    BY <1>2, <1>7, <2>1 DEF AnsweredIsThere
<1>9. FlushedIsKept'
  <2>1. kept \in Nat /\ written[n] \in Nat /\ InFile \in Nat
    BY InFileIsSaved DEF TypeOK
  <2>2. QED
    BY <1>2, <1>7, <2>1 DEF FlushedIsKept
<1>10. QED
  BY <1>0, <1>4, <1>5, <1>6, <1>8, <1>9

LEMMA StepKeeps ==
    ASSUME IInv, [Next]_vars
    PROVE  IInv'
<1>1. CASE Save
  BY <1>1, SaveKeeps
<1>2. CASE TimerFires \/ Flush
  BY <1>2, FlushKeeps
<1>3. CASE \E k \in flushing : FlushReturns(k)
  BY <1>3, FlushReturnsKeeps
<1>4. CASE WriteNextOne
  BY <1>4, WriteNextOneKeeps
<1>5. CASE Remove
  BY <1>5, RemoveKeeps
<1>6. CASE \E r \in removing : Removed(r) \/ NotRemoved(r)
  BY <1>6, RemovedKeeps, NotRemovedKeeps
<1>7. CASE Killed
  BY <1>7, KilledKeeps
<1>8. CASE \E n \in Calls : FileStep(n) \/ FileFails(n)
  BY <1>8, OtherStepsKeep, RenameStepKeeps DEF FileStep, FileFails, Proceed
<1>9. CASE UNCHANGED vars
  <2>1. UNCHANGED <<writeVars, memory, history>>
    BY <1>9 DEF vars
  <2>2. WriteInv'
    BY <2>1, NothingKeeps DEF IInv
  <2>3. End' = End /\ \A k : Value(k)' = Value(k)
    BY <2>1, ValuesStay DEF writeVars, memory
  <2>4. TypeOK'
    BY <2>1, <2>2 DEF IInv, WriteInv, TypeOK, memory, history
  <2>5. ValuesInOrder' /\ RemovalsTakeOld' /\ GoneIsOver'
    BY <2>1, <2>3
       DEF IInv, ValuesInOrder, RemovalsTakeOld, GoneIsOver, writeVars, memory, history
  <2>6. AnsweredIsThere' /\ FlushedIsKept'
    BY <2>1 DEF IInv, AnsweredIsThere, FlushedIsKept, InFile, writeVars, memory, history
  <2>7. QED
    BY <2>2, <2>4, <2>5, <2>6 DEF IInv
<1>10. QED
  BY <1>1, <1>2, <1>3, <1>4, <1>5, <1>6, <1>7, <1>8, <1>9 DEF Next

-----------------------------------------------------------------------------
LEMMA Invariance == Spec => []IInv
<1>1. Init => IInv
  BY InitKept
<1>2. IInv /\ [Next]_vars => IInv'
  BY StepKeeps
<1>3. QED
  BY <1>1, <1>2, PTL DEF Spec

(* The types of a DebouncedJsonFile, for any number of values, writes and  *)
(* removals; a value is never handed to #writing when nothing is pending.  *)
THEOREM TypeCorrect == Spec => []TypeOK
<1>1. IInv => TypeOK
  BY DEF IInv
<1>2. QED
  BY <1>1, Invariance, PTL

(* The value flush() returned for is in the file, or a newer one, until    *)
(* remove() is called - also after writes that fail and after a kill.      *)
THEOREM FlushesAreKept == Spec => []FlushedIsKept
<1>1. IInv => FlushedIsKept
  BY DEF IInv
<1>2. QED
  BY <1>1, Invariance, PTL

(* Each step is one of the file its owner may rely on, or none: Save and   *)
(* Removed are its Save and Remove, Rename is its Replace, and no other    *)
(* step can be seen in the file.                                           *)
LEMMA StepSimulates ==
    ASSUME IInv, [Next]_vars
    PROVE  [Kept!Next]_<<saved, InFile, gone>>
<1>1. CASE Save
  <2>1. UNCHANGED <<InFile, gone>> /\ saved' = saved + 1
    BY <1>1 DEF Save, InFile, writeVars, history
  <2>2. QED
    BY <2>1 DEF Kept!Next, Kept!Save
<1>2. ASSUME NEW n \in Calls, Rename(n), UNCHANGED <<memory, history>>
      PROVE  Kept!Next
  <2>1. UNCHANGED <<saved, gone>>
    BY <1>2 DEF memory, history
  <2>2. QED
    BY <1>2, <2>1, RenameIsNewer DEF Kept!Next, Kept!Replace
<1>3. ASSUME NEW r \in removing, Removed(r)
      PROVE  Kept!Next
  <2>1. InFile' = 0
    BY <1>3 DEF Removed, InFile
  <2>2. gone' \in gone..saved /\ saved' = saved
    BY <1>3 DEF Removed, IInv, TypeOK, RemovalsTakeOld, GoneIsOver
  <2>3. QED
    BY <2>1, <2>2 DEF Kept!Next, Kept!Remove
<1>4. CASE WriteNextOne
  <2>1. file' = file /\ stage[issued + 1] = "unused" /\ written \in [Calls -> Values]
        /\ written' = [written EXCEPT ![issued + 1] = Head(chain)]
    BY <1>4 DEF WriteNextOne, Call, IInv, TypeOK, WriteTypeOK
  <2>2. InFile' = InFile
    BY <1>4, <2>1, InFileIsSaved DEF InFile
  <2>3. QED
    BY <1>4, <2>2 DEF WriteNextOne, history
<1>5. CASE TimerFires \/ Flush \/ Remove \/ Killed
           \/ (\E k \in flushing : FlushReturns(k)) \/ (\E r \in removing : NotRemoved(r))
  BY <1>5 DEF TimerFires, Flush, Remove, Killed, Kill, FlushReturns, NotRemoved, InFile,
              writeVars, history
<1>6. ASSUME NEW n \in Calls, Begin(n) \/ Finish(n) \/ Fail(n),
             UNCHANGED <<memory, history>>
      PROVE  UNCHANGED <<saved, InFile, gone>>
  BY <1>6 DEF Begin, Finish, Fail, InFile, memory, history
<1>7. CASE UNCHANGED vars
  BY <1>7 DEF vars, InFile, writeVars, memory, history
<1>8. QED
  BY <1>1, <1>2, <1>3, <1>4, <1>5, <1>6, <1>7 DEF Next, FileStep, FileFails, Proceed

(* A DebouncedJsonFile is a KeptFile: whatever overlaps, fails or is       *)
(* killed, its file is one whole saved value, only ever goes on to a newer *)
(* one, and never gets back what remove() took.                            *)
THEOREM ImplementsKeptFile == Spec => IsAKeptFile
<1>1. Init => Kept!Init
  BY DEF Init, WriteInit, InFile, Kept!Init
<1>2. IInv /\ [Next]_vars => [Kept!Next]_<<saved, InFile, gone>>
  BY StepSimulates
<1>3. QED
  BY <1>1, <1>2, Invariance, PTL DEF Spec, IsAKeptFile, Kept!Spec

-----------------------------------------------------------------------------
(* The newest value is scheduled, or the last one on its way and not lost, *)
(* unless it was given up.                                                 *)
NewestInv ==
    \/ dropped >= saved
    \/ pending = saved /\ timer
    \/ /\ End > 0 /\ Value(End) = saved
       /\ End <= issued => stage[End] # "lost"

(* What was saved last is in the file, or the timer will write it, or it   *)
(* waits in #writing, or is being written, or its write failed - unless    *)
(* remove() or a kill took it.                                             *)
NewestIsOnItsWay ==
    \/ dropped >= saved \/ InFile >= saved
    \/ timer /\ pending = saved
    \/ \E k \in 1..Len(chain) : chain[k] = saved
    \/ \E n \in Calls : written[n] = saved /\ stage[n] \in {"waiting", "failed"} \union UnderWay

LEMMA NewestStays ==
    ASSUME IInv, NewestInv, dropped' \in Nat, dropped' >= dropped,
           UNCHANGED <<issued, saved, pending, timer, written, chain>>,
           \A n \in Calls : n <= issued /\ stage[n] # "lost" => stage'[n] # "lost"
    PROVE  NewestInv'
<1>1. End' = End /\ (\A k : Value(k)' = Value(k)) /\ End \in Nat
  BY ValuesStay DEF End, IInv, TypeOK, WriteTypeOK
<1>2. dropped >= saved => dropped' >= saved'
  BY DEF IInv, TypeOK, Values
<1>3. End > 0 /\ End <= issued => End \in Calls
  BY <1>1 DEF IInv, TypeOK, WriteTypeOK
<1>4. QED
  BY <1>1, <1>2, <1>3 DEF NewestInv

LEMMA NewestStep ==
    ASSUME IInv, NewestInv, [Next]_vars
    PROVE  NewestInv'
<1>0. /\ saved \in Nat /\ dropped \in Nat /\ issued \in Nat
      /\ stage \in [Calls -> Stages] /\ \A n \in Calls : stage[n] = "unused" <=> n > issued
  BY DEF IInv, TypeOK, WriteTypeOK
<1>00. dropped' \in Nat
  <2>1. IInv'
    BY StepKeeps
  <2>2. QED
    BY <2>1, BoundsAssumption DEF IInv, TypeOK, Values, BoundsAssumption
<1>1. CASE Save
  BY <1>1 DEF Save, NewestInv
<1>2. CASE TimerFires \/ Flush
  <2>1. HandOver /\ UNCHANGED <<issued, stage, saved, written, dropped>>
    BY <1>2 DEF TimerFires, Flush, writeVars, history
  <2>2. CASE pending = 0
    <3>1. UNCHANGED <<chain, pending>> /\ End' = End /\ \A k : Value(k)' = Value(k)
      BY <2>1, <2>2, ValuesStay DEF HandOver
    <3>2. QED
      BY <1>0, <2>1, <2>2, <3>1 DEF NewestInv
  <2>3. CASE pending # 0
    <3>1. /\ End \in Nat /\ End' = End + 1 /\ issued <= End
          /\ \A k : k = End + 1 => Value(k)' = pending
      BY <2>1, <2>3, HandedOver
    <3>2. pending = saved \/ dropped >= saved
      <4>1. pending \in Nat /\ pending <= saved /\ pending > 0
        BY <2>3, BoundsAssumption DEF IInv, TypeOK, ValuesInOrder, Values, BoundsAssumption
      <4>2. ~(End > 0 /\ Value(End) = saved)
        <5>1. End > 0 => Value(End) \in 1..saved /\ Value(End) < pending
          BY <3>1, <4>1 DEF IInv, ValuesInOrder
        <5>2. QED
          BY <1>0, <4>1, <5>1
      <4>3. QED
        BY <4>2 DEF NewestInv
    <3>3. Value(End)' = pending
      BY <3>1 DEF Value
    <3>4. End' > 0 /\ ~(End' <= issued') /\ saved' = saved /\ dropped' = dropped
      BY <1>0, <2>1, <3>1
    <3>5. QED
      BY <3>2, <3>3, <3>4 DEF NewestInv
  <2>4. QED
    BY <2>2, <2>3
<1>3. CASE WriteNextOne
  <2>1. /\ End' = End /\ End \in Nat /\ \A k \in 1..End : Value(k)' = Value(k)
        /\ issued < End
    BY <1>3, ValuesMoveOn
  <2>2. UNCHANGED <<saved, pending, timer, dropped>> /\ issued' = issued + 1
        /\ stage' = [stage EXCEPT ![issued + 1] = "waiting"]
    BY <1>3 DEF WriteNextOne, Call, Move, history
  <2>3. End <= issued' => End = issued + 1 /\ stage'[End] # "lost"
    <3>1. issued + 1 \in Calls
      BY <1>0, <1>3 DEF WriteNextOne, Call
    <3>2. QED
      BY <1>0, <2>1, <2>2, <3>1
  <2>4. QED
    BY <2>1, <2>2, <2>3 DEF NewestInv
<1>4. CASE Remove \/ Killed
  BY <1>0, <1>4 DEF Remove, Killed, NewestInv
<1>5. CASE \/ \E k \in flushing : FlushReturns(k)
           \/ \E r \in removing : NotRemoved(r)
           \/ UNCHANGED vars
  <2>1. UNCHANGED <<issued, stage, saved, pending, timer, written, chain, dropped>>
    BY <1>5 DEF FlushReturns, NotRemoved, vars, writeVars, memory, history
  <2>2. QED
    BY <1>0, <1>00, <2>1, NewestStays
<1>6. ASSUME NEW r \in removing, Removed(r) PROVE NewestInv'
  <2>1. /\ UNCHANGED <<issued, stage, saved, pending, timer, written, chain>>
        /\ dropped' = IF InFile > dropped THEN InFile ELSE dropped
    BY <1>6 DEF Removed
  <2>2. dropped' >= dropped
    BY <1>0, <2>1, InFileIsSaved
  <2>3. QED
    BY <1>00, <2>1, <2>2, NewestStays
<1>7. ASSUME NEW n \in Calls, FileStep(n) \/ FileFails(n) PROVE NewestInv'
  <2>1. UNCHANGED <<issued, saved, pending, timer, written, chain, dropped>>
    BY <1>7 DEF FileStep, FileFails, Proceed, Begin, Finish, Rename, Fail, memory, history
  <2>2. \E s \in Stages \ {"lost"} : stage' = [stage EXCEPT ![n] = s]
    BY <1>7 DEF FileStep, FileFails, Proceed, Begin, Finish, Rename, Fail, Move
  <2>3. \A m \in Calls : stage[m] # "lost" => stage'[m] # "lost"
    BY <1>0, <2>2
  <2>4. QED
    BY <1>0, <1>00, <2>1, <2>3, NewestStays
<1>8. QED
  BY <1>1, <1>2, <1>3, <1>4, <1>5, <1>6, <1>7 DEF Next

(* save(), flush(), #writing: no value that was saved is forgotten.  At    *)
(* every moment something will bring the newest one into the file, or its  *)
(* write failed, or remove() or a kill gave it up.                         *)
THEOREM NothingIsForgotten == Spec => []NewestIsOnItsWay
<1>1. Init => NewestInv
  BY DEF Init, NewestInv
<1>2. IInv /\ NewestInv /\ [Next]_vars => NewestInv'
  BY NewestStep
<1>3. IInv /\ NewestInv => NewestIsOnItsWay
  <2> SUFFICES ASSUME IInv, End > 0, Value(End) = saved, ~(dropped >= saved),
                      End <= issued => stage[End] # "lost"
               PROVE  NewestIsOnItsWay
    BY DEF NewestInv, NewestIsOnItsWay
  <2>0. /\ issued \in 0..MaxCalls /\ Len(chain) \in Nat /\ saved \in Nat /\ dropped \in Nat
        /\ stage \in [Calls -> Stages] /\ \A n \in Calls : stage[n] = "unused" <=> n > issued
    BY DEF IInv, TypeOK, WriteTypeOK
  <2>1. CASE End > issued
    <3>1. End - issued \in 1..Len(chain) /\ chain[End - issued] = saved
      BY <2>0, <2>1 DEF End, Value
    <3>2. QED
      BY <3>1 DEF NewestIsOnItsWay
  <2>2. CASE End <= issued
    <3>1. End \in Calls /\ written[End] = saved /\ stage[End] \notin {"unused", "lost"}
      BY <2>0, <2>2 DEF End, Value
    <3>2. CASE stage[End] = "ok"
      <4>1. InFile >= saved
        BY <2>0, <3>1, <3>2 DEF IInv, AnsweredIsThere
      <4>2. QED
        BY <4>1 DEF NewestIsOnItsWay
    <3>3. CASE stage[End] # "ok"
      BY <2>0, <3>1, <3>3 DEF NewestIsOnItsWay
    <3>4. QED
      BY <3>2, <3>3
  <2>3. QED
    BY <2>0, <2>1, <2>2 DEF End
<1>4. QED
  BY <1>1, <1>2, <1>3, Invariance, PTL DEF Spec
=============================================================================
