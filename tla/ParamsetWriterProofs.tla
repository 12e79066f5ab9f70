------------------------ MODULE ParamsetWriterProofs ------------------------
(***************************************************************************)
(* What ParamsetWriter keeps for any calls, channels and descriptions: a   *)
(* write that was previewed sends nothing that the preview did not show,   *)
(* an ok is true of every value, what was repaired stays valid, the writes *)
(* go through the queue as WriteQueue describes it, and the queue holds    *)
(* those that a call waits for.                                            *)
(***************************************************************************)
EXTENDS ParamsetWriter, TLAPS

-----------------------------------------------------------------------------
(* Values that are cast are not changed by casting them again.             *)

(* Numbers are numbers.                                                    *)
HasItsNumber(v) == Kind(v) \in {"number", "digits", "double"} => v[2] \in Int

(* The names of an enum are strings, and none is the one that String()     *)
(* makes of undefined.                                                     *)
HasItsNames(d) ==
    /\ d.VALUE_LIST \in Seq(STRING)
    /\ \A k \in DOMAIN d.VALUE_LIST : Word(d.VALUE_LIST[k]) # Word("undefined")

LEMMA KindsDiffer ==
    /\ \A b : Kind(Bool(b)) = "boolean"
    /\ \A n : Kind(Num(n)) = "number" /\ Num(n)[2] = n
    /\ \A n : Kind(Double(n)) = "double" /\ Double(n)[2] = n
    /\ \A n : Kind(Digits(n)) = "digits"
    /\ \A w : Kind(Word(w)) = "word"
  BY DEF Kind, Bool, Num, Double, Digits, Word

LEMMA UnwrapsOnce ==
    /\ \A u : Kind(u) # "double" => Unwrap(u) = u
    /\ \A u : Kind(u) = "double" => Unwrap(u) = Num(u[2])
    /\ \A u : Kind(Unwrap(u)) # "double"
    /\ \A u : HasItsNumber(u) => HasItsNumber(Unwrap(u))
<1>1. \A u : Kind(u) # "double" => Unwrap(u) = u
  BY DEF Unwrap
<1>2. \A u : Kind(u) = "double" => Unwrap(u) = Num(u[2])
  BY DEF Unwrap
<1>3. \A u : Kind(Unwrap(u)) # "double"
  BY <1>1, <1>2, KindsDiffer
<1>4. \A u : HasItsNumber(u) => HasItsNumber(Unwrap(u))
  BY <1>1, <1>2, KindsDiffer DEF HasItsNumber
<1> QED
  BY <1>1, <1>2, <1>3, <1>4

LEMMA FiniteOne == \A n : Finite({n}) = n
  BY DEF Finite

LEMMA BoolTwice ==
    ASSUME NEW u
    PROVE  Kind(CastBool(u)) = "boolean" /\ CastBool(CastBool(u)) = CastBool(u)
<1>1. \A v : Kind(v) = "boolean" => CastBool(v) = v
  BY DEF CastBool
<1>2. Kind(CastBool(u)) = "boolean"
  <2>1. CASE Kind(u) = "boolean"
    BY <1>1, <2>1
  <2>2. CASE Kind(u) # "boolean"
    <3>1. CASE Kind(u) = "undefined"
      BY <2>2, <3>1, KindsDiffer DEF CastBool
    <3>2. CASE Kind(u) = "word"
      BY <2>2, <3>2, KindsDiffer DEF CastBool
    <3>3. CASE Kind(u) \notin {"undefined", "word"}
      BY <2>2, <3>3, KindsDiffer DEF CastBool
    <3> QED
      BY <3>1, <3>2, <3>3
  <2> QED
    BY <2>1, <2>2
<1> QED
  BY <1>1, <1>2

LEMMA FloatTwice ==
    ASSUME NEW n
    PROVE  Double(Finite(ParsedFloat(Unwrap(Double(n))))) = Double(n)
<1>1. Unwrap(Double(n)) = Num(n)
  BY KindsDiffer, UnwrapsOnce
<1>2. ParsedFloat(Num(n)) = {n}
  BY KindsDiffer DEF ParsedFloat
<1> QED
  BY <1>1, <1>2, FiniteOne

LEMMA TruncatedTwice ==
    ASSUME NEW n \in Int
    PROVE  Truncated(n) \in Int /\ Truncated(Truncated(n)) = Truncated(n)
  BY DEF Truncated

LEMMA TruncatedIndex ==
    ASSUME NEW k \in Nat
    PROVE  Truncated(2 * k) = 2 * k
  BY DEF Truncated

(* A whole number stays what it is.                                        *)
LEMMA NumberStays ==
    ASSUME NEW m, Truncated(m) = m
    PROVE  CastInteger(Num(m)) = Num(m)
<1>1. ParsedFloat(Num(m)) = {m}
  BY KindsDiffer DEF ParsedFloat
<1>2. ParsedInt(Num(m)) = {Truncated(m)}
  BY <1>1 DEF ParsedInt
<1>3. CastInteger(Num(m)) = Num(Finite(ParsedInt(Num(m))))
  BY KindsDiffer DEF CastInteger
<1> QED
  BY <1>2, <1>3, FiniteOne

LEMMA IntegerIsWhole ==
    ASSUME NEW u, HasItsNumber(u), Kind(u) # "double"
    PROVE  \E m : CastInteger(u) = Num(m) /\ Truncated(m) = m
<1>1. Truncated(0) = 0 /\ Truncated(2) = 2
  BY DEF Truncated
<1>2. CASE Kind(u) = "boolean"
  <2>1. CastInteger(u) = Num(2) \/ CastInteger(u) = Num(0)
    BY <1>2 DEF CastInteger
  <2> QED
    BY <1>1, <2>1
<1>3. CASE Kind(u) \in {"number", "digits"}
  <2>1. u[2] \in Int
    BY <1>3 DEF HasItsNumber
  <2>2. ParsedFloat(u) = {u[2]}
    BY <1>3 DEF ParsedFloat
  <2>3. ParsedInt(u) = {Truncated(u[2])}
    BY <2>2 DEF ParsedInt
  <2>4. CastInteger(u) = Num(Finite(ParsedInt(u)))
    BY <1>3 DEF CastInteger
  <2>5. Finite(ParsedInt(u)) = Truncated(u[2])
    BY <2>3, FiniteOne
  <2>6. Truncated(Truncated(u[2])) = Truncated(u[2])
    BY <2>1, TruncatedTwice
  <2> QED
    BY <2>4, <2>5, <2>6
<1>4. CASE Kind(u) \notin {"boolean", "number", "digits"}
  <2>1. ParsedFloat(u) = {}
    BY <1>4 DEF ParsedFloat
  <2>2. ParsedInt(u) = {}
    BY <2>1 DEF ParsedInt
  <2>3. Finite(ParsedInt(u)) = 0
    BY <2>2 DEF Finite
  <2>4. CastInteger(u) = Num(Finite(ParsedInt(u)))
    BY <1>4 DEF CastInteger
  <2> QED
    BY <1>1, <2>3, <2>4
<1> QED
  BY <1>2, <1>3, <1>4

LEMMA NumberIsNoName ==
    ASSUME NEW m, NEW d
    PROVE  EnumIndex(Num(m), d) = {}
<1>1. \A w : Num(m) # Word(w)
  BY KindsDiffer
<1> QED
  BY <1>1 DEF EnumIndex

LEMMA IndexIsWhole ==
    ASSUME NEW u, NEW d, d.VALUE_LIST \in Seq(STRING), EnumIndex(u, d) # {}
    PROVE  Truncated(Finite(EnumIndex(u, d))) = Finite(EnumIndex(u, d))
<1>1. Finite(EnumIndex(u, d)) \in EnumIndex(u, d)
  BY DEF Finite
<1>2. PICK k \in DOMAIN d.VALUE_LIST : Finite(EnumIndex(u, d)) = 2 * (k - 1)
  BY <1>1 DEF EnumIndex
<1>3. k - 1 \in Nat
  <2>1. DOMAIN d.VALUE_LIST = 1..Len(d.VALUE_LIST) /\ Len(d.VALUE_LIST) \in Nat
    OBVIOUS
  <2> QED
    BY <2>1
<1> QED
  BY <1>2, <1>3, TruncatedIndex

(* What CastEnum() makes of a value it makes of its result.                *)
LEMMA EnumTwice ==
    ASSUME NEW u, NEW d, HasItsNames(d), HasItsNumber(u), Kind(u) # "double"
    PROVE  /\ Kind(CastEnum(u, d)) # "double"
           /\ CastEnum(CastEnum(u, d), d) = CastEnum(u, d)
<1>0. ASSUME NEW m, Truncated(m) = m
      PROVE  CastEnum(Num(m), d) = Num(m)
  <2>1. EnumIndex(Num(m), d) = {} /\ Kind(Num(m)) \notin {"word", "undefined"}
    BY NumberIsNoName, KindsDiffer
  <2>2. CastEnum(Num(m), d) = CastInteger(Num(m))
    BY <2>1 DEF CastEnum
  <2> QED
    BY <1>0, <2>2, NumberStays
<1>1. CASE EnumIndex(u, d) # {}
  <2>1. CastEnum(u, d) = Num(Finite(EnumIndex(u, d)))
    BY <1>1 DEF CastEnum
  <2> QED
    BY <1>0, <1>1, <2>1, IndexIsWhole, KindsDiffer DEF HasItsNames
<1>2. CASE EnumIndex(u, d) = {} /\ d.VALUE_LIST # <<>> /\ Kind(u) = "word"
  <2>1. StringOf(u) = u
    BY <1>2 DEF StringOf
  <2>2. CastEnum(u, d) = u
    BY <1>2, <2>1 DEF CastEnum
  <2> QED
    BY <2>2
<1>3. CASE EnumIndex(u, d) = {} /\ d.VALUE_LIST # <<>> /\ Kind(u) = "undefined"
  <2> DEFINE name == Word("undefined")
  <2>1. StringOf(u) = name /\ Kind(name) = "word"
    BY <1>3, KindsDiffer DEF StringOf
  <2>2. EnumIndex(name, d) = {}
    BY DEF HasItsNames, EnumIndex
  <2>3. \A w : Kind(w) = "word" => StringOf(w) = w
    BY DEF StringOf
  <2> HIDE DEF name
  <2>4. CastEnum(u, d) = name
    BY <1>3, <2>1 DEF CastEnum
  <2>5. CastEnum(name, d) = name
    BY <1>3, <2>1, <2>2, <2>3 DEF CastEnum
  <2> QED
    BY <2>1, <2>4, <2>5
<1>4. CASE EnumIndex(u, d) = {} /\ ~(d.VALUE_LIST # <<>> /\ Kind(u) \in {"word", "undefined"})
  <2>1. CastEnum(u, d) = CastInteger(u)
    BY <1>4 DEF CastEnum
  <2> QED
    BY <1>0, <2>1, IntegerIsWhole, KindsDiffer
<1> QED
  BY <1>1, <1>2, <1>3, <1>4

LEMMA StringTwice ==
    ASSUME NEW u, Kind(u) # "double"
    PROVE  Kind(StringOf(u)) # "double" /\ StringOf(StringOf(u)) = StringOf(u)
<1>1. \A v : Kind(v) \notin {"number", "boolean", "undefined"} => StringOf(v) = v
  BY DEF StringOf
<1>2. CASE Kind(u) \notin {"number", "boolean", "undefined"}
  BY <1>1, <1>2
<1>3. CASE Kind(u) = "number"
  <2>1. StringOf(u) = Digits(u[2])
    BY <1>3 DEF StringOf
  <2> QED
    BY <1>1, <2>1, KindsDiffer
<1>4. CASE Kind(u) = "boolean"
  <2>1. \E w : StringOf(u) = Word(w)
    BY <1>4 DEF StringOf
  <2> QED
    BY <1>1, <2>1, KindsDiffer
<1>5. CASE Kind(u) = "undefined"
  <2>1. \E w : StringOf(u) = Word(w)
    BY <1>5 DEF StringOf
  <2> QED
    BY <1>1, <2>1, KindsDiffer
<1> QED
  BY <1>2, <1>3, <1>4, <1>5

(* castValue() is idempotent, on what a dialog hands over, on what a       *)
(* channel holds and on a default: the backend computes from what was      *)
(* previewed what the preview showed.                                      *)
THEOREM CastTwice ==
    ASSUME NEW v, NEW d, HasItsNumber(v), HasItsNames(d)
    PROVE  Cast(Cast(v, d), d) = Cast(v, d)
<1> DEFINE u == Unwrap(v)
<1>0. Kind(u) # "double" /\ HasItsNumber(u)
  BY UnwrapsOnce
<1> HIDE DEF u
<1>1. CASE d.TYPE \in {"BOOL", "ACTION"}
  <2>1. \A w : Cast(w, d) = CastBool(Unwrap(w))
    BY <1>1 DEF Cast
  <2>2. Unwrap(CastBool(u)) = CastBool(u)
    BY BoolTwice, UnwrapsOnce
  <2> QED
    BY <2>1, <2>2, BoolTwice DEF u
<1>2. CASE d.TYPE = "FLOAT"
  <2>1. \A w : Cast(w, d) = Double(Finite(ParsedFloat(Unwrap(w))))
    BY <1>2 DEF Cast
  <2> QED
    BY <2>1, FloatTwice
<1>3. CASE d.TYPE = "INTEGER"
  <2>1. \A w : Cast(w, d) = CastInteger(Unwrap(w))
    BY <1>3 DEF Cast
  <2>2. PICK m : CastInteger(u) = Num(m) /\ Truncated(m) = m
    BY <1>0, IntegerIsWhole
  <2>3. Unwrap(Num(m)) = Num(m)
    BY KindsDiffer, UnwrapsOnce
  <2> QED
    BY <2>1, <2>2, <2>3, NumberStays DEF u
<1>4. CASE d.TYPE = "ENUM"
  <2>1. \A w : Cast(w, d) = CastEnum(Unwrap(w), d)
    BY <1>4 DEF Cast
  <2>2. Unwrap(CastEnum(u, d)) = CastEnum(u, d)
    BY <1>0, EnumTwice, UnwrapsOnce
  <2> QED
    BY <1>0, <2>1, <2>2, EnumTwice DEF u
<1>5. CASE d.TYPE \notin {"BOOL", "ACTION", "FLOAT", "INTEGER", "ENUM"}
  <2>1. \A w : Cast(w, d) = StringOf(Unwrap(w))
    BY <1>5 DEF Cast
  <2>2. Unwrap(StringOf(u)) = StringOf(u)
    BY <1>0, StringTwice, UnwrapsOnce
  <2> QED
    BY <1>0, <2>1, <2>2, StringTwice DEF u
<1> QED
  BY <1>1, <1>2, <1>3, <1>4, <1>5

-----------------------------------------------------------------------------
(* Values that were cast, or judged, are what a device can hold.           *)

LEMMA UnwrappedNumber ==
    ASSUME NEW v, HasItsNumber(v)
    PROVE  HasItsNumber(Unwrap(v))
<1>1. CASE Kind(v) = "double"
  BY <1>1, UnwrapsOnce, KindsDiffer DEF HasItsNumber
<1>2. CASE Kind(v) # "double"
  BY <1>2, UnwrapsOnce
<1> QED
  BY <1>1, <1>2

LEMMA IntegerIsInt ==
    ASSUME NEW u, HasItsNumber(u)
    PROVE  \E m \in Int : CastInteger(u) = Num(m)
<1>1. CASE Kind(u) = "boolean"
  BY <1>1 DEF CastInteger
<1>2. CASE Kind(u) \in {"number", "digits"}
  <2>1. u[2] \in Int /\ ParsedFloat(u) = {u[2]}
    BY <1>2 DEF HasItsNumber, ParsedFloat
  <2>2. ParsedInt(u) = {Truncated(u[2])}
    BY <2>1 DEF ParsedInt
  <2>3. CastInteger(u) = Num(Finite(ParsedInt(u)))
    BY <1>2 DEF CastInteger
  <2> QED
    BY <2>1, <2>2, <2>3, FiniteOne, TruncatedTwice
<1>3. CASE Kind(u) \notin {"boolean", "number", "digits"}
  <2>1. ParsedFloat(u) = {}
    BY <1>3 DEF ParsedFloat
  <2>2. ParsedInt(u) = {}
    BY <2>1 DEF ParsedInt
  <2>3. CastInteger(u) = Num(Finite(ParsedInt(u)))
    BY <1>3 DEF CastInteger
  <2> QED
    BY <2>2, <2>3 DEF Finite
<1> QED
  BY <1>1, <1>2, <1>3

LEMMA FloatIsInt ==
    ASSUME NEW u, HasItsNumber(u)
    PROVE  Finite(ParsedFloat(u)) \in Int
<1>1. CASE Kind(u) \in {"number", "digits"}
  BY <1>1, FiniteOne DEF HasItsNumber, ParsedFloat
<1>2. CASE Kind(u) \notin {"number", "digits"}
  BY <1>2 DEF ParsedFloat, Finite
<1> QED
  BY <1>1, <1>2

LEMMA StringHasItsNumber ==
    ASSUME NEW u, HasItsNumber(u)
    PROVE  HasItsNumber(StringOf(u))
<1>1. CASE Kind(u) = "number"
  <2>1. StringOf(u) = Digits(u[2])
    BY <1>1 DEF StringOf
  <2> QED
    BY <1>1, <2>1 DEF Digits, HasItsNumber
<1>2. CASE Kind(u) \in {"boolean", "undefined"}
  <2>1. \E w : StringOf(u) = Word(w)
    BY <1>2 DEF StringOf
  <2> QED
    BY <2>1, KindsDiffer DEF HasItsNumber
<1>3. CASE Kind(u) \notin {"number", "boolean", "undefined"}
  BY <1>3 DEF StringOf
<1> QED
  BY <1>1, <1>2, <1>3

(* The index of a name is one of the list.                                 *)
LEMMA IndexInList ==
    ASSUME NEW u, NEW d, d.VALUE_LIST \in Seq(STRING), EnumIndex(u, d) # {}
    PROVE  \E k \in DOMAIN d.VALUE_LIST :
              /\ Finite(EnumIndex(u, d)) = 2 * (k - 1)
              /\ k \in 1..Len(d.VALUE_LIST) /\ Len(d.VALUE_LIST) \in Nat
<1>1. Finite(EnumIndex(u, d)) \in EnumIndex(u, d)
  BY DEF Finite
<1>2. PICK k \in DOMAIN d.VALUE_LIST : Finite(EnumIndex(u, d)) = 2 * (k - 1)
  BY <1>1 DEF EnumIndex
<1>3. DOMAIN d.VALUE_LIST = 1..Len(d.VALUE_LIST) /\ Len(d.VALUE_LIST) \in Nat
  OBVIOUS
<1> QED
  BY <1>2, <1>3

LEMMA CastHasItsNumber ==
    ASSUME NEW v, NEW d, HasItsNumber(v), d.VALUE_LIST \in Seq(STRING)
    PROVE  HasItsNumber(Cast(v, d))
<1> DEFINE u == Unwrap(v)
<1>0. HasItsNumber(u)
  BY UnwrappedNumber
<1> HIDE DEF u
<1>1. CASE d.TYPE \in {"BOOL", "ACTION"}
  <2>1. Cast(v, d) = CastBool(u)
    BY <1>1 DEF Cast, u
  <2> QED
    BY <2>1, BoolTwice DEF HasItsNumber
<1>2. CASE d.TYPE = "FLOAT"
  <2>1. Cast(v, d) = Double(Finite(ParsedFloat(u)))
    BY <1>2 DEF Cast, u
  <2> QED
    BY <1>0, <2>1, FloatIsInt, KindsDiffer DEF HasItsNumber
<1>3. CASE d.TYPE = "INTEGER"
  <2>1. Cast(v, d) = CastInteger(u)
    BY <1>3 DEF Cast, u
  <2> QED
    BY <1>0, <2>1, IntegerIsInt, KindsDiffer DEF HasItsNumber
<1>4. CASE d.TYPE = "ENUM"
  <2>1. Cast(v, d) = CastEnum(u, d)
    BY <1>4 DEF Cast, u
  <2>2. CASE EnumIndex(u, d) # {}
    <3>1. CastEnum(u, d) = Num(Finite(EnumIndex(u, d)))
      BY <2>2 DEF CastEnum
    <3>2. Finite(EnumIndex(u, d)) \in Int
      BY <2>2, IndexInList
    <3> QED
      BY <2>1, <3>1, <3>2, KindsDiffer DEF HasItsNumber
  <2>3. CASE EnumIndex(u, d) = {} /\ d.VALUE_LIST # <<>> /\ Kind(u) \in {"word", "undefined"}
    <3>1. CastEnum(u, d) = StringOf(u)
      BY <2>3 DEF CastEnum
    <3> QED
      BY <1>0, <2>1, <3>1, StringHasItsNumber
  <2>4. CASE EnumIndex(u, d) = {} /\ ~(d.VALUE_LIST # <<>> /\ Kind(u) \in {"word", "undefined"})
    <3>1. CastEnum(u, d) = CastInteger(u)
      BY <2>4 DEF CastEnum
    <3> QED
      BY <1>0, <2>1, <3>1, IntegerIsInt, KindsDiffer DEF HasItsNumber
  <2> QED
    BY <2>2, <2>3, <2>4
<1>5. CASE d.TYPE \notin {"BOOL", "ACTION", "FLOAT", "INTEGER", "ENUM"}
  <2>1. Cast(v, d) = StringOf(u)
    BY <1>5 DEF Cast, u
  <2> QED
    BY <1>0, <2>1, StringHasItsNumber
<1> QED
  BY <1>1, <1>2, <1>3, <1>4, <1>5

(* validateValue() judges {explicitDouble: n} as it judges n.              *)
LEMMA ValidUnwrapped ==
    ASSUME NEW v, NEW d
    PROVE  IsValid(Unwrap(v), d) <=> IsValid(v, d)
<1>1. Unwrap(Unwrap(v)) = Unwrap(v)
  BY UnwrapsOnce
<1> QED
  BY <1>1 DEF IsValid

(* The names of an enum stand within its MIN and MAX.                      *)
NamesInBounds(d) ==
    d.TYPE = "ENUM" => \A k \in DOMAIN d.VALUE_LIST : InBounds(2 * (k - 1), d)

LEMMA WholeStays ==
    ASSUME NEW n \in Int, IsWhole(n)
    PROVE  Truncated(n) = n
  BY DEF Truncated, IsWhole

(* validateEnum() accepts the index that castEnum() makes of a name, and   *)
(* of an index.                                                            *)
LEMMA ValidEnumStaysValid ==
    ASSUME NEW u, NEW d, HasItsNumber(u), Kind(u) # "double", d.TYPE = "ENUM",
           d.VALUE_LIST \in Seq(STRING), NamesInBounds(d), IsValidEnum(u, d)
    PROVE  IsValidEnum(CastEnum(u, d), d) /\ Kind(CastEnum(u, d)) # "double"
<1>1. CASE EnumIndex(u, d) # {}
  <2>1. CastEnum(u, d) = Num(Finite(EnumIndex(u, d)))
    BY <1>1 DEF CastEnum
  <2>2. PICK k \in DOMAIN d.VALUE_LIST :
            /\ Finite(EnumIndex(u, d)) = 2 * (k - 1)
            /\ k \in 1..Len(d.VALUE_LIST) /\ Len(d.VALUE_LIST) \in Nat
    BY <1>1, IndexInList
  <2>3. InBounds(2 * (k - 1), d)
    BY DEF NamesInBounds
  <2>4. IsWhole(2 * (k - 1)) /\ 2 * (k - 1) >= 0 /\ 2 * (k - 1) < 2 * Len(d.VALUE_LIST)
    BY <2>2 DEF IsWhole
  <2> QED
    BY <2>1, <2>2, <2>3, <2>4, KindsDiffer DEF IsValidEnum
<1>2. CASE EnumIndex(u, d) = {}
  <2>1. Kind(u) = "number" /\ IsWhole(u[2]) /\ u[2] \in Int
    BY <1>2 DEF IsValidEnum, HasItsNumber
  <2>2. CastEnum(u, d) = CastInteger(u)
    BY <1>2, <2>1 DEF CastEnum
  <2>3. ParsedFloat(u) = {u[2]}
    BY <2>1 DEF ParsedFloat
  <2>4. ParsedInt(u) = {u[2]}
    BY <2>1, <2>3, WholeStays DEF ParsedInt
  <2>5. CastInteger(u) = Num(u[2])
    BY <2>1, <2>4, FiniteOne DEF CastInteger
  <2>6. Kind(Num(u[2])) = "number" /\ Num(u[2])[2] = u[2]
    BY KindsDiffer
  <2> QED
    BY <1>2, <2>2, <2>5, <2>6 DEF IsValidEnum
<1> QED
  BY <1>1, <1>2

(* What is valid is valid when it is cast: a stored value that a repair    *)
(* leaves alone may be written back.                                       *)
LEMMA ValidStaysValid ==
    ASSUME NEW v, NEW d, HasItsNumber(v), d.VALUE_LIST \in Seq(STRING), NamesInBounds(d),
           IsValid(v, d)
    PROVE  IsValid(Cast(v, d), d)
<1> DEFINE u == Unwrap(v)
<1>0. HasItsNumber(u) /\ Kind(u) # "double" /\ d.writable /\ IsValid(u, d)
  BY UnwrappedNumber, UnwrapsOnce, ValidUnwrapped DEF IsValid
<1>00. \A w : Kind(w) # "double" => Unwrap(w) = w
  BY UnwrapsOnce
<1>01. Unwrap(u) = u
  BY <1>0, <1>00
<1> HIDE DEF u
<1>1. CASE d.TYPE \in {"BOOL", "ACTION"}
  <2>1. Cast(v, d) = CastBool(u)
    BY <1>1 DEF Cast, u
  <2>2. Kind(u) = "boolean"
    BY <1>0, <1>01, <1>1 DEF IsValid
  <2> QED
    BY <1>0, <2>1, <2>2 DEF CastBool
<1>2. CASE d.TYPE = "FLOAT"
  <2>1. Cast(v, d) = Double(Finite(ParsedFloat(u)))
    BY <1>2 DEF Cast, u
  <2>2. Kind(u) = "number" /\ (u[2] \in d.SPECIAL \/ InBounds(u[2], d))
    BY <1>0, <1>01, <1>2 DEF IsValid
  <2>3. Cast(v, d) = Double(u[2])
    BY <2>1, <2>2, FiniteOne DEF ParsedFloat
  <2>4. Unwrap(Double(u[2])) = Num(u[2]) /\ Kind(Num(u[2])) = "number" /\ Num(u[2])[2] = u[2]
    BY KindsDiffer, UnwrapsOnce
  <2> QED
    BY <1>0, <1>2, <2>2, <2>3, <2>4 DEF IsValid
<1>3. CASE d.TYPE = "INTEGER"
  <2>1. Cast(v, d) = CastInteger(u)
    BY <1>3 DEF Cast, u
  <2>2. Kind(u) = "number" /\ IsWhole(u[2]) /\ (u[2] \in d.SPECIAL \/ InBounds(u[2], d))
    BY <1>0, <1>01, <1>3 DEF IsValid
  <2>3. u[2] \in Int /\ ParsedFloat(u) = {u[2]}
    BY <1>0, <2>2 DEF HasItsNumber, ParsedFloat
  <2>4. ParsedInt(u) = {u[2]}
    BY <2>2, <2>3, WholeStays DEF ParsedInt
  <2>5. Cast(v, d) = Num(u[2])
    BY <2>1, <2>2, <2>4, FiniteOne DEF CastInteger
  <2>6. Unwrap(Num(u[2])) = Num(u[2]) /\ Kind(Num(u[2])) = "number" /\ Num(u[2])[2] = u[2]
    BY KindsDiffer, UnwrapsOnce
  <2> QED
    BY <1>0, <1>3, <2>2, <2>5, <2>6 DEF IsValid
<1>4. CASE d.TYPE = "ENUM"
  <2>1. Cast(v, d) = CastEnum(u, d)
    BY <1>4 DEF Cast, u
  <2>2. IsValidEnum(u, d)
    BY <1>0, <1>01, <1>4 DEF IsValid
  <2>3. IsValidEnum(CastEnum(u, d), d) /\ Unwrap(CastEnum(u, d)) = CastEnum(u, d)
    BY <1>0, <1>00, <1>4, <2>2, ValidEnumStaysValid
  <2> QED
    BY <1>0, <1>4, <2>1, <2>3 DEF IsValid
<1>5. CASE d.TYPE = "STRING"
  <2>1. Cast(v, d) = StringOf(u)
    BY <1>5 DEF Cast, u
  <2>2. IsText(u)
    BY <1>0, <1>01, <1>5 DEF IsValid
  <2>3. StringOf(u) = u
    BY <2>2 DEF IsText, StringOf
  <2> QED
    BY <1>0, <2>1, <2>3
<1>6. CASE d.TYPE \notin {"BOOL", "ACTION", "FLOAT", "INTEGER", "ENUM", "STRING"}
  BY <1>0, <1>6 DEF IsValid
<1> QED
  BY <1>1, <1>2, <1>3, <1>4, <1>5, <1>6

(* A valid stored value is the value its cast is.                          *)
Types == {"BOOL", "ACTION", "INTEGER", "FLOAT", "ENUM", "STRING"}

LEMMA ValidIsTheValue ==
    ASSUME NEW s, NEW v, NEW d, HasItsNumber(s), d.VALUE_LIST \in Seq(STRING), d.TYPE \in Types,
           IsValid(s, d), Unwrap(Cast(s, d)) = Unwrap(v)
    PROVE  IsTheValue(s, v, d)
<1> DEFINE u == Unwrap(s)
<1>0. HasItsNumber(u) /\ Kind(u) # "double" /\ IsValid(u, d)
  BY UnwrappedNumber, UnwrapsOnce, ValidUnwrapped
<1>00. \A w : Kind(w) # "double" => Unwrap(w) = w
  BY UnwrapsOnce
<1>01. Unwrap(u) = u
  BY <1>0, <1>00
<1>02. Unwrap(Cast(s, d)) = u => IsTheValue(s, v, d)
  BY DEF IsTheValue
<1>03. Kind(u) = "number" /\ Unwrap(Cast(s, d)) = Num(u[2]) => IsTheValue(s, v, d)
  BY KindsDiffer DEF IsTheValue
<1> HIDE DEF u
<1>1. CASE d.TYPE \in {"BOOL", "ACTION"}
  <2>1. Cast(s, d) = CastBool(u) /\ Kind(u) = "boolean"
    BY <1>0, <1>01, <1>1 DEF Cast, u, IsValid
  <2>2. Cast(s, d) = u
    BY <2>1 DEF CastBool
  <2> QED
    BY <1>01, <1>02, <2>2
<1>2. CASE d.TYPE = "FLOAT"
  <2>1. Cast(s, d) = Double(Finite(ParsedFloat(u))) /\ Kind(u) = "number"
    BY <1>0, <1>01, <1>2 DEF Cast, u, IsValid
  <2>2. Cast(s, d) = Double(u[2])
    BY <2>1, FiniteOne DEF ParsedFloat
  <2>3. Unwrap(Cast(s, d)) = Num(u[2])
    BY <2>2, KindsDiffer, UnwrapsOnce
  <2> QED
    BY <1>03, <2>1, <2>3
<1>3. CASE d.TYPE = "INTEGER"
  <2>1. Cast(s, d) = CastInteger(u) /\ Kind(u) = "number" /\ IsWhole(u[2])
    BY <1>0, <1>01, <1>3 DEF Cast, u, IsValid
  <2>2. u[2] \in Int /\ ParsedFloat(u) = {u[2]}
    BY <1>0, <2>1 DEF HasItsNumber, ParsedFloat
  <2>3. ParsedInt(u) = {u[2]}
    BY <2>1, <2>2, WholeStays DEF ParsedInt
  <2>4. Cast(s, d) = Num(u[2])
    BY <2>1, <2>3, FiniteOne DEF CastInteger
  <2>5. Unwrap(Cast(s, d)) = Num(u[2])
    BY <2>4, KindsDiffer, UnwrapsOnce
  <2> QED
    BY <1>03, <2>1, <2>5
<1>4. CASE d.TYPE = "ENUM"
  <2>1. Cast(s, d) = CastEnum(u, d) /\ IsValidEnum(u, d)
    BY <1>0, <1>01, <1>4 DEF Cast, u, IsValid
  <2>2. CASE EnumIndex(u, d) # {}
    <3>1. Cast(s, d) = Num(Finite(EnumIndex(u, d)))
      BY <2>1, <2>2 DEF CastEnum
    <3>2. Unwrap(Cast(s, d)) = Num(Finite(EnumIndex(u, d)))
      BY <3>1, KindsDiffer, UnwrapsOnce
    <3>3. Kind(u) = "word"
      BY <2>2, KindsDiffer DEF EnumIndex
    <3>4. u = s
      <4>1. Kind(s) = "double" => Kind(u) = "number"
        BY KindsDiffer, UnwrapsOnce DEF u
      <4> QED
        BY <3>3, <4>1, UnwrapsOnce DEF u
    <3> QED
      BY <1>4, <2>2, <3>2, <3>4 DEF IsTheValue
  <2>3. CASE EnumIndex(u, d) = {}
    <3>1. Kind(u) = "number" /\ IsWhole(u[2]) /\ u[2] \in Int
      BY <1>0, <2>1, <2>3 DEF IsValidEnum, HasItsNumber
    <3>2. CastEnum(u, d) = CastInteger(u)
      BY <2>3, <3>1 DEF CastEnum
    <3>3. ParsedFloat(u) = {u[2]}
      BY <3>1 DEF ParsedFloat
    <3>4. ParsedInt(u) = {u[2]}
      BY <3>1, <3>3, WholeStays DEF ParsedInt
    <3>5. Cast(s, d) = Num(u[2])
      BY <2>1, <3>1, <3>2, <3>4, FiniteOne DEF CastInteger
    <3>6. Unwrap(Cast(s, d)) = Num(u[2])
      BY <3>5, KindsDiffer, UnwrapsOnce
    <3> QED
      BY <1>03, <3>1, <3>6
  <2> QED
    BY <2>2, <2>3
<1>5. CASE d.TYPE = "STRING"
  <2>1. Cast(s, d) = StringOf(u) /\ IsText(u)
    BY <1>0, <1>01, <1>5 DEF Cast, u, IsValid
  <2>2. Cast(s, d) = u
    BY <2>1 DEF IsText, StringOf
  <2> QED
    BY <1>01, <1>02, <2>2
<1> QED
  BY <1>1, <1>2, <1>3, <1>4, <1>5 DEF Types

(* The hypotheses on what is described, stored and asked for.  A MIN or a  *)
(* DEFAULT that is not given is undefined, which has no number.            *)
SoundDescription ==
    \A p \in DOMAIN Description : LET d == Description[p] IN
        /\ d.VALUE_LIST \in Seq(STRING) /\ NamesInBounds(d)
        /\ HasItsNumber(d.DEFAULT) /\ HasItsNumber(d.MIN)

HaveTheirNumbers(values) == \A p \in DOMAIN values : HasItsNumber(values[p])

(* Values a channel can be sent: of described parameters, and valid.       *)
AreValid(values) ==
    \A p \in DOMAIN values : p \in DOMAIN Description /\ IsValid(values[p], Description[p])

LEMMA FallbackIsValid ==
    ASSUME NEW d, NEW v \in FallbackValue(d), HasItsNumber(d.DEFAULT), HasItsNumber(d.MIN),
           d.VALUE_LIST \in Seq(STRING)
    PROVE  IsValid(v, d) /\ HasItsNumber(v)
<1> DEFINE candidates == FallbackCandidates(d)
<1>1. \A k \in DOMAIN candidates : HasItsNumber(candidates[k])
  <2> DEFINE possible == {d.DEFAULT, d.MIN, Num(0), Bool(FALSE), Word("")}
             rest == CASE d.TYPE = "ENUM" -> <<Num(0)>>
                       [] d.TYPE \in {"BOOL", "ACTION"} -> <<Bool(FALSE)>>
                       [] d.TYPE = "STRING" -> <<Word("")>>
                       [] OTHER -> <<d.MIN, Num(0)>>
  <2>1. \A w \in possible : HasItsNumber(w)
    <3>1. HasItsNumber(Num(0))
      BY KindsDiffer DEF HasItsNumber
    <3>2. HasItsNumber(Bool(FALSE))
      <4>1. Kind(Bool(FALSE)) = "boolean"
        BY KindsDiffer
      <4> QED
        BY <4>1 DEF HasItsNumber
    <3>3. HasItsNumber(Word(""))
      <4>1. Kind(Word("")) = "word"
        BY KindsDiffer
      <4> QED
        BY <4>1 DEF HasItsNumber
    <3> QED
      BY <3>1, <3>2, <3>3
  <2>2. candidates = <<d.DEFAULT>> \o rest
    BY DEF FallbackCandidates
  <2>3. d.DEFAULT \in possible /\ d.MIN \in possible /\ Num(0) \in possible
        /\ Bool(FALSE) \in possible /\ Word("") \in possible
    OBVIOUS
  <2> HIDE DEF possible
  <2>4. \A w \in possible : <<w>> \in Seq(possible) /\ \A x \in possible : <<w, x>> \in Seq(possible)
    OBVIOUS
  <2>5. rest \in {<<Num(0)>>, <<Bool(FALSE)>>, <<Word("")>>, <<d.MIN, Num(0)>>}
    OBVIOUS
  <2>6. rest \in Seq(possible)
    <3> HIDE DEF rest
    <3> QED
      BY <2>3, <2>4, <2>5
  <2>7. <<d.DEFAULT>> \in Seq(possible)
    BY <2>3, <2>4
  <2> DEFINE first == <<d.DEFAULT>>
  <2> HIDE DEF rest, candidates, first
  <2>8. first \o rest \in Seq(possible)
    BY <2>6, <2>7 DEF first
  <2>9. candidates \in Seq(possible)
    BY <2>2, <2>8 DEF first
  <2> QED
    BY <2>1, <2>9
<1>2. \E k \in DOMAIN candidates : v = Cast(candidates[k], d) /\ IsValid(Cast(candidates[k], d), d)
  BY DEF FallbackValue
<1> HIDE DEF candidates
<1> QED
  BY <1>1, <1>2, CastHasItsNumber

(* What a repair writes is valid, and there is something to write where    *)
(* the parameter has a fallback.                                           *)
LEMMA RepairIsValid ==
    ASSUME SoundDescription, NEW stored, HaveTheirNumbers(stored)
    PROVE  /\ AreValid(RepairPayload(stored, Description))
           /\ HaveTheirNumbers(RepairPayload(stored, Description))
           /\ \A p \in DOMAIN Description :
                 Description[p].writable /\ FallbackValue(Description[p]) # {} =>
                    p \in DOMAIN RepairPayload(stored, Description)
<1> DEFINE payload == RepairPayload(stored, Description)
           repairable == {q \in DOMAIN Description :
               Description[q].writable /\ Repaired(stored, q, Description[q]) # {}}
<1>1. /\ DOMAIN payload = repairable
      /\ \A p \in repairable : payload[p] \in Repaired(stored, p, Description[p])
  BY DEF RepairPayload
<1> HIDE DEF payload
<1>2. ASSUME NEW p \in DOMAIN payload
      PROVE  p \in DOMAIN Description /\ IsValid(payload[p], Description[p]) /\ HasItsNumber(payload[p])
  <2> DEFINE d == Description[p]
  <2>1. p \in DOMAIN Description /\ payload[p] \in Repaired(stored, p, d)
    BY <1>1
  <2>2. /\ d.VALUE_LIST \in Seq(STRING) /\ NamesInBounds(d)
        /\ HasItsNumber(d.DEFAULT) /\ HasItsNumber(d.MIN)
    BY <2>1 DEF SoundDescription
  <2> HIDE DEF d
  <2>3. CASE p \in DOMAIN stored /\ (IsValid(stored[p], d) \/ IsValid(Cast(stored[p], d), d))
    <3>1. payload[p] = Cast(stored[p], d)
      BY <2>1, <2>3 DEF Repaired
    <3>2. HasItsNumber(stored[p])
      BY <2>3 DEF HaveTheirNumbers
    <3>3. HasItsNumber(Cast(stored[p], d))
      BY <2>2, <3>2, CastHasItsNumber
    <3>4. IsValid(Cast(stored[p], d), d)
      BY <2>2, <2>3, <3>2, ValidStaysValid
    <3> QED
      BY <2>1, <3>1, <3>3, <3>4 DEF d
  <2>4. CASE ~(p \in DOMAIN stored /\ (IsValid(stored[p], d) \/ IsValid(Cast(stored[p], d), d)))
    <3>1. payload[p] \in FallbackValue(d)
      BY <2>1, <2>4 DEF Repaired
    <3> QED
      BY <2>1, <2>2, <3>1, FallbackIsValid DEF d
  <2> QED
    BY <2>3, <2>4
<1>3. ASSUME NEW p \in DOMAIN Description, Description[p].writable,
             FallbackValue(Description[p]) # {}
      PROVE  p \in DOMAIN payload
  <2>1. Repaired(stored, p, Description[p]) # {}
    BY <1>3 DEF Repaired
  <2> QED
    BY <1>1, <1>3, <2>1
<1> QED
  BY <1>2, <1>3 DEF payload, AreValid, HaveTheirNumbers

(* So is everything diffParamset() has to send.                            *)
LEMMA DiffIsValid ==
    ASSUME SoundDescription, NEW original, HaveTheirNumbers(original),
           NEW edited, HaveTheirNumbers(edited), NEW writeAll
    PROVE  /\ AreValid(Diff(original, edited, Description, writeAll).values)
           /\ HaveTheirNumbers(Diff(original, edited, Description, writeAll).values)
<1> DEFINE raw(p) == RawOf(original, edited, Description, p)
           considered == Considered(original, edited, Description, writeAll)
           valid == {p \in considered : IsValid(Cast(raw(p), Description[p]), Description[p])}
           values == Diff(original, edited, Description, writeAll).values
<1>1. values = [p \in valid |-> Cast(raw(p), Description[p])]
  BY DEF Diff
<1>2. considered \subseteq DOMAIN Description
  BY DEF Considered
<1>3. \A p \in DOMAIN Description : HasItsNumber(raw(p))
  BY DEF RawOf, SoundDescription, HaveTheirNumbers
<1> HIDE DEF raw, considered, values
<1>4. \A p \in DOMAIN values : p \in DOMAIN Description /\ IsValid(values[p], Description[p])
  BY <1>1, <1>2
<1>5. ASSUME NEW p \in DOMAIN values
      PROVE  HasItsNumber(values[p])
  <2>1. HasItsNumber(raw(p)) /\ Description[p].VALUE_LIST \in Seq(STRING)
    BY <1>3, <1>4 DEF SoundDescription
  <2> QED
    BY <1>1, <2>1, CastHasItsNumber
<1> QED
  BY <1>4, <1>5 DEF values, AreValid, HaveTheirNumbers

(* Whatever kind of call it is, no target is sent a value that the         *)
(* description does not admit.                                             *)
LEMMA PayloadIsValid ==
    ASSUME SoundDescription, NEW r, r.kind \in Kinds, HaveTheirNumbers(r.values),
           NEW original, HaveTheirNumbers(original)
    PROVE  /\ AreValid(PayloadOf(r, original).values)
           /\ HaveTheirNumbers(PayloadOf(r, original).values)
<1> DEFINE diff == Diff(original, r.values, Description, r.writeAll)
<1>1. AreValid(diff.values) /\ HaveTheirNumbers(diff.values)
  BY DiffIsValid
<1>2. DOMAIN diff = {"values", "problems"}
  BY DEF Diff
<1>3. ASSUME NEW p \in DOMAIN r.values, p \in DOMAIN Description
      PROVE  HasItsNumber(Cast(r.values[p], Description[p]))
  BY <1>3, CastHasItsNumber DEF SoundDescription, HaveTheirNumbers
<1>4. CASE r.kind = "put"
  <2>1. PayloadOf(r, original) = diff
    BY <1>4 DEF PayloadOf
  <2> QED
    BY <1>1, <2>1
<1>5. CASE r.kind = "link"
  <2> DEFINE values == WithAlwaysSent(diff.values, r.values, Description, r.always)
             added == {p \in (r.always \intersect DOMAIN r.values \intersect DOMAIN Description)
                                 \ DOMAIN diff.values :
                          /\ r.values[p] # Undefined
                          /\ IsValid(Cast(r.values[p], Description[p]), Description[p])}
  <2>1. PayloadOf(r, original) = [diff EXCEPT !.values = values]
    BY <1>5 DEF PayloadOf
  <2>2. values = [p \in DOMAIN diff.values \union added |->
                     IF p \in DOMAIN diff.values THEN diff.values[p]
                     ELSE Cast(r.values[p], Description[p])]
    BY DEF WithAlwaysSent
  <2>3. \A p \in added : /\ p \in DOMAIN r.values /\ p \in DOMAIN Description
                         /\ IsValid(Cast(r.values[p], Description[p]), Description[p])
    OBVIOUS
  <2> HIDE DEF diff, added, values
  <2>4. PayloadOf(r, original).values = values
    BY <1>2, <2>1
  <2>5. AreValid(values) /\ HaveTheirNumbers(values)
    BY <1>1, <1>3, <2>2, <2>3 DEF AreValid, HaveTheirNumbers
  <2> QED
    BY <2>4, <2>5
<1>6. CASE r.kind = "value"
  <2> DEFINE unwritable == {p \in DOMAIN r.values :
                              \/ p \notin DOMAIN Description
                              \/ ~IsValid(Cast(r.values[p], Description[p]), Description[p])}
  <2>1. PayloadOf(r, original) =
           [problems |-> unwritable,
            values |-> [p \in DOMAIN r.values \ unwritable |-> Cast(r.values[p], Description[p])]]
    BY <1>6 DEF PayloadOf
  <2> QED
    BY <1>3, <2>1 DEF AreValid, HaveTheirNumbers
<1>7. CASE r.kind = "repair"
  <2>1. PayloadOf(r, original) = [problems |-> {}, values |-> RepairPayload(original, Description)]
    BY <1>7 DEF PayloadOf
  <2> QED
    BY <2>1, RepairIsValid
<1> QED
  BY <1>4, <1>5, <1>6, <1>7 DEF Kinds

-----------------------------------------------------------------------------
Fields == {"at", "step", "request", "shown", "original", "results"}
RequestFields == {"kind", "targets", "values", "writeAll", "always"}
AtWork == {"asking", "answered", "writing"}

IsRequest(r) ==
    /\ DOMAIN r = RequestFields
    /\ r.kind \in Kinds
    /\ r.targets \in Seq(Channels) /\ Len(r.targets) \in 1..MaxTargets

(* A call has the shape of one, and a result for each target before the    *)
(* one it works at.                                                        *)
IsEntry(e) ==
    /\ DOMAIN e = Fields
    /\ e.step \in AtWork \union {"none", "shown", "done"}
    /\ e.results \in Seq(Outcomes)
    /\ e.step # "none" => IsRequest(e.request)
    /\ e.step \in {"none", "shown"} => e.results = <<>>
    /\ e.step \in AtWork => e.at \in 1..Len(e.request.targets) /\ Len(e.results) = e.at - 1

ShapeInv ==
    /\ DOMAIN call = Calls
    /\ \A c \in Calls : IsEntry(call[c])

LEMMA RequestsAreRequests ==
    ASSUME NEW c \in Calls, NEW r \in Requests[c]
    PROVE  IsRequest(r)
  BY RequestsAssumption DEF IsRequest, RequestFields

LEMMA FirstTarget ==
    ASSUME NEW n \in 1..MaxTargets
    PROVE  1 \in 1..n
  BY DEF MaxTargets

(* What follows a target is one of the later ones, or the end.             *)
LEMMA FollowingIsLater ==
    ASSUME NEW r, NEW k, Len(r.targets) \in 1..MaxTargets, k \in 1..Len(r.targets)
    PROVE  /\ Following(r, k) \in k+1 .. Len(r.targets)+1
           /\ k + 1 \in Nat
<1> DEFINE n == Len(r.targets)
           Fits(j) == /\ j <= n => ~IsRefused(r, j)
                      /\ \A between \in k+1 .. j-1 : IsRefused(r, between)
<1>1. n \in {1, 2, 3} /\ k \in {1, 2, 3} /\ k <= n
  <2>1. n \in 1..3 /\ k \in 1..n
    BY DEF MaxTargets
  <2> HIDE DEF n
  <2> QED
    BY <2>1
<1>2. \E j \in k+1 .. n+1 : Fits(j)
  <2> HIDE DEF n
  <2>1. CASE k + 1 > n \/ ~IsRefused(r, k+1)
    <3>1. k + 1 \in k+1 .. n+1 /\ k+1 .. (k+1)-1 = {}
      BY <1>1
    <3> QED
      BY <1>1, <2>1, <3>1
  <2>2. CASE k + 1 <= n /\ IsRefused(r, k+1) /\ (k + 2 > n \/ ~IsRefused(r, k+2))
    <3>1. k + 2 \in k+1 .. n+1 /\ k+1 .. (k+2)-1 = {k+1}
      BY <1>1, <2>2
    <3> QED
      BY <1>1, <2>2, <3>1
  <2>3. CASE k + 2 <= n /\ IsRefused(r, k+1) /\ IsRefused(r, k+2)
    <3>1. k + 3 \in k+1 .. n+1 /\ k+1 .. (k+3)-1 = {k+1, k+2} /\ ~(k + 3 <= n)
      BY <1>1, <2>3
    <3> QED
      BY <2>3, <3>1
  <2> QED
    BY <1>1, <2>1, <2>2, <2>3
<1>3. Following(r, k) = CHOOSE j \in k+1 .. n+1 : Fits(j)
  BY DEF Following
<1> HIDE DEF Fits
<1>4. Following(r, k) \in k+1 .. n+1
  BY <1>2, <1>3
<1> QED
  BY <1>1, <1>4

(* What the end of a target leaves of a call.                              *)
LEMMA EndedMoves ==
    ASSUME NEW e, IsEntry(e), e.step \in AtWork, NEW outcome \in Outcomes
    PROVE  LET f == Ended(e, outcome) IN
           /\ IsEntry(f)
           /\ f.request = e.request /\ f.shown = e.shown
           /\ f.step \in {"asking", "done"}
           /\ f.step = "asking" => f.at > e.at
           /\ Len(f.results) >= e.at /\ f.results[e.at] = outcome
<1> DEFINE r == e.request
           n == Len(r.targets)
           next == Following(r, e.at)
           refusals == [j \in 1 .. next - e.at - 1 |-> "refused"]
           f == Ended(e, outcome)
           told == Append(e.results, outcome)
<1>1. /\ IsRequest(r) /\ e.at \in 1..n /\ DOMAIN e = Fields
      /\ e.results \in Seq(Outcomes) /\ Len(e.results) = e.at - 1
  BY DEF IsEntry, AtWork
<1>2. n \in 1..MaxTargets /\ next \in e.at+1 .. n+1
  BY <1>1, FollowingIsLater DEF IsRequest
<1>3. n \in Nat /\ e.at \in Nat /\ next \in Nat /\ next - e.at - 1 \in Nat
  BY <1>1, <1>2 DEF MaxTargets
<1>4. told \in Seq(Outcomes) /\ Len(told) = e.at /\ told[e.at] = outcome
  BY <1>1, <1>3
<1>5. refusals \in Seq(Outcomes) /\ Len(refusals) = next - e.at - 1
  <2>1. "refused" \in Outcomes
    BY DEF Outcomes
  <2>2. refusals \in [1 .. next - e.at - 1 -> Outcomes]
    BY <2>1
  <2> QED
    BY <1>3, <2>2
<1>6. CASE outcome = "cancelled" /\ r.kind \in {"put", "link"}
  <2>1. f = [e EXCEPT !.step = "done", !.results = told]
    BY <1>6 DEF Ended
  <2>2. /\ DOMAIN f = Fields /\ f.step = "done" /\ f.results = told
        /\ f.request = r /\ f.shown = e.shown
    BY <1>1, <2>1 DEF Fields
  <2> QED
    BY <1>1, <1>3, <1>4, <2>2 DEF IsEntry, AtWork
<1>7. CASE ~(outcome = "cancelled" /\ r.kind \in {"put", "link"})
  <2>1. f = [e EXCEPT !.step = IF next > n THEN "done" ELSE "asking", !.at = next,
                      !.original = Nothing, !.results = told \o refusals]
    BY <1>7 DEF Ended
  <2>2. /\ DOMAIN f = Fields /\ f.results = told \o refusals /\ f.at = next
        /\ f.step = IF next > n THEN "done" ELSE "asking"
        /\ f.request = r /\ f.shown = e.shown
    BY <1>1, <2>1 DEF Fields
  <2> HIDE DEF f, told, refusals, next
  <2>3. /\ f.results \in Seq(Outcomes) /\ Len(f.results) = next - 1
        /\ f.results[e.at] = outcome
    <3>1. Len(told \o refusals) = next - 1
      BY <1>3, <1>4, <1>5
    <3>2. (told \o refusals)[e.at] = told[e.at]
      BY <1>1, <1>3, <1>4, <1>5
    <3> QED
      BY <1>4, <1>5, <2>2, <3>1, <3>2
  <2>4. f.step = "asking" => next \in 1..n
    BY <1>2, <1>3, <2>2
  <2>5. next > e.at /\ next - 1 >= e.at
    BY <1>2, <1>3
  <2>6. f.step \in {"asking", "done"}
    BY <2>2
  <2>7. IsEntry(f)
    BY <1>1, <2>2, <2>3, <2>4, <2>6 DEF IsEntry, AtWork
  <2> QED
    BY <2>2, <2>3, <2>5, <2>6, <2>7 DEF f, next
<1> QED
  BY <1>6, <1>7

-----------------------------------------------------------------------------
(* What each action does to the calls.                                     *)
Only(c) ==
    /\ DOMAIN call' = Calls
    /\ \A d \in Calls : d # c => call'[d] = call[d]

LEMMA PreviewMoves ==
    ASSUME ShapeInv, NEW c \in Calls, NEW r \in Requests[c], Preview(c, r)
    PROVE  /\ Only(c) /\ IsEntry(call'[c]) /\ call[c].step = "none" /\ r.kind = "put"
           /\ call'[c].step = "shown" /\ call'[c].request = r
           /\ call'[c].shown = Diff(device[r.targets[1]], r.values, Description, r.writeAll).values
<1> DEFINE shown == Diff(device[r.targets[1]], r.values, Description, r.writeAll).values
<1> HIDE DEF shown
<1>1. /\ r.kind = "put" /\ call[c] = Unborn
      /\ call' = [call EXCEPT ![c] = [@ EXCEPT !.step = "shown", !.request = r, !.shown = shown]]
  BY DEF Preview, shown
<1>2. Only(c) /\ call'[c] = [call[c] EXCEPT !.step = "shown", !.request = r, !.shown = shown]
  BY <1>1 DEF ShapeInv, Only
<1>3. DOMAIN call[c] = Fields /\ call[c].step = "none" /\ call[c].results = <<>>
  BY <1>1 DEF Unborn, Fields
<1>4. /\ DOMAIN call'[c] = Fields /\ call'[c].step = "shown" /\ call'[c].results = <<>>
      /\ call'[c].request = r /\ call'[c].shown = shown
  BY <1>2, <1>3 DEF Fields
<1>5. IsEntry(call'[c])
  BY <1>4, RequestsAreRequests DEF IsEntry, AtWork
<1> QED
  BY <1>1, <1>2, <1>3, <1>4, <1>5 DEF shown

LEMMA ConfirmMoves ==
    ASSUME ShapeInv, NEW c \in Calls, Confirm(c)
    PROVE  /\ Only(c) /\ IsEntry(call'[c]) /\ call[c].step = "shown"
           /\ call'[c].step = "asking" /\ call'[c].at = 1
           /\ call'[c].request = [call[c].request EXCEPT !.values = call[c].shown]
           /\ call'[c].shown = call[c].shown
<1> DEFINE r == [call[c].request EXCEPT !.values = call[c].shown]
<1>1. IsEntry(call[c]) /\ call[c].step = "shown" /\ IsRequest(call[c].request)
  BY DEF ShapeInv, Confirm, IsEntry
<1>2. /\ DOMAIN r = RequestFields /\ r.kind = call[c].request.kind
      /\ r.targets = call[c].request.targets
  BY <1>1 DEF IsRequest, RequestFields
<1>3. IsRequest(r)
  BY <1>1, <1>2 DEF IsRequest
<1>4. /\ Only(c)
      /\ call'[c] = [call[c] EXCEPT !.step = "asking", !.at = 1,
                                    !.request.values = call[c].shown]
  BY DEF ShapeInv, Confirm, Only
<1>5. /\ DOMAIN call'[c] = Fields /\ call'[c].step = "asking" /\ call'[c].at = 1
      /\ call'[c].request = r /\ call'[c].shown = call[c].shown
      /\ call'[c].results = <<>>
  BY <1>1, <1>4 DEF IsEntry, Fields
<1>6. 1 \in 1..Len(r.targets)
  BY <1>3, FirstTarget DEF IsRequest
<1>7. IsEntry(call'[c])
  BY <1>3, <1>5, <1>6 DEF IsEntry, AtWork
<1> QED
  BY <1>1, <1>4, <1>5, <1>7

LEMMA AskMoves ==
    ASSUME ShapeInv, NEW c \in Calls, NEW r \in Requests[c], Ask(c, r)
    PROVE  /\ Only(c) /\ IsEntry(call'[c]) /\ call[c].step = "none" /\ r.kind # "put"
           /\ call'[c].step = "asking" /\ call'[c].at = 1 /\ call'[c].request = r
<1>1. r.kind # "put" /\ call[c] = Unborn /\ IsRequest(r)
  BY RequestsAreRequests DEF Ask
<1>2. Only(c) /\ call'[c] = [call[c] EXCEPT !.step = "asking", !.at = 1, !.request = r]
  BY DEF ShapeInv, Ask, Only
<1>3. DOMAIN call[c] = Fields /\ call[c].step = "none" /\ call[c].results = <<>>
  BY <1>1 DEF Unborn, Fields
<1>4. /\ DOMAIN call'[c] = Fields /\ call'[c].step = "asking" /\ call'[c].at = 1
      /\ call'[c].results = <<>> /\ call'[c].request = r
  BY <1>2, <1>3 DEF Fields
<1>5. 1 \in 1..Len(r.targets)
  BY <1>1, FirstTarget DEF IsRequest
<1>6. IsEntry(call'[c])
  BY <1>1, <1>4, <1>5 DEF IsEntry, AtWork
<1> QED
  BY <1>1, <1>2, <1>3, <1>4, <1>6

LEMMA ReadMoves ==
    ASSUME ShapeInv, NEW c \in Calls, Read(c)
    PROVE  /\ Only(c) /\ IsEntry(call'[c]) /\ call[c].step = "asking"
           /\ call'[c].step = "answered" /\ call'[c].at = call[c].at
           /\ call'[c].request = call[c].request /\ call'[c].shown = call[c].shown
           /\ call'[c].results = call[c].results
<1>1. IsEntry(call[c]) /\ call[c].step = "asking"
  BY DEF ShapeInv, Read
<1>2. PICK read : call' = [call EXCEPT ![c] = [@ EXCEPT !.step = "answered", !.original = read]]
  BY DEF Read
<1>3. Only(c) /\ call'[c] = [call[c] EXCEPT !.step = "answered", !.original = read]
  BY <1>2 DEF ShapeInv, Only
<1>4. /\ DOMAIN call'[c] = Fields /\ call'[c].step = "answered" /\ call'[c].at = call[c].at
      /\ call'[c].request = call[c].request /\ call'[c].shown = call[c].shown
      /\ call'[c].results = call[c].results
  BY <1>1, <1>3 DEF IsEntry, Fields
<1>5. IsEntry(call'[c])
  BY <1>1, <1>4 DEF IsEntry, AtWork
<1> QED
  BY <1>1, <1>3, <1>4, <1>5

LEMMA WriteMoves ==
    ASSUME ShapeInv, NEW c \in Calls, Write(c)
    PROVE  /\ Only(c) /\ IsEntry(call'[c]) /\ call[c].step = "answered"
           /\ call'[c].step = "writing" /\ call'[c].at = call[c].at
           /\ call'[c].request = call[c].request /\ call'[c].shown = call[c].shown
           /\ call'[c].original = call[c].original /\ call'[c].results = call[c].results
<1>1. IsEntry(call[c]) /\ call[c].step = "answered"
  BY DEF ShapeInv, Write
<1>2. Only(c) /\ call'[c] = [call[c] EXCEPT !.step = "writing"]
  BY DEF ShapeInv, Only, Write
<1>3. /\ DOMAIN call'[c] = Fields /\ call'[c].step = "writing" /\ call'[c].at = call[c].at
      /\ call'[c].request = call[c].request /\ call'[c].shown = call[c].shown
      /\ call'[c].original = call[c].original /\ call'[c].results = call[c].results
  BY <1>1, <1>2 DEF IsEntry, Fields
<1>4. IsEntry(call'[c])
  BY <1>1, <1>3 DEF IsEntry, AtWork
<1> QED
  BY <1>1, <1>2, <1>3, <1>4

LEMMA OutcomesWorkedOut == \A c : WorkedOut(c) # "send" => WorkedOut(c) \in {"problems", "nothing"}
  BY DEF WorkedOut

LEMMA EndsMove ==
    ASSUME ShapeInv, NEW c \in Calls,
           \/ ReadFails(c)
           \/ NoWrite(c)
           \/ \E outcome \in {"resolved", "rejected"} : WriteEnds(c, outcome)
    PROVE  /\ Only(c) /\ call[c].step \in AtWork
           /\ \E outcome \in Outcomes : call'[c] = Ended(call[c], outcome)
<1>1. CASE ReadFails(c)
  BY <1>1 DEF ReadFails, ShapeInv, Only, AtWork, Outcomes
<1>2. CASE NoWrite(c)
  <2>1. WorkedOut(c) \in Outcomes
    BY <1>2, OutcomesWorkedOut DEF NoWrite, Outcomes
  <2> QED
    BY <1>2, <2>1 DEF NoWrite, ShapeInv, Only, AtWork
<1>3. CASE \E outcome \in {"resolved", "rejected"} : WriteEnds(c, outcome)
  BY <1>3 DEF WriteEnds, ShapeInv, Only, AtWork, Outcomes
<1> QED
  BY <1>1, <1>2, <1>3

LEMMA CancelMoves ==
    ASSUME ShapeInv, Cancel
    PROVE  /\ DOMAIN call' = Calls
           /\ \A c \in Calls :
                 \/ call'[c] = call[c]
                 \/ call[c].step = "writing" /\ call'[c] = Ended(call[c], "cancelled")
  BY DEF Cancel

LEMMA OthersStay ==
    ASSUME \/ PaceTimerFires \/ Tick
           \/ \E t \in DOMAIN sent : Applies(t)
           \/ \E f \in ForeignWrites : ForeignWrite(f[1], f[2], f[3])
           \/ UNCHANGED vars
    PROVE  call' = call /\ sent' = sent
  BY DEF PaceTimerFires, Tick, Applies, ForeignWrite, vars

-----------------------------------------------------------------------------
LEMMA ShapeInit == Init => ShapeInv
<1> SUFFICES ASSUME Init PROVE ShapeInv
  OBVIOUS
<1>1. IsEntry(Unborn)
  BY DEF IsEntry, Unborn, Fields, AtWork
<1> QED
  BY <1>1 DEF Init, ShapeInv

LEMMA ShapeStep == ShapeInv /\ [Next]_vars => ShapeInv'
<1> SUFFICES ASSUME ShapeInv, [Next]_vars PROVE ShapeInv'
  OBVIOUS
<1>0. \A c \in Calls : IsEntry(call'[c]) /\ Only(c) => ShapeInv'
  BY DEF ShapeInv, Only
<1>1. ASSUME NEW c \in Calls, NEW r \in Requests[c], Preview(c, r) PROVE ShapeInv'
  BY <1>0, <1>1, PreviewMoves
<1>2. ASSUME NEW c \in Calls, NEW r \in Requests[c], Ask(c, r) PROVE ShapeInv'
  BY <1>0, <1>2, AskMoves
<1>3. ASSUME NEW c \in Calls, Confirm(c) PROVE ShapeInv'
  BY <1>0, <1>3, ConfirmMoves
<1>4. ASSUME NEW c \in Calls, Read(c) PROVE ShapeInv'
  BY <1>0, <1>4, ReadMoves
<1>5. ASSUME NEW c \in Calls, Write(c) PROVE ShapeInv'
  BY <1>0, <1>5, WriteMoves
<1>6. ASSUME NEW c \in Calls,
             \/ ReadFails(c)
             \/ NoWrite(c)
             \/ \E outcome \in {"resolved", "rejected"} : WriteEnds(c, outcome)
      PROVE  ShapeInv'
  <2>1. IsEntry(call[c])
    BY DEF ShapeInv
  <2> QED
    BY <1>0, <1>6, <2>1, EndsMove, EndedMoves
<1>7. CASE Cancel
  <2>1. "cancelled" \in Outcomes
    BY DEF Outcomes
  <2>2. ASSUME NEW c \in Calls PROVE IsEntry(call'[c])
    BY <1>7, <2>1, CancelMoves, EndedMoves DEF ShapeInv, AtWork
  <2> QED
    BY <1>7, <2>2, CancelMoves DEF ShapeInv
<1>8. CASE \/ PaceTimerFires \/ Tick
           \/ \E t \in DOMAIN sent : Applies(t)
           \/ \E f \in ForeignWrites : ForeignWrite(f[1], f[2], f[3])
           \/ UNCHANGED vars
  BY <1>8, OthersStay DEF ShapeInv
<1> QED
  BY <1>1, <1>2, <1>3, <1>4, <1>5, <1>6, <1>7, <1>8 DEF Next

-----------------------------------------------------------------------------
(* The value asked for is on its way, or is what was read.                 *)
IsThere(p, r, original, values) ==
    \/ p \in DOMAIN values
    \/ /\ p \in DOMAIN original /\ p \in DOMAIN Description
       /\ Unwrap(Cast(original[p], Description[p])) = Unwrap(Cast(r.values[p], Description[p]))

(* diffParamset() leaves out what is unchanged, and nothing else.          *)
LEMMA DiffLeavesNothingOut ==
    ASSUME NEW r, NEW original, NEW w,
           Diff(original, r.values, Description, w).problems = {},
           NEW p \in DOMAIN r.values
    PROVE  IsThere(p, r, original, Diff(original, r.values, Description, w).values)
<1> DEFINE edited == r.values
           raw(q) == RawOf(original, edited, Description, q)
           considered == Considered(original, edited, Description, w)
           valid == {q \in considered : IsValid(Cast(raw(q), Description[q]), Description[q])}
           foreignTo == DOMAIN edited \ DOMAIN Description
           closed == {q \in DOMAIN edited \intersect DOMAIN Description : ~Description[q].writable}
<1>1. /\ Diff(original, edited, Description, w).problems
            = (considered \ valid) \union foreignTo \union closed
      /\ Diff(original, edited, Description, w).values
            = [q \in valid |-> Cast(raw(q), Description[q])]
  BY DEF Diff
<1>2. considered = {q \in Candidates(edited, Description, w) \intersect DOMAIN Description :
                       /\ Description[q].writable
                       /\ w \/ ~IsUnchanged(original, q, raw(q), Description[q])}
  BY DEF Considered
<1>3. p \in Candidates(edited, Description, w) /\ raw(p) = edited[p]
  BY DEF Candidates, RawOf
<1> HIDE DEF considered, raw
<1>4. p \in DOMAIN Description /\ Description[p].writable /\ considered \ valid = {}
  BY <1>1
<1>5. CASE p \in considered
  BY <1>1, <1>4, <1>5 DEF IsThere
<1>6. CASE p \notin considered
  <2>1. IsUnchanged(original, p, edited[p], Description[p])
    BY <1>2, <1>3, <1>4, <1>6
  <2> QED
    BY <1>4, <2>1 DEF IsUnchanged, IsThere
<1> QED
  BY <1>5, <1>6

LEMMA PayloadLeavesNothingOut ==
    ASSUME NEW r, r.kind \in {"put", "link", "value"}, NEW original,
           PayloadOf(r, original).problems = {}, NEW p \in DOMAIN r.values
    PROVE  IsThere(p, r, original, PayloadOf(r, original).values)
<1> DEFINE diff == Diff(original, r.values, Description, r.writeAll)
<1>1. CASE r.kind = "put"
  <2>1. PayloadOf(r, original) = diff
    BY <1>1 DEF PayloadOf
  <2> QED
    BY <2>1, DiffLeavesNothingOut
<1>2. CASE r.kind = "link"
  <2> DEFINE added == WithAlwaysSent(diff.values, r.values, Description, r.always)
  <2>1. PayloadOf(r, original) = [diff EXCEPT !.values = added]
    BY <1>2 DEF PayloadOf
  <2>2. DOMAIN diff = {"values", "problems"}
    BY DEF Diff
  <2>3. DOMAIN diff.values \subseteq DOMAIN added
    BY DEF WithAlwaysSent
  <2> HIDE DEF diff, added
  <2>4. PayloadOf(r, original).values = added /\ PayloadOf(r, original).problems = diff.problems
    BY <2>1, <2>2
  <2>5. IsThere(p, r, original, diff.values)
    BY <2>4, DiffLeavesNothingOut DEF diff
  <2> QED
    BY <2>3, <2>4, <2>5 DEF IsThere
<1>3. CASE r.kind = "value"
  <2> DEFINE unwritable == {q \in DOMAIN r.values :
                              \/ q \notin DOMAIN Description
                              \/ ~IsValid(Cast(r.values[q], Description[q]), Description[q])}
  <2>1. PayloadOf(r, original) =
           [problems |-> unwritable,
            values |-> [q \in DOMAIN r.values \ unwritable |-> Cast(r.values[q], Description[q])]]
    BY <1>3 DEF PayloadOf
  <2> HIDE DEF unwritable
  <2> QED
    BY <2>1 DEF IsThere
<1> QED
  BY <1>1, <1>2, <1>3

(* While a target is written, what is on its way is what was worked out.   *)
WritingInv ==
    \A c \in Calls : call[c].step = "writing" =>
        /\ PayloadOf(call[c].request, call[c].original).problems = {}
        /\ TaskOf(c) \in DOMAIN sent
        /\ sent[TaskOf(c)] = PayloadOf(call[c].request, call[c].original).values

LEMMA WritingStep ==
    ASSUME ShapeInv, WritingInv, [Next]_vars
    PROVE  WritingInv'
<1> DEFINE Good(c) == call'[c].step = "writing" => 
              /\ PayloadOf(call'[c].request, call'[c].original).problems = {}
              /\ TaskOf(c)' \in DOMAIN sent'
              /\ sent'[TaskOf(c)'] = PayloadOf(call'[c].request, call'[c].original).values
<1>0. ASSUME NEW c \in Calls, call'[c] = call[c], sent' = sent PROVE Good(c)
  BY <1>0 DEF WritingInv, TaskOf
<1>1. ASSUME NEW c \in Calls, Only(c), sent' = sent, call'[c].step # "writing"
      PROVE  WritingInv'
  <2>1. \A d \in Calls : Good(d)
    BY <1>0, <1>1 DEF Only
  <2> QED
    BY <2>1 DEF WritingInv
<1>2. ASSUME NEW c \in Calls,
             \/ \E r \in Requests[c] : Preview(c, r) \/ Ask(c, r)
             \/ Confirm(c) \/ Read(c)
      PROVE  WritingInv'
  <2>1. sent' = sent
    BY <1>2 DEF Preview, Ask, Confirm, Read
  <2>2. Only(c) /\ call'[c].step # "writing"
    BY <1>2, PreviewMoves, AskMoves, ConfirmMoves, ReadMoves
  <2> QED
    BY <1>1, <2>1, <2>2
<1>3. ASSUME NEW c \in Calls,
             \/ ReadFails(c)
             \/ NoWrite(c)
             \/ \E outcome \in {"resolved", "rejected"} : WriteEnds(c, outcome)
      PROVE  WritingInv'
  <2>1. sent' = sent
    BY <1>3 DEF ReadFails, NoWrite, WriteEnds
  <2>2. Only(c) /\ call'[c].step # "writing"
    BY <1>3, EndsMove, EndedMoves DEF ShapeInv
  <2> QED
    BY <1>1, <2>1, <2>2
<1>4. ASSUME NEW c \in Calls, Write(c) PROVE WritingInv'
  <2> DEFINE payload == PayloadOf(call[c].request, call[c].original)
  <2>1. /\ sent' = [t \in DOMAIN sent \union {TaskOf(c)} |->
                       IF t = TaskOf(c) THEN payload.values ELSE sent[t]]
        /\ WorkedOut(c) = "send"
    BY <1>4 DEF Write
  <2>2. payload.problems = {}
    BY <2>1 DEF WorkedOut
  <2>3. /\ Only(c) /\ call'[c].at = call[c].at /\ call'[c].request = call[c].request
        /\ call'[c].original = call[c].original
    BY <1>4, WriteMoves
  <2> HIDE DEF payload
  <2>4. Good(c)
    <3>1. PayloadOf(call'[c].request, call'[c].original) = payload
      BY <2>3 DEF payload
    <3>2. TaskOf(c)' = TaskOf(c)
      BY <2>3 DEF TaskOf
    <3>3. TaskOf(c) \in DOMAIN sent' /\ sent'[TaskOf(c)] = payload.values
      BY <2>1
    <3> QED
      BY <2>2, <3>1, <3>2, <3>3
  <2>5. ASSUME NEW d \in Calls, d # c PROVE Good(d)
    <3>1. call'[d] = call[d]
      BY <2>3, <2>5 DEF Only
    <3>2. TaskOf(d)' = TaskOf(d) /\ TaskOf(d) # TaskOf(c)
      BY <2>5, <3>1 DEF TaskOf
    <3>3. TaskOf(d) \in DOMAIN sent =>
              TaskOf(d) \in DOMAIN sent' /\ sent'[TaskOf(d)] = sent[TaskOf(d)]
      BY <2>1, <3>2
    <3> QED
      BY <3>1, <3>2, <3>3 DEF WritingInv
  <2>6. \A d \in Calls : Good(d)
    BY <2>4, <2>5
  <2> QED
    BY <2>6 DEF WritingInv
<1>5. CASE Cancel
  <2>1. sent' = sent /\ "cancelled" \in Outcomes
    BY <1>5 DEF Cancel, Outcomes
  <2>2. ASSUME NEW c \in Calls PROVE Good(c)
    <3>1. CASE call'[c] = call[c]
      BY <1>0, <2>1, <3>1
    <3>2. CASE call[c].step = "writing" /\ call'[c] = Ended(call[c], "cancelled")
      BY <2>1, <3>2, EndedMoves DEF ShapeInv, AtWork
    <3> QED
      BY <1>5, <3>1, <3>2, CancelMoves
  <2> QED
    BY <2>2 DEF WritingInv
<1>6. CASE \/ PaceTimerFires \/ Tick
           \/ \E t \in DOMAIN sent : Applies(t)
           \/ \E f \in ForeignWrites : ForeignWrite(f[1], f[2], f[3])
           \/ UNCHANGED vars
  BY <1>6, OthersStay DEF WritingInv, TaskOf
<1> QED
  BY <1>2, <1>3, <1>4, <1>5, <1>6 DEF Next

(* A result that was not there before is that of an end, or of a Cancel.   *)
LEMMA ResultsComeFromEnds ==
    ASSUME ShapeInv, [Next]_vars, NEW c \in Working,
           Len(call'[c].results) >= call[c].at
    PROVE  \/ ReadFails(c)
           \/ NoWrite(c)
           \/ \E outcome \in {"resolved", "rejected"} : WriteEnds(c, outcome)
           \/ Cancel /\ call'[c] = Ended(call[c], "cancelled")
<1>1. /\ c \in Calls /\ call[c].step \in AtWork
      /\ call[c].at \in Nat /\ Len(call[c].results) = call[c].at - 1
  <2>1. c \in Calls /\ call[c].step \in AtWork
    BY DEF Working, AtWork
  <2>2. IsRequest(call[c].request) /\ call[c].at \in 1..Len(call[c].request.targets)
    BY <2>1 DEF ShapeInv, IsEntry, AtWork
  <2>3. Len(call[c].request.targets) \in 1..3
    BY <2>2 DEF IsRequest, MaxTargets
  <2>4. call[c].at \in Nat
    BY <2>2, <2>3
  <2>5. Len(call[c].results) = call[c].at - 1
    BY <2>1 DEF ShapeInv, IsEntry
  <2> QED
    BY <2>1, <2>4, <2>5
<1>2. call'[c].results # call[c].results
  BY <1>1
<1>3. ASSUME NEW d \in Calls,
             \/ \E r \in Requests[d] : Preview(d, r) \/ Ask(d, r)
             \/ Confirm(d) \/ Read(d) \/ Write(d)
      PROVE  FALSE
  <2>1. Only(d) /\ (call[d].step \in AtWork => call'[d].results = call[d].results)
    BY <1>3, PreviewMoves, AskMoves, ConfirmMoves, ReadMoves, WriteMoves DEF AtWork
  <2> QED
    BY <1>1, <1>2, <2>1 DEF Only
<1>4. ASSUME NEW d \in Calls, d # c,
             \/ ReadFails(d)
             \/ NoWrite(d)
             \/ \E outcome \in {"resolved", "rejected"} : WriteEnds(d, outcome)
      PROVE  FALSE
  <2>1. Only(d)
    BY <1>4, EndsMove
  <2> QED
    BY <1>1, <1>2, <1>4, <2>1 DEF Only
<1>5. CASE Cancel
  BY <1>1, <1>2, <1>5, CancelMoves
<1>6. CASE \/ PaceTimerFires \/ Tick
           \/ \E t \in DOMAIN sent : Applies(t)
           \/ \E f \in ForeignWrites : ForeignWrite(f[1], f[2], f[3])
           \/ UNCHANGED vars
  BY <1>2, <1>6, OthersStay
<1> QED
  BY <1>3, <1>4, <1>5, <1>6 DEF Next

TypesAreKnown == \A p \in DOMAIN Description : Description[p].TYPE \in Types

(* What a target holds and what is not sent is the value asked for, or     *)
(* only reads like it.                                                     *)
LEMMA LeftOutAsRead ==
    ASSUME SoundDescription, TypesAreKnown, NEW c, HaveTheirNumbers(call[c].original), NEW p,
           IsThere(p, call[c].request, call[c].original, Nothing)
    PROVE  AsAsked(c, p)
<1> DEFINE d == Description[p]
           v == Cast(call[c].request.values[p], d)
           stored == call[c].original[p]
<1>1. /\ p \in DOMAIN call[c].original /\ p \in DOMAIN Description
      /\ Unwrap(Cast(stored, d)) = Unwrap(v)
  BY DEF IsThere, Nothing
<1>2. HasItsNumber(stored) /\ d.VALUE_LIST \in Seq(STRING) /\ d.TYPE \in Types
  BY <1>1 DEF HaveTheirNumbers, SoundDescription, TypesAreKnown
<1> HIDE DEF d, v, stored
<1>3. IsTheValue(stored, v, d) \/ OnlyReadsLike(stored, v, d)
  BY <1>1, <1>2, ValidIsTheValue DEF OnlyReadsLike
<1> QED
  BY <1>1, <1>3 DEF AsAsked, d, v, stored

(* What a call was answered as ok is true of every value it asked for.     *)
LEMMA OkStep ==
    ASSUME ShapeInv, WritingInv, [Next]_vars, NEW c \in Working,
           call[c].request.kind # "repair",
           Len(call'[c].results) >= call[c].at, IsOk(call'[c].results[call[c].at]),
           NEW p \in DOMAIN call[c].request.values,
           SoundDescription, TypesAreKnown,
           call[c].step \in {"answered", "writing"} => HaveTheirNumbers(call[c].original)
    PROVE  AsAsked(c, p)
<1> DEFINE r == call[c].request
           payload == PayloadOf(r, call[c].original)
<1>1. c \in Calls /\ call[c].step \in AtWork /\ IsEntry(call[c]) /\ DOMAIN call = Calls
  BY DEF Working, AtWork, ShapeInv
<1>2. r.kind \in {"put", "link", "value"}
  BY <1>1 DEF IsEntry, IsRequest, Kinds, AtWork
<1>3. ASSUME NEW outcome \in Outcomes, call'[c] = Ended(call[c], outcome)
      PROVE  outcome \in {"written", "nothing"}
  BY <1>1, <1>3, EndedMoves DEF IsOk
<1>4. payload.problems = {} => IsThere(p, r, call[c].original, payload.values)
  BY <1>2, PayloadLeavesNothingOut
<1> HIDE DEF payload
<1>5. CASE ReadFails(c)
  <2>1. "unread" \in Outcomes /\ call'[c] = Ended(call[c], "unread")
    BY <1>1, <1>5 DEF ReadFails, Outcomes
  <2> QED
    BY <1>3, <2>1
<1>6. CASE NoWrite(c)
  <2>1. call'[c] = Ended(call[c], WorkedOut(c)) /\ WorkedOut(c) # "send"
    BY <1>1, <1>6 DEF NoWrite
  <2>2. WorkedOut(c) = "nothing"
    BY <1>3, <2>1, OutcomesWorkedOut DEF Outcomes
  <2>3. payload.problems = {} /\ payload.values = Nothing
    BY <2>2 DEF WorkedOut, payload
  <2>4. HaveTheirNumbers(call[c].original)
    BY <1>6 DEF NoWrite
  <2> QED
    BY <1>4, <2>3, <2>4, LeftOutAsRead
<1>7. CASE \E outcome \in {"resolved", "rejected"} : WriteEnds(c, outcome)
  <2>1. PICK outcome \in {"resolved", "rejected"} : WriteEnds(c, outcome)
    BY <1>7
  <2>2. /\ call'[c] = Ended(call[c], IF outcome = "resolved" THEN "written" ELSE "failed")
        /\ outcome = "resolved" => TaskOf(c) \in applied
        /\ call[c].step = "writing"
    BY <1>1, <2>1 DEF WriteEnds
  <2>3. outcome = "resolved"
    BY <1>3, <2>1, <2>2 DEF Outcomes
  <2>4. payload.problems = {} /\ sent[TaskOf(c)] = payload.values
    BY <1>1, <2>2 DEF WritingInv, payload
  <2>5. CASE p \in DOMAIN payload.values
    BY <2>2, <2>3, <2>4, <2>5 DEF AsAsked
  <2>6. CASE p \notin DOMAIN payload.values
    <3>1. IsThere(p, r, call[c].original, Nothing)
      BY <1>4, <2>4, <2>6 DEF IsThere
    <3> QED
      BY <2>2, <3>1, LeftOutAsRead
  <2> QED
    BY <2>5, <2>6
<1>8. CASE Cancel /\ call'[c] = Ended(call[c], "cancelled")
  BY <1>3, <1>8 DEF Outcomes
<1> QED
  BY <1>1, <1>5, <1>6, <1>7, <1>8, ResultsComeFromEnds

-----------------------------------------------------------------------------
LEMMA TasksOfCalls ==
    ASSUME ShapeInv, NEW c \in Calls, call[c].step \in AtWork
    PROVE  TaskOf(c) \in Tasks
<1>1. IsRequest(call[c].request) /\ call[c].at \in 1..Len(call[c].request.targets)
  BY DEF ShapeInv, IsEntry, AtWork
<1> DEFINE n == Len(call[c].request.targets)
<1>2. n \in 1..3 /\ call[c].at \in 1..n
  BY <1>1 DEF IsRequest, MaxTargets
<1> HIDE DEF n
<1>3. call[c].at \in 1..MaxTargets
  BY <1>2 DEF MaxTargets
<1> QED
  BY <1>3 DEF TaskOf, Tasks

(* Saving and repairing use the write queue as it is meant to be used:     *)
(* whatever the calls, the Cancels and the interface process do, what the  *)
(* queue goes through is a behaviour of WriteQueue, so what is proved of   *)
(* that - one write at a time, the pace between two - holds for the calls. *)
THEOREM UsesTheQueue == Spec => Q!Spec
<1>1. Init => ShapeInv /\ Q!Init
  BY ShapeInit DEF Init
<1>2. ShapeInv /\ [Next]_vars => ShapeInv'
  BY ShapeStep
<1>3. ShapeInv /\ [Next]_vars => [Q!Next]_(Q!vars)
  <2> SUFFICES ASSUME ShapeInv, [Next]_vars PROVE Q!Next \/ UNCHANGED Q!vars
    OBVIOUS
  <2>1. ASSUME NEW c \in Calls,
               \/ \E r \in Requests[c] : Preview(c, r) \/ Ask(c, r)
               \/ Confirm(c) \/ Read(c) \/ ReadFails(c) \/ NoWrite(c)
        PROVE  UNCHANGED Q!vars
    BY <2>1 DEF Preview, Ask, Confirm, Read, ReadFails, NoWrite, queueVars, Q!vars
  <2>2. ASSUME NEW c \in Calls, Write(c) PROVE Q!Next
    <3>1. Q!Enqueue(Line, TaskOf(c)) /\ call[c].step \in AtWork
      BY <2>2 DEF Write, AtWork
    <3> QED
      BY <3>1, TasksOfCalls DEF Q!Next
  <2>3. ASSUME NEW c \in Calls, NEW outcome \in {"resolved", "rejected"}, WriteEnds(c, outcome)
        PROVE  Q!Next
    <3>1. Q!Settle(Line, outcome)
      BY <2>3 DEF WriteEnds
    <3> QED
      BY <3>1 DEF Q!Next
  <2>4. CASE Cancel
    <3>1. Q!Cancel({Line})
      BY <2>4 DEF Cancel
    <3> QED
      BY <3>1 DEF Q!Next
  <2>5. CASE PaceTimerFires
    <3>1. Q!TimerFires(Line)
      BY <2>5 DEF PaceTimerFires
    <3> QED
      BY <3>1 DEF Q!Next
  <2>6. CASE Tick
    BY <2>6 DEF Tick, Q!Next
  <2>7. CASE \/ \E t \in DOMAIN sent : Applies(t)
             \/ \E f \in ForeignWrites : ForeignWrite(f[1], f[2], f[3])
             \/ UNCHANGED vars
    BY <2>7 DEF Applies, ForeignWrite, vars, queueVars, Q!vars
  <2> QED
    BY <2>1, <2>2, <2>3, <2>4, <2>5, <2>6, <2>7 DEF Next
<1> QED
  BY <1>1, <1>2, <1>3, PTL DEF Spec, Q!Spec

QP == INSTANCE WriteQueueProofs WITH Interfaces <- {Line}, Pace <- [i \in {Line} |-> Gap]

LEMMA PaceIsGap == Q!PaceAssumption
  BY BoundsAssumption DEF Q!PaceAssumption

(* The queue of WriteQueueProofs is the queue of ParamsetWriter.           *)
LEMMA OneQueue ==
    /\ Q!Init <=> QP!Init
    /\ [Q!Next]_(Q!vars) <=> [QP!Next]_(QP!vars)
    /\ Q!OneAtATime <=> QP!OneAtATime
    /\ Q!TypeOK <=> QP!TypeOK
<1>1. Q!Init <=> QP!Init
  BY DEF Q!Init, QP!Init
<1>2. UNCHANGED Q!vars <=> UNCHANGED QP!vars
  BY DEF Q!vars, QP!vars
<1>3. ASSUME NEW i, NEW q, NEW busy, NEW alive
      PROVE  Q!Drain(i, q, busy, alive) <=> QP!Drain(i, q, busy, alive)
  BY DEF Q!Drain, QP!Drain, Q!NothingToStart, QP!NothingToStart, Q!Run, QP!Run, Q!WaitFor, QP!WaitFor
<1>4. ASSUME NEW i, NEW t PROVE Q!Enqueue(i, t) <=> QP!Enqueue(i, t)
  BY <1>3 DEF Q!Enqueue, QP!Enqueue
<1>5. ASSUME NEW i, NEW t PROVE Q!Settle(i, t) <=> QP!Settle(i, t)
  BY <1>3 DEF Q!Settle, QP!Settle
<1>6. ASSUME NEW i PROVE Q!TimerFires(i) <=> QP!TimerFires(i)
  BY DEF Q!TimerFires, QP!TimerFires, Q!Run, QP!Run
<1>7. ASSUME NEW i PROVE Q!Cancel(i) <=> QP!Cancel(i)
  BY DEF Q!Cancel, QP!Cancel, Q!CancelledIn, QP!CancelledIn
<1>8. Q!Tick <=> QP!Tick
  BY DEF Q!Tick, QP!Tick
<1>9. Q!Next <=> QP!Next
  BY <1>4, <1>5, <1>6, <1>7, <1>8 DEF Q!Next, QP!Next
<1>10. Q!OneAtATime <=> QP!OneAtATime
  BY DEF Q!OneAtATime, QP!OneAtATime
<1>11. Q!TypeOK <=> QP!TypeOK
  BY DEF Q!TypeOK, QP!TypeOK, Q!PromiseStates, QP!PromiseStates
<1> QED
  BY <1>1, <1>2, <1>9, <1>10, <1>11

(* At most one write of the interface is under way, whichever calls the    *)
(* writes are of: a save, a repair and a link do not interleave on the     *)
(* radio.                                                                  *)
THEOREM CallsDoNotOverlap == Spec => [](Q!OneAtATime /\ Q!TypeOK)
<1>1. QP!Spec => []QP!OneAtATime /\ []QP!TypeOK
  BY PaceIsGap, QP!WritesDoNotOverlap, QP!TypeCorrect DEF Q!PaceAssumption, QP!PaceAssumption
<1>2. Q!Spec => QP!Spec
  BY OneQueue, PTL DEF Q!Spec, QP!Spec
<1>3. QP!OneAtATime /\ QP!TypeOK => Q!OneAtATime /\ Q!TypeOK
  BY OneQueue
<1> QED
  BY <1>1, <1>2, <1>3, UsesTheQueue, PTL

-----------------------------------------------------------------------------
CountsInv ==
    /\ applied \subseteq DOMAIN sent /\ DOMAIN sent \subseteq Tasks
    /\ cancels \in 0..MaxCancels /\ foreign \in 0..MaxForeign

LEMMA CountsStep ==
    ASSUME ShapeInv, CountsInv, [Next]_vars
    PROVE  CountsInv'
<1>1. ASSUME NEW c \in Calls,
             \/ \E r \in Requests[c] : Preview(c, r) \/ Ask(c, r)
             \/ Confirm(c) \/ Read(c) \/ ReadFails(c) \/ NoWrite(c)
             \/ \E outcome \in {"resolved", "rejected"} : WriteEnds(c, outcome)
      PROVE  CountsInv'
  BY <1>1 DEF Preview, Ask, Confirm, Read, ReadFails, NoWrite, WriteEnds, CountsInv
<1>2. ASSUME NEW c \in Calls, Write(c) PROVE CountsInv'
  <2>1. /\ DOMAIN sent' = DOMAIN sent \union {TaskOf(c)}
        /\ UNCHANGED <<applied, cancels, foreign>>
    BY <1>2 DEF Write
  <2>2. TaskOf(c) \in Tasks
    BY <1>2, TasksOfCalls DEF Write, AtWork
  <2> QED
    BY <2>1, <2>2 DEF CountsInv
<1>3. CASE Cancel
  <2>1. cancels' \in 0..MaxCancels /\ UNCHANGED <<sent, applied, foreign>>
    BY <1>3, BoundsAssumption DEF Cancel, CountsInv
  <2> QED
    BY <2>1 DEF CountsInv
<1>4. ASSUME NEW t \in DOMAIN sent, Applies(t) PROVE CountsInv'
  <2>1. applied' = applied \union {t} /\ UNCHANGED <<sent, cancels, foreign>>
    BY <1>4 DEF Applies
  <2> QED
    BY <2>1 DEF CountsInv
<1>5. ASSUME NEW channel, NEW p, NEW v, ForeignWrite(channel, p, v) PROVE CountsInv'
  <2>1. foreign' \in 0..MaxForeign /\ UNCHANGED <<sent, applied, cancels>>
    BY <1>5, BoundsAssumption DEF ForeignWrite, CountsInv
  <2> QED
    BY <2>1 DEF CountsInv
<1>6. CASE PaceTimerFires \/ Tick \/ UNCHANGED vars
  BY <1>6 DEF PaceTimerFires, Tick, vars, CountsInv
<1> QED
  BY <1>1, <1>2, <1>3, <1>4, <1>5, <1>6 DEF Next

(* A call in its course has one result for each target it is through with, *)
(* however the targets were answered, refused or skipped.                  *)
THEOREM TypeCorrect == Spec => []TypeOK
<1>1. Init => ShapeInv /\ CountsInv
  <2>1. Init => CountsInv
    BY BoundsAssumption DEF Init, CountsInv, Nothing
  <2> QED
    BY <2>1, ShapeInit
<1>2. ShapeInv /\ CountsInv /\ [Next]_vars => (ShapeInv /\ CountsInv)'
  BY ShapeStep, CountsStep
<1>3. ShapeInv /\ CountsInv /\ Q!TypeOK => TypeOK
  <2> SUFFICES ASSUME ShapeInv, CountsInv, Q!TypeOK PROVE TypeOK
    OBVIOUS
  <2>1. ASSUME NEW c \in Calls
        PROVE  /\ call[c].step \in {"none", "shown", "asking", "answered", "writing", "done"}
               /\ \A k \in DOMAIN call[c].results : call[c].results[k] \in Outcomes
               /\ call[c].step \in {"asking", "answered", "writing"} =>
                     Len(call[c].results) = call[c].at - 1
    BY DEF ShapeInv, IsEntry, AtWork
  <2> QED
    BY <2>1 DEF CountsInv, TypeOK
<1> QED
  BY <1>1, <1>2, <1>3, CallsDoNotOverlap, PTL DEF Spec

-----------------------------------------------------------------------------
(* What the clients hand over, and what the devices hold at first, has its *)
(* numbers; another client writes a writable parameter as its description  *)
(* admits it.  What the devices hold at first need not be valid.           *)
SoundClients ==
    /\ \A s \in Stored : \A channel \in Channels : HaveTheirNumbers(s[channel])
    /\ \A c \in Calls : \A r \in Requests[c] : HaveTheirNumbers(r.values)
    /\ \A f \in ForeignWrites :
          /\ HasItsNumber(f[3])
          /\ f[2] \in DOMAIN Description /\ Description[f[2]].writable =>
                IsValid(f[3], Description[f[2]])

(* A call that is at work goes on with its request.                        *)
Begun(e) == e.step \notin {"none", "shown"}
KeepsRequest(e, f) == Begun(e) => Begun(f) /\ f.request = e.request

HasNumbers(e) ==
    /\ e.step # "none" => HaveTheirNumbers(e.request.values)
    /\ e.step = "shown" => HaveTheirNumbers(e.shown)
    /\ e.step \in {"answered", "writing"} => HaveTheirNumbers(e.original)

NumbersInv ==
    /\ DOMAIN device = Channels
    /\ \A channel \in Channels : HaveTheirNumbers(device[channel])
    /\ \A c \in Calls : HasNumbers(call[c])

Fallbacks == {p \in DOMAIN Description :
                 Description[p].writable /\ FallbackValue(Description[p]) # {}}

(* No target is sent a value its description does not admit, and a repair  *)
(* sends one for every parameter that has a fallback.                      *)
SentIsValid == \A t \in DOMAIN sent : AreValid(sent[t])

SentInv ==
    /\ SentIsValid
    /\ \A t \in DOMAIN sent :
          /\ t[1] \in Calls /\ Begun(call[t[1]])
          /\ t[2] \in 1..Len(call[t[1]].request.targets)
          /\ HaveTheirNumbers(sent[t])
          /\ call[t[1]].request.kind = "repair" => Fallbacks \subseteq DOMAIN sent[t]

(* What a repair has applied is still valid, and a target counts as        *)
(* written when its write was applied.                                     *)
RepairedInv ==
    /\ \A t \in applied :
          call[t[1]].request.kind = "repair" => AllValid(call[t[1]].request.targets[t[2]])
    /\ \A c \in Calls : \A k \in DOMAIN call[c].results :
          call[c].results[k] = "written" => <<c, k>> \in applied

(* Only the target that ended has another result than "refused".           *)
LEMMA EndedResults ==
    ASSUME NEW e, IsEntry(e), e.step \in AtWork, NEW outcome \in Outcomes,
           NEW k \in DOMAIN Ended(e, outcome).results
    PROVE  \/ k = e.at
           \/ Ended(e, outcome).results[k] = "refused"
           \/ k \in DOMAIN e.results /\ Ended(e, outcome).results[k] = e.results[k]
<1> DEFINE r == e.request
           n == Len(r.targets)
           next == Following(r, e.at)
           refusals == [j \in 1 .. next - e.at - 1 |-> "refused"]
           told == Append(e.results, outcome)
           f == Ended(e, outcome)
<1>1. /\ IsRequest(r) /\ e.at \in 1..n /\ DOMAIN e = Fields
      /\ e.results \in Seq(Outcomes) /\ Len(e.results) = e.at - 1
  BY DEF IsEntry, AtWork
<1>2. n \in 1..MaxTargets /\ next \in e.at+1 .. n+1
  BY <1>1, FollowingIsLater DEF IsRequest
<1>3. e.at \in Nat /\ next \in Nat /\ next - e.at - 1 \in Nat
  BY <1>1, <1>2 DEF MaxTargets
<1>4. \/ f.results = told
      \/ f.results = told \o refusals
  <2>1. \/ f = [e EXCEPT !.step = "done", !.results = told]
        \/ f = [e EXCEPT !.step = IF next > n THEN "done" ELSE "asking", !.at = next,
                         !.original = Nothing, !.results = told \o refusals]
    BY DEF Ended
  <2> HIDE DEF f, told, refusals, next, n
  <2> QED
    BY <1>1, <2>1 DEF Fields
<1>5. /\ told \in Seq(Outcomes) /\ Len(told) = e.at
      /\ \A j \in 1..e.at : j = e.at \/ (j \in DOMAIN e.results /\ told[j] = e.results[j])
  <2>1. told \in Seq(Outcomes) /\ Len(told) = e.at
    BY <1>1, <1>3
  <2>2. ASSUME NEW j \in 1..e.at, j # e.at
        PROVE  j \in DOMAIN e.results /\ told[j] = e.results[j]
    <3>1. j \in 1..Len(e.results)
      BY <1>1, <1>3, <2>2
    <3> QED
      BY <1>1, <3>1
  <2> QED
    BY <2>1, <2>2
<1>6. /\ refusals \in Seq(Outcomes) /\ Len(refusals) = next - e.at - 1
      /\ \A j \in 1..Len(refusals) : refusals[j] = "refused"
  <2>1. "refused" \in Outcomes
    BY DEF Outcomes
  <2>2. refusals \in [1 .. next - e.at - 1 -> Outcomes]
    BY <2>1
  <2> QED
    BY <1>3, <2>2
<1> HIDE DEF told, refusals, next, f
<1>7. CASE f.results = told
  <2>1. k \in 1..e.at
    BY <1>3, <1>5, <1>7 DEF f
  <2> QED
    BY <1>5, <1>7, <2>1 DEF f
<1>8. CASE f.results = told \o refusals
  <2>1. k \in 1..(e.at + (next - e.at - 1))
    BY <1>3, <1>5, <1>6, <1>8 DEF f
  <2>2. CASE k <= e.at
    <3>1. f.results[k] = told[k] /\ k \in 1..e.at
      BY <1>3, <1>5, <1>6, <1>8, <2>1, <2>2
    <3> QED
      BY <1>5, <3>1 DEF f
  <2>3. CASE k > e.at
    <3>1. f.results[k] = refusals[k - e.at] /\ k - e.at \in 1..Len(refusals)
      BY <1>3, <1>5, <1>6, <1>8, <2>1, <2>3
    <3> QED
      BY <1>6, <3>1 DEF f
  <2> QED
    BY <1>3, <2>1, <2>2, <2>3
<1> QED
  BY <1>4, <1>7, <1>8

LEMMA CancelledIsAnOutcome == "cancelled" \in Outcomes
  BY DEF Outcomes

LEMMA RequestsStay ==
    ASSUME ShapeInv, [Next]_vars, NEW c \in Calls
    PROVE  KeepsRequest(call[c], call'[c])
<1>1. ASSUME NEW d \in Calls,
             \/ \E r \in Requests[d] : Preview(d, r) \/ Ask(d, r)
             \/ Confirm(d) \/ Read(d) \/ Write(d)
      PROVE  KeepsRequest(call[c], call'[c])
  <2>1. Only(d)
    BY <1>1, PreviewMoves, AskMoves, ConfirmMoves, ReadMoves, WriteMoves
  <2>2. KeepsRequest(call[d], call'[d])
    BY <1>1, PreviewMoves, AskMoves, ConfirmMoves, ReadMoves, WriteMoves DEF KeepsRequest, Begun
  <2> QED
    BY <2>1, <2>2 DEF Only, KeepsRequest
<1>2. ASSUME NEW d \in Calls,
             \/ ReadFails(d)
             \/ NoWrite(d)
             \/ \E outcome \in {"resolved", "rejected"} : WriteEnds(d, outcome)
      PROVE  KeepsRequest(call[c], call'[c])
  <2>1. Only(d) /\ KeepsRequest(call[d], call'[d])
    BY <1>2, EndsMove, EndedMoves DEF KeepsRequest, Begun, ShapeInv
  <2> QED
    BY <2>1 DEF Only, KeepsRequest
<1>3. CASE Cancel
  <2>1. CASE call'[c] = call[c]
    BY <2>1 DEF KeepsRequest
  <2>2. CASE call[c].step = "writing" /\ call'[c] = Ended(call[c], "cancelled")
    BY <2>2, EndedMoves, CancelledIsAnOutcome DEF KeepsRequest, Begun, ShapeInv, AtWork
  <2> QED
    BY <1>3, <2>1, <2>2, CancelMoves
<1>4. CASE \/ PaceTimerFires \/ Tick
           \/ \E t \in DOMAIN sent : Applies(t)
           \/ \E f \in ForeignWrites : ForeignWrite(f[1], f[2], f[3])
           \/ UNCHANGED vars
  BY <1>4, OthersStay DEF KeepsRequest
<1> QED
  BY <1>1, <1>2, <1>3, <1>4 DEF Next

(* A new "written" is that of a write the interface process worked off.    *)
LEMMA WrittenIsApplied ==
    ASSUME ShapeInv, [Next]_vars, NEW c \in Calls, NEW k \in DOMAIN call'[c].results,
           call'[c].results[k] = "written"
    PROVE  \/ k \in DOMAIN call[c].results /\ call[c].results[k] = "written"
           \/ <<c, k>> \in applied
<1> DEFINE Goal == \/ k \in DOMAIN call[c].results /\ call[c].results[k] = "written"
                   \/ <<c, k>> \in applied
<1>0. ASSUME call'[c].results = call[c].results PROVE Goal
  BY <1>0
<1>1. ASSUME NEW outcome \in Outcomes, call[c].step \in AtWork,
             call'[c] = Ended(call[c], outcome),
             outcome = "written" => TaskOf(c) \in applied
      PROVE  Goal
  <2>1. IsEntry(call[c])
    BY DEF ShapeInv
  <2>2. \/ k = call[c].at
        \/ k \in DOMAIN call[c].results /\ call'[c].results[k] = call[c].results[k]
    BY <1>1, <2>1, EndedResults
  <2>3. call'[c].results[call[c].at] = outcome
    BY <1>1, <2>1, EndedMoves
  <2> QED
    BY <1>1, <2>2, <2>3 DEF TaskOf
<1>2. ASSUME NEW d \in Calls,
             \/ \E r \in Requests[d] : Preview(d, r) \/ Ask(d, r)
             \/ Confirm(d) \/ Read(d) \/ Write(d)
      PROVE  Goal
  <2>1. Only(d)
    BY <1>2, PreviewMoves, AskMoves, ConfirmMoves, ReadMoves, WriteMoves
  <2>2. CASE Read(d) \/ Write(d)
    BY <1>0, <2>1, <2>2, ReadMoves, WriteMoves DEF Only
  <2>3. CASE Confirm(d) \/ \E r \in Requests[d] : Preview(d, r) \/ Ask(d, r)
    <3>1. \/ call'[d].step = "shown"
          \/ call'[d].step = "asking" /\ call'[d].at = 1
      BY <2>3, PreviewMoves, AskMoves, ConfirmMoves
    <3>2. IsEntry(call'[d])
      BY <2>3, PreviewMoves, AskMoves, ConfirmMoves
    <3>3. DOMAIN call'[d].results = {}
      BY <3>1, <3>2 DEF IsEntry, AtWork
    <3>4. d # c
      BY <3>3
    <3> QED
      BY <1>0, <2>1, <3>4 DEF Only
  <2> QED
    BY <1>2, <2>2, <2>3
<1>3. ASSUME NEW d \in Calls,
             \/ ReadFails(d)
             \/ NoWrite(d)
             \/ \E outcome \in {"resolved", "rejected"} : WriteEnds(d, outcome)
      PROVE  Goal
  <2>1. Only(d) /\ call[d].step \in AtWork
    BY <1>3, EndsMove
  <2>2. CASE d # c
    BY <1>0, <2>1, <2>2 DEF Only
  <2>3. CASE d = c /\ ReadFails(c)
    <3>1. call'[c] = Ended(call[c], "unread")
      BY <2>3 DEF ReadFails, ShapeInv
    <3> QED
      BY <1>1, <2>1, <2>3, <3>1 DEF Outcomes
  <2>4. CASE d = c /\ NoWrite(c)
    <3>1. call'[c] = Ended(call[c], WorkedOut(c)) /\ WorkedOut(c) \in {"problems", "nothing"}
      BY <2>4, OutcomesWorkedOut DEF NoWrite, ShapeInv
    <3> QED
      BY <1>1, <2>1, <2>4, <3>1 DEF Outcomes
  <2>5. CASE d = c /\ \E outcome \in {"resolved", "rejected"} : WriteEnds(c, outcome)
    <3>1. PICK outcome \in {"resolved", "rejected"} : WriteEnds(c, outcome)
      BY <2>5
    <3>2. /\ call'[c] = Ended(call[c], IF outcome = "resolved" THEN "written" ELSE "failed")
          /\ outcome = "resolved" => TaskOf(c) \in applied
      BY <3>1 DEF WriteEnds, ShapeInv
    <3> QED
      BY <1>1, <2>1, <2>5, <3>1, <3>2 DEF Outcomes
  <2> QED
    BY <1>3, <2>2, <2>3, <2>4, <2>5
<1>4. CASE Cancel
  <2>1. CASE call'[c] = call[c]
    BY <1>0, <2>1
  <2>2. CASE call[c].step = "writing" /\ call'[c] = Ended(call[c], "cancelled")
    BY <1>1, <2>2, CancelledIsAnOutcome DEF AtWork
  <2> QED
    BY <1>4, <2>1, <2>2, CancelMoves
<1>5. CASE \/ PaceTimerFires \/ Tick
           \/ \E t \in DOMAIN sent : Applies(t)
           \/ \E f \in ForeignWrites : ForeignWrite(f[1], f[2], f[3])
           \/ UNCHANGED vars
  BY <1>0, <1>5, OthersStay
<1> QED
  BY <1>2, <1>3, <1>4, <1>5 DEF Next

LEMMA NothingHasNumbers == HaveTheirNumbers(Nothing)
  BY DEF HaveTheirNumbers, Nothing

LEMMA TargetsAreChannels ==
    ASSUME ShapeInv, NEW c \in Calls, Begun(call[c]) \/ call[c].step = "shown",
           NEW k \in 1..Len(call[c].request.targets)
    PROVE  call[c].request.targets[k] \in Channels
<1>1. call[c].request.targets \in Seq(Channels)
  BY DEF ShapeInv, IsEntry, IsRequest, Begun
<1> QED
  BY <1>1

(* A write, the device's own or another client's, leaves the parameters it *)
(* does not name as they are.                                              *)
LEMMA OverwrittenIs ==
    ASSUME NEW old, NEW new
    PROVE  /\ DOMAIN Overwritten(old, new) = DOMAIN old \union DOMAIN new
           /\ \A p \in DOMAIN new : Overwritten(old, new)[p] = new[p]
           /\ \A p \in DOMAIN old \ DOMAIN new : Overwritten(old, new)[p] = old[p]
           /\ HaveTheirNumbers(old) /\ HaveTheirNumbers(new) =>
                 HaveTheirNumbers(Overwritten(old, new))
<1>1. Overwritten(old, new) =
         [p \in DOMAIN old \union DOMAIN new |-> IF p \in DOMAIN new THEN new[p] ELSE old[p]]
  BY DEF Overwritten
<1>2. DOMAIN Overwritten(old, new) = DOMAIN old \union DOMAIN new
  BY <1>1
<1>3. \A p \in DOMAIN new : Overwritten(old, new)[p] = new[p]
  BY <1>1
<1>4. \A p \in DOMAIN old \ DOMAIN new : Overwritten(old, new)[p] = old[p]
  BY <1>1
<1> HIDE DEF Overwritten
<1> QED
  BY <1>2, <1>3, <1>4 DEF HaveTheirNumbers

LEMMA HeldIsValid ==
    ASSUME NEW payload, AreValid(payload), HaveTheirNumbers(payload),
           NEW lost \in SUBSET Unfit(payload)
    PROVE  /\ DOMAIN Holds(payload, lost) = DOMAIN payload
           /\ AreValid(Holds(payload, lost)) /\ HaveTheirNumbers(Holds(payload, lost))
<1>0. lost = {}
  BY DEF Unfit, AreValid
<1>1. /\ DOMAIN Holds(payload, lost) = DOMAIN payload
      /\ \A p \in DOMAIN payload : Holds(payload, lost)[p] = Unwrap(payload[p])
  BY <1>0 DEF Holds
<1>2. ASSUME NEW p \in DOMAIN payload
      PROVE  /\ p \in DOMAIN Description /\ IsValid(Holds(payload, lost)[p], Description[p])
             /\ HasItsNumber(Holds(payload, lost)[p])
  <2>1. /\ p \in DOMAIN Description /\ IsValid(payload[p], Description[p])
        /\ HasItsNumber(payload[p])
    BY DEF AreValid, HaveTheirNumbers
  <2> QED
    BY <1>1, <2>1, ValidUnwrapped, UnwrappedNumber
<1> QED
  BY <1>1, <1>2 DEF AreValid, HaveTheirNumbers

-----------------------------------------------------------------------------
(* The answer of a read is what the device holds, or nothing was read.     *)
LEMMA ReadTakes ==
    ASSUME ShapeInv, NEW c \in Calls, Read(c)
    PROVE  call'[c].original \in {Nothing, device[Target(c)]}
<1> DEFINE read == IF call[c].request.kind = "value" \/ call[c].request.writeAll THEN Nothing
                   ELSE device[Target(c)]
<1>1. call' = [call EXCEPT ![c] = [@ EXCEPT !.step = "answered", !.original = read]]
  BY DEF Read
<1>2. read \in {Nothing, device[Target(c)]}
  OBVIOUS
<1> HIDE DEF read
<1>3. call'[c] = [call[c] EXCEPT !.step = "answered", !.original = read]
  BY <1>1 DEF ShapeInv
<1>4. DOMAIN call[c] = Fields
  BY DEF ShapeInv, IsEntry
<1> QED
  BY <1>2, <1>3, <1>4 DEF Fields

(* A step of the calls leaves the devices alone.                           *)
LEMMA CallsLeaveDevices ==
    ASSUME NEW c \in Calls,
           \/ \E r \in Requests[c] : Preview(c, r) \/ Ask(c, r)
           \/ Confirm(c) \/ Read(c) \/ ReadFails(c) \/ Write(c) \/ NoWrite(c)
           \/ \E outcome \in {"resolved", "rejected"} : WriteEnds(c, outcome)
    PROVE  device' = device /\ applied' = applied
  BY DEF Preview, Ask, Confirm, Read, ReadFails, Write, NoWrite, WriteEnds

LEMMA NumbersInit == SoundClients /\ Init => NumbersInv
<1> SUFFICES ASSUME SoundClients, Init PROVE NumbersInv
  OBVIOUS
<1>1. device \in Stored /\ call = [c \in Calls |-> Unborn]
  BY DEF Init
<1>2. DOMAIN device = Channels /\ \A channel \in Channels : HaveTheirNumbers(device[channel])
  BY <1>1, StoredAssumption DEF SoundClients
<1>3. \A c \in Calls : call[c].step = "none"
  BY <1>1 DEF Unborn
<1> QED
  BY <1>2, <1>3 DEF NumbersInv, HasNumbers

LEMMA NumbersStep ==
    ASSUME SoundDescription, SoundClients, ShapeInv, NumbersInv, SentInv, [Next]_vars
    PROVE  NumbersInv'
<1>1. \A c \in Calls : HasNumbers(call'[c])
  <2>1. ASSUME NEW c \in Calls, Only(c), HasNumbers(call'[c])
        PROVE  \A d \in Calls : HasNumbers(call'[d])
    BY <2>1 DEF Only, NumbersInv
  <2>2. ASSUME NEW c \in Calls, NEW r \in Requests[c], Preview(c, r)
        PROVE  HasNumbers(call'[c])
    <3> DEFINE original == device[r.targets[1]]
    <3>1. HaveTheirNumbers(r.values) /\ HaveTheirNumbers(original)
      <4>1. IsRequest(r)
        BY RequestsAreRequests
      <4>2. 1 \in 1..Len(r.targets) /\ r.targets \in Seq(Channels)
        BY <4>1, FirstTarget DEF IsRequest
      <4>3. r.targets[1] \in Channels
        BY <4>2
      <4> QED
        BY <4>3 DEF SoundClients, NumbersInv
    <3>2. HaveTheirNumbers(Diff(original, r.values, Description, r.writeAll).values)
      BY <3>1, DiffIsValid
    <3>3. /\ call'[c].step = "shown" /\ call'[c].request = r
          /\ call'[c].shown = Diff(original, r.values, Description, r.writeAll).values
      BY <2>2, PreviewMoves
    <3> QED
      BY <3>1, <3>2, <3>3 DEF HasNumbers
  <2>3. ASSUME NEW c \in Calls, NEW r \in Requests[c], Ask(c, r)
        PROVE  HasNumbers(call'[c])
    BY <2>3, AskMoves DEF HasNumbers, SoundClients
  <2>4. ASSUME NEW c \in Calls, Confirm(c)
        PROVE  HasNumbers(call'[c])
    <3>1. /\ call[c].step = "shown" /\ call'[c].step = "asking"
          /\ call'[c].request = [call[c].request EXCEPT !.values = call[c].shown]
      BY <2>4, ConfirmMoves
    <3>2. DOMAIN call[c].request = RequestFields
      BY <3>1 DEF ShapeInv, IsEntry, IsRequest
    <3>3. call'[c].request.values = call[c].shown
      BY <3>1, <3>2 DEF RequestFields
    <3>4. HaveTheirNumbers(call[c].shown)
      BY <3>1 DEF NumbersInv, HasNumbers
    <3> QED
      BY <3>1, <3>3, <3>4 DEF HasNumbers
  <2>5. ASSUME NEW c \in Calls, Read(c)
        PROVE  HasNumbers(call'[c])
    <3>1. /\ call[c].step = "asking" /\ call'[c].step = "answered"
          /\ call'[c].request = call[c].request
      BY <2>5, ReadMoves
    <3>2. Target(c) \in Channels
      BY <3>1, TargetsAreChannels DEF Target, Begun, ShapeInv, IsEntry, AtWork
    <3>3. HaveTheirNumbers(call'[c].original)
      BY <2>5, <3>2, ReadTakes, NothingHasNumbers DEF NumbersInv
    <3> QED
      BY <3>1, <3>3 DEF HasNumbers, NumbersInv
  <2>6. ASSUME NEW c \in Calls, Write(c)
        PROVE  HasNumbers(call'[c])
    BY <2>6, WriteMoves DEF HasNumbers, NumbersInv
  <2>7. ASSUME NEW c \in Calls, NEW outcome \in Outcomes, call[c].step \in AtWork,
               call'[c] = Ended(call[c], outcome)
        PROVE  HasNumbers(call'[c])
    BY <2>7, EndedMoves DEF HasNumbers, NumbersInv, ShapeInv, AtWork
  <2>8. ASSUME NEW c \in Calls,
               \/ ReadFails(c)
               \/ NoWrite(c)
               \/ \E outcome \in {"resolved", "rejected"} : WriteEnds(c, outcome)
        PROVE  HasNumbers(call'[c])
    BY <2>7, <2>8, EndsMove
  <2>9. CASE Cancel
    <3>1. ASSUME NEW c \in Calls PROVE HasNumbers(call'[c])
      <4>1. CASE call'[c] = call[c]
        BY <4>1 DEF NumbersInv
      <4>2. CASE call[c].step = "writing" /\ call'[c] = Ended(call[c], "cancelled")
        BY <2>7, <4>2, CancelledIsAnOutcome DEF AtWork
      <4> QED
        BY <2>9, <4>1, <4>2, CancelMoves
    <3> QED
      BY <3>1
  <2>10. CASE \/ PaceTimerFires \/ Tick
              \/ \E t \in DOMAIN sent : Applies(t)
              \/ \E f \in ForeignWrites : ForeignWrite(f[1], f[2], f[3])
              \/ UNCHANGED vars
    BY <2>10, OthersStay DEF NumbersInv
  <2>11. ASSUME NEW c \in Calls,
                \/ \E r \in Requests[c] : Preview(c, r) \/ Ask(c, r)
                \/ Confirm(c) \/ Read(c) \/ Write(c)
                \/ ReadFails(c) \/ NoWrite(c)
                \/ \E outcome \in {"resolved", "rejected"} : WriteEnds(c, outcome)
         PROVE  Only(c)
    BY <2>11, PreviewMoves, AskMoves, ConfirmMoves, ReadMoves, WriteMoves, EndsMove
  <2> QED
    BY <2>1, <2>2, <2>3, <2>4, <2>5, <2>6, <2>8, <2>9, <2>10, <2>11 DEF Next
<1>2. DOMAIN device' = Channels /\ \A channel \in Channels : HaveTheirNumbers(device'[channel])
  <2>0. DOMAIN device = Channels /\ \A channel \in Channels : HaveTheirNumbers(device[channel])
    BY DEF NumbersInv
  <2>1. ASSUME NEW t \in DOMAIN sent, Applies(t)
        PROVE  DOMAIN device' = Channels /\ \A channel \in Channels : HaveTheirNumbers(device'[channel])
    <3>0. PICK lost \in SUBSET Unfit(sent[t]) :
             LET at == call[t[1]].request.targets[t[2]] IN
             device' = [device EXCEPT ![at] = Overwritten(@, Holds(sent[t], lost))]
      BY <2>1 DEF Applies
    <3> DEFINE at == call[t[1]].request.targets[t[2]]
               new == Overwritten(device[at], Holds(sent[t], lost))
    <3>1. device' = [device EXCEPT ![at] = new]
      BY <3>0
    <3>2. HaveTheirNumbers(Holds(sent[t], lost))
      BY HeldIsValid DEF SentInv, SentIsValid
    <3>3. at \in Channels => HaveTheirNumbers(new)
      BY <2>0, <3>2, OverwrittenIs
    <3> HIDE DEF at, new
    <3> QED
      BY <2>0, <3>1, <3>3
  <2>2. ASSUME NEW f \in ForeignWrites, ForeignWrite(f[1], f[2], f[3])
        PROVE  DOMAIN device' = Channels /\ \A channel \in Channels : HaveTheirNumbers(device'[channel])
    <3> DEFINE value == [q \in {f[2]} |-> f[3]]
               new == Overwritten(device[f[1]], value)
    <3>1. device' = [device EXCEPT ![f[1]] = new]
      BY <2>2 DEF ForeignWrite
    <3>2. HaveTheirNumbers(value)
      BY DEF HaveTheirNumbers, SoundClients
    <3> HIDE DEF value
    <3>3. f[1] \in Channels => HaveTheirNumbers(new)
      BY <2>0, <3>2, OverwrittenIs
    <3> HIDE DEF new
    <3> QED
      BY <2>0, <3>1, <3>3
  <2>3. CASE Cancel \/ PaceTimerFires \/ Tick \/ UNCHANGED vars
    <3>1. device' = device
      BY <2>3 DEF Cancel, PaceTimerFires, Tick, vars
    <3> QED
      BY <2>0, <3>1
  <2> QED
    BY <2>0, <2>1, <2>2, <2>3, CallsLeaveDevices DEF Next
<1> QED
  BY <1>1, <1>2 DEF NumbersInv

LEMMA SentStep ==
    ASSUME SoundDescription, ShapeInv, NumbersInv, SentInv, [Next]_vars
    PROVE  SentInv'
<1> DEFINE Good(t, values) ==
              /\ t[1] \in Calls /\ Begun(call[t[1]])
              /\ t[2] \in 1..Len(call[t[1]].request.targets)
              /\ AreValid(values) /\ HaveTheirNumbers(values)
              /\ call[t[1]].request.kind = "repair" => Fallbacks \subseteq DOMAIN values
<1>1. \A t \in DOMAIN sent : Good(t, sent[t])
  BY DEF SentInv, SentIsValid
<1>2. ASSUME \A t \in DOMAIN sent' : Good(t, sent'[t])
      PROVE  SentInv'
  <2>1. \A t \in DOMAIN sent' : Begun(call'[t[1]]) /\ call'[t[1]].request = call[t[1]].request
    BY <1>2, RequestsStay DEF KeepsRequest
  <2> QED
    BY <1>2, <2>1 DEF SentInv, SentIsValid, Begun, AreValid, HaveTheirNumbers, Fallbacks
<1>3. ASSUME NEW c \in Calls, Write(c) PROVE SentInv'
  <2> DEFINE values == PayloadOf(call[c].request, call[c].original).values
  <2>1. /\ sent' = [t \in DOMAIN sent \union {TaskOf(c)} |->
                       IF t = TaskOf(c) THEN values ELSE sent[t]]
        /\ call[c].step = "answered"
    BY <1>3 DEF Write
  <2>2. /\ IsRequest(call[c].request) /\ Begun(call[c])
        /\ call[c].at \in 1..Len(call[c].request.targets)
    BY <2>1 DEF ShapeInv, IsEntry, AtWork, Begun
  <2>3. HaveTheirNumbers(call[c].request.values) /\ HaveTheirNumbers(call[c].original)
    BY <2>1 DEF NumbersInv, HasNumbers
  <2>4. AreValid(values) /\ HaveTheirNumbers(values)
    BY <2>2, <2>3, PayloadIsValid DEF IsRequest
  <2>5. ASSUME call[c].request.kind = "repair" PROVE Fallbacks \subseteq DOMAIN values
    <3>1. values = RepairPayload(call[c].original, Description)
      BY <2>5 DEF PayloadOf
    <3> QED
      BY <2>3, <3>1, RepairIsValid DEF Fallbacks
  <2> HIDE DEF values
  <2>6. Good(TaskOf(c), values)
    BY <2>2, <2>4, <2>5 DEF TaskOf
  <2>7. DOMAIN sent' = DOMAIN sent \union {TaskOf(c)} /\ sent'[TaskOf(c)] = values
        /\ \A t \in DOMAIN sent : t # TaskOf(c) => sent'[t] = sent[t]
    BY <2>1
  <2> HIDE DEF Good
  <2>8. \A t \in DOMAIN sent' : Good(t, sent'[t])
    BY <1>1, <2>6, <2>7
  <2> QED
    BY <1>2, <2>8 DEF Good
<1>4. ASSUME sent' = sent PROVE SentInv'
  BY <1>1, <1>2, <1>4
<1>5. ASSUME NEW c \in Calls,
             \/ \E r \in Requests[c] : Preview(c, r) \/ Ask(c, r)
             \/ Confirm(c) \/ Read(c) \/ ReadFails(c) \/ NoWrite(c)
             \/ \E outcome \in {"resolved", "rejected"} : WriteEnds(c, outcome)
      PROVE  sent' = sent
  BY <1>5 DEF Preview, Ask, Confirm, Read, ReadFails, NoWrite, WriteEnds
<1>6. Cancel => sent' = sent
  BY DEF Cancel
<1> QED
  BY <1>3, <1>4, <1>5, <1>6, OthersStay DEF Next

-----------------------------------------------------------------------------
(* A valid write to a channel that is all valid leaves it all valid, and   *)
(* one with a value for every fallback makes it so.                        *)
LEMMA ValidOverwritten ==
    ASSUME NEW old, NEW new,
           \A p \in DOMAIN new : p \in DOMAIN Description /\ Description[p].writable =>
                                    IsValid(new[p], Description[p]),
           \/ Fallbacks \subseteq DOMAIN new
           \/ \A p \in Fallbacks : p \in DOMAIN old /\ IsValid(old[p], Description[p]),
           NEW p \in Fallbacks
    PROVE  p \in DOMAIN Overwritten(old, new) /\ IsValid(Overwritten(old, new)[p], Description[p])
<1>0. /\ DOMAIN Overwritten(old, new) = DOMAIN old \union DOMAIN new
      /\ p \in DOMAIN new => Overwritten(old, new)[p] = new[p]
      /\ p \in DOMAIN old \ DOMAIN new => Overwritten(old, new)[p] = old[p]
  BY OverwrittenIs
<1>1. p \in DOMAIN Description /\ Description[p].writable
  BY DEF Fallbacks
<1>2. CASE p \in DOMAIN new
  BY <1>0, <1>1, <1>2
<1>3. CASE p \notin DOMAIN new
  BY <1>0, <1>3
<1> QED
  BY <1>2, <1>3

LEMMA AllValidIs ==
    ASSUME NEW channel
    PROVE  /\ AllValid(channel) <=>
                 \A p \in Fallbacks : p \in DOMAIN device[channel]
                                      /\ IsValid(device[channel][p], Description[p])
           /\ AllValid(channel)' <=>
                 \A p \in Fallbacks : p \in DOMAIN device'[channel]
                                      /\ IsValid(device'[channel][p], Description[p])
  BY DEF AllValid, Fallbacks

LEMMA RepairedStep ==
    ASSUME SoundDescription, SoundClients, ShapeInv, CountsInv, NumbersInv, SentInv, RepairedInv,
           [Next]_vars
    PROVE  RepairedInv'
<1> DEFINE at(t) == call[t[1]].request.targets[t[2]]
           IsRepair(t) == call[t[1]].request.kind = "repair"
<1>1. \A t \in DOMAIN sent : /\ call'[t[1]].request = call[t[1]].request
                             /\ at(t) \in Channels
  BY RequestsStay, TargetsAreChannels DEF SentInv, KeepsRequest
<1>2. ASSUME NEW t \in applied PROVE t \in DOMAIN sent /\ (IsRepair(t) => AllValid(at(t)))
  BY DEF CountsInv, RepairedInv
<1>3. ASSUME applied \subseteq applied'
      PROVE  \A c \in Calls : \A k \in DOMAIN call'[c].results :
                call'[c].results[k] = "written" => <<c, k>> \in applied'
  BY <1>3, WrittenIsApplied DEF RepairedInv
<1>4. ASSUME applied \subseteq applied', applied' \subseteq DOMAIN sent,
             \A t \in applied' : IsRepair(t) => AllValid(at(t))'
      PROVE  RepairedInv'
  BY <1>1, <1>3, <1>4 DEF RepairedInv
<1> HIDE DEF IsRepair
<1>5. ASSUME NEW channel, NEW new, device' = [device EXCEPT ![channel] = Overwritten(@, new)],
             \A p \in DOMAIN new : p \in DOMAIN Description /\ Description[p].writable =>
                                      IsValid(new[p], Description[p]),
             NEW other \in Channels,
             AllValid(other) \/ (other = channel /\ Fallbacks \subseteq DOMAIN new)
      PROVE  AllValid(other)'
  <2>1. DOMAIN device = Channels
    BY DEF NumbersInv
  <2>2. CASE other # channel
    <3>1. device'[other] = device[other]
      BY <1>5, <2>1, <2>2
    <3> QED
      BY <1>5, <2>2, <3>1, AllValidIs
  <2>3. CASE other = channel
    <3>1. device'[other] = Overwritten(device[other], new)
      BY <1>5, <2>1, <2>3
    <3>2. \/ Fallbacks \subseteq DOMAIN new
          \/ \A p \in Fallbacks : p \in DOMAIN device[other] /\ IsValid(device[other][p], Description[p])
      BY <1>5, AllValidIs
    <3>3. \A p \in Fallbacks : /\ p \in DOMAIN device'[other]
                               /\ IsValid(device'[other][p], Description[p])
      BY <1>5, <3>1, <3>2, ValidOverwritten
    <3> QED
      BY <3>3, AllValidIs
  <2> QED
    BY <2>2, <2>3
<1>6. ASSUME NEW t \in DOMAIN sent, Applies(t) PROVE RepairedInv'
  <2>0. PICK lost \in SUBSET Unfit(sent[t]) :
           device' = [device EXCEPT ![at(t)] = Overwritten(@, Holds(sent[t], lost))]
    BY <1>6 DEF Applies
  <2> DEFINE new == Holds(sent[t], lost)
  <2>1. /\ device' = [device EXCEPT ![at(t)] = Overwritten(@, new)]
        /\ applied' = applied \union {t} /\ call' = call
    BY <1>6, <2>0 DEF Applies
  <2>2. AreValid(sent[t]) /\ HaveTheirNumbers(sent[t])
    BY DEF SentInv, SentIsValid
  <2>3. /\ DOMAIN new = DOMAIN sent[t]
        /\ \A p \in DOMAIN new : IsValid(new[p], Description[p])
    BY <2>2, HeldIsValid DEF AreValid
  <2> HIDE DEF new
  <2>4. IsRepair(t) => Fallbacks \subseteq DOMAIN new
    BY <2>3 DEF SentInv, IsRepair
  <2>5. ASSUME NEW u \in applied', IsRepair(u) PROVE AllValid(at(u))'
    <3>1. u \in DOMAIN sent /\ at(u) \in Channels /\ (u # t => AllValid(at(u)))
      BY <1>1, <1>2, <2>1, <2>5
    <3>2. at(u)' = at(u)
      BY <2>1
    <3>3. ASSUME NEW channel \in Channels,
                 AllValid(channel) \/ (channel = at(t) /\ Fallbacks \subseteq DOMAIN new)
          PROVE  AllValid(channel)'
      BY <1>5, <2>1, <2>3, <3>3
    <3>4. AllValid(at(u)) \/ (at(u) = at(t) /\ Fallbacks \subseteq DOMAIN new)
      BY <2>4, <2>5, <3>1
    <3> DEFINE where == at(u)
    <3>5. AllValid(where)'
      BY <3>1, <3>2, <3>3, <3>4
    <3> QED
      BY <3>5
  <2> QED
    BY <1>2, <1>4, <2>1, <2>5
<1>7. ASSUME NEW f \in ForeignWrites, ForeignWrite(f[1], f[2], f[3]) PROVE RepairedInv'
  <2> DEFINE value == [q \in {f[2]} |-> f[3]]
  <2>1. /\ device' = [device EXCEPT ![f[1]] = Overwritten(@, value)]
        /\ applied' = applied /\ call' = call
    BY <1>7 DEF ForeignWrite
  <2>2. \A p \in DOMAIN value : p \in DOMAIN Description /\ Description[p].writable =>
                                    IsValid(value[p], Description[p])
    BY DEF SoundClients
  <2> HIDE DEF value
  <2>3. ASSUME NEW u \in applied', IsRepair(u) PROVE AllValid(at(u))'
    <3>1. u \in DOMAIN sent /\ at(u) \in Channels /\ AllValid(at(u))
      BY <1>1, <1>2, <2>1, <2>3
    <3>2. at(u)' = at(u)
      BY <2>1
    <3>3. ASSUME NEW channel \in Channels, AllValid(channel)
          PROVE  AllValid(channel)'
      BY <1>5, <2>1, <2>2, <3>3
    <3> DEFINE where == at(u)
    <3>4. AllValid(where)'
      BY <3>1, <3>2, <3>3
    <3> QED
      BY <3>4
  <2> QED
    BY <1>2, <1>4, <2>1, <2>3
<1>8. ASSUME device' = device, applied' = applied PROVE RepairedInv'
  <2>1. ASSUME NEW u \in applied', IsRepair(u) PROVE AllValid(at(u))'
    <3>1. u \in DOMAIN sent /\ AllValid(at(u)) /\ at(u)' = at(u)
      BY <1>1, <1>2, <1>8, <2>1
    <3> DEFINE where == at(u)
    <3>2. AllValid(where)'
      BY <1>8, <3>1, AllValidIs
    <3> QED
      BY <3>2
  <2> QED
    BY <1>2, <1>4, <1>8, <2>1
<1>9. Cancel \/ PaceTimerFires \/ Tick \/ UNCHANGED vars => device' = device /\ applied' = applied
  BY DEF Cancel, PaceTimerFires, Tick, vars
<1> QED
  BY <1>6, <1>7, <1>8, <1>9, CallsLeaveDevices DEF Next

-----------------------------------------------------------------------------
LEMMA RepairInit == SoundClients /\ Init => CountsInv /\ NumbersInv /\ SentInv /\ RepairedInv
<1> SUFFICES ASSUME SoundClients, Init PROVE CountsInv /\ NumbersInv /\ SentInv /\ RepairedInv
  OBVIOUS
<1>1. /\ DOMAIN sent = {} /\ applied = {} /\ cancels = 0 /\ foreign = 0
      /\ \A c \in Calls : DOMAIN call[c].results = {}
  BY DEF Init, Nothing, Unborn
<1>2. NumbersInv
  BY NumbersInit
<1> QED
  BY <1>1, <1>2, BoundsAssumption DEF CountsInv, SentInv, SentIsValid, RepairedInv

RepairsInv == ShapeInv /\ CountsInv /\ NumbersInv /\ SentInv /\ RepairedInv

LEMMA RepairsHold == SoundDescription /\ SoundClients => (Spec => []RepairsInv)
<1> SUFFICES ASSUME SoundDescription, SoundClients PROVE Spec => []RepairsInv
  OBVIOUS
<1>1. Init => RepairsInv
  BY ShapeInit, RepairInit DEF RepairsInv
<1>2. RepairsInv /\ [Next]_vars => RepairsInv'
  <2> SUFFICES ASSUME RepairsInv, [Next]_vars PROVE RepairsInv'
    OBVIOUS
  <2>0. ShapeInv /\ CountsInv /\ NumbersInv /\ SentInv /\ RepairedInv
    BY DEF RepairsInv
  <2>1. ShapeInv'
    BY <2>0, ShapeStep
  <2>2. CountsInv'
    BY <2>0, CountsStep
  <2>3. NumbersInv'
    BY <2>0, NumbersStep
  <2>4. SentInv'
    BY <2>0, SentStep
  <2>5. RepairedInv'
    BY <2>0, RepairedStep
  <2> QED
    BY <2>1, <2>2, <2>3, <2>4, <2>5 DEF RepairsInv
<1> QED
  BY <1>1, <1>2, PTL DEF Spec

(* Whatever a call asks for and whatever the device held when it was read, *)
(* a put, a link, a single value and a repair send only values that their  *)
(* parameter's description admits.                                         *)
THEOREM OnlyValidIsSent == SoundDescription /\ SoundClients => (Spec => []SentIsValid)
<1>1. RepairsInv => SentIsValid
  BY DEF RepairsInv, SentInv
<1> QED
  BY <1>1, RepairsHold, PTL

(* A repaired channel holds a valid value for every parameter that has a   *)
(* fallback, from the moment its repair is answered as written: nothing    *)
(* that is saved, worked off late or repaired beside it spoils it, however *)
(* broken the devices were.                                                *)
THEOREM RepairsLast == SoundDescription /\ SoundClients => (Spec => []RepairedIsValid)
<1>1. RepairsInv => RepairedIsValid
  <2> SUFFICES ASSUME RepairsInv, NEW c \in Calls,
                      call[c].request.kind = "repair",
                      NEW k \in DOMAIN call[c].results, call[c].results[k] = "written"
               PROVE  AllValid(call[c].request.targets[k])
    BY DEF RepairedIsValid
  <2>1. <<c, k>> \in applied
    BY DEF RepairsInv, RepairedInv
  <2> QED
    BY <2>1 DEF RepairsInv, RepairedInv
<1> QED
  BY <1>1, RepairsHold, PTL

-----------------------------------------------------------------------------
(* "ok" is never a guess: of a put, a link or a single value that is       *)
(* answered as written, or as nothing to write, the interface acknowledged *)
(* every value in this write, or the channel was read to hold the value -  *)
(* or, where what it holds is none of the parameter's, to hold something   *)
(* that is cast to it.                                                     *)
THEOREM OkIsKept == SoundDescription /\ SoundClients /\ TypesAreKnown => (Spec => OkIsTrue)
<1> SUFFICES ASSUME SoundDescription, SoundClients, TypesAreKnown PROVE Spec => OkIsTrue
  OBVIOUS
<1>1. Init => ShapeInv /\ WritingInv
  <2>1. Init => WritingInv
    BY DEF Init, WritingInv, Unborn
  <2> QED
    BY <2>1, ShapeInit
<1>2. ShapeInv /\ WritingInv /\ [Next]_vars => (ShapeInv /\ WritingInv)'
  BY ShapeStep, WritingStep
<1>3. ShapeInv /\ WritingInv /\ RepairsInv /\ [Next]_vars =>
         [\A c \in Working :
             (/\ call[c].request.kind # "repair"
              /\ Len(call'[c].results) >= call[c].at
              /\ IsOk(call'[c].results[call[c].at]))
                 => \A p \in DOMAIN call[c].request.values : AsAsked(c, p)]_vars
  <2>1. RepairsInv => \A c \in Working :
           call[c].step \in {"answered", "writing"} => HaveTheirNumbers(call[c].original)
    BY DEF RepairsInv, NumbersInv, HasNumbers, Working
  <2> QED
    BY <2>1, OkStep
<1> QED
  BY <1>1, <1>2, <1>3, RepairsHold, PTL DEF Spec, OkIsTrue

-----------------------------------------------------------------------------
(* No enum has a name that String() could make of undefined.               *)
NamesAreGiven == \A p \in DOMAIN Description : HasItsNames(Description[p])

IsCast(values) ==
    \A p \in DOMAIN values \intersect DOMAIN Description :
        Cast(values[p], Description[p]) = values[p]

(* What was previewed is cast and is what the call is about from then on.  *)
IsPreviewed(e) ==
    e.step # "none" /\ e.request.kind = "put" =>
        /\ IsCast(e.shown)
        /\ e.step # "shown" => e.request.values = e.shown
        /\ e.step = "answered" /\ e.request.writeAll => e.original = Nothing

PreviewInv ==
    /\ \A c \in Calls : IsPreviewed(call[c])
    /\ \A t \in DOMAIN sent : t[1] \in Calls /\ call[t[1]].step \notin {"none", "shown"}
    /\ SentWasShown

(* What diffParamset() has to send.                                        *)
Sends(original, edited, writeAll) == Diff(original, edited, Description, writeAll).values

LEMMA DiffSendsCasts ==
    ASSUME NEW original, NEW edited, NEW writeAll
    PROVE  \A p \in DOMAIN Sends(original, edited, writeAll) :
              /\ p \in DOMAIN Description /\ (p \in DOMAIN edited \/ writeAll)
              /\ Sends(original, edited, writeAll)[p]
                    = Cast(RawOf(original, edited, Description, p), Description[p])
<1> DEFINE raw(p) == RawOf(original, edited, Description, p)
           considered == Considered(original, edited, Description, writeAll)
           valid == {p \in considered : IsValid(Cast(raw(p), Description[p]), Description[p])}
<1>1. Sends(original, edited, writeAll) = [p \in valid |-> Cast(raw(p), Description[p])]
  BY DEF Diff, Sends
<1>2. \A p \in considered : p \in DOMAIN Description /\ (p \in DOMAIN edited \/ writeAll)
  BY DEF Considered, Candidates
<1> HIDE DEF raw, considered
<1>3. \A p \in DOMAIN Sends(original, edited, writeAll) :
         /\ p \in DOMAIN Description /\ (p \in DOMAIN edited \/ writeAll)
         /\ Sends(original, edited, writeAll)[p] = Cast(raw(p), Description[p])
  BY <1>1, <1>2
<1> QED
  BY <1>3 DEF raw

(* Whether it is edited, stored or a default: what is shown is cast.       *)
LEMMA ShownIsCast ==
    ASSUME SoundDescription, NamesAreGiven, NEW original, HaveTheirNumbers(original),
           NEW edited, HaveTheirNumbers(edited), NEW writeAll
    PROVE  IsCast(Sends(original, edited, writeAll))
<1> DEFINE shown == Sends(original, edited, writeAll)
           raw(p) == RawOf(original, edited, Description, p)
<1>1. \A p \in DOMAIN shown : p \in DOMAIN Description /\ shown[p] = Cast(raw(p), Description[p])
  BY DiffSendsCasts
<1>2. \A p \in DOMAIN Description : HasItsNumber(raw(p))
  BY DEF RawOf, SoundDescription, HaveTheirNumbers
<1> HIDE DEF shown, raw
<1>3. ASSUME NEW p \in DOMAIN shown
      PROVE  Cast(shown[p], Description[p]) = shown[p]
  <2>1. HasItsNumber(raw(p)) /\ HasItsNames(Description[p])
    BY <1>1, <1>2 DEF NamesAreGiven
  <2>2. Cast(Cast(raw(p), Description[p]), Description[p]) = Cast(raw(p), Description[p])
    BY <2>1, CastTwice
  <2> QED
    BY <1>1, <2>2
<1>4. IsCast(shown)
  BY <1>3 DEF IsCast
<1> QED
  BY <1>4 DEF shown

(* What the backend makes of values that are cast is a part of them, or,   *)
(* with writeAll, a default.                                               *)
LEMMA CastIsSentAsItIs ==
    ASSUME NEW r, r.kind = "put", IsCast(r.values), NEW original,
           r.writeAll => original = Nothing
    PROVE  IsAsShown(PayloadOf(r, original).values, r, r.values)
<1> DEFINE values == Sends(original, r.values, r.writeAll)
<1>1. PayloadOf(r, original).values = values
  BY DEF PayloadOf, Sends
<1>2. \A p \in DOMAIN values :
         /\ p \in DOMAIN Description /\ (p \in DOMAIN r.values \/ r.writeAll)
         /\ values[p] = Cast(RawOf(original, r.values, Description, p), Description[p])
  BY DiffSendsCasts
<1> HIDE DEF values
<1>3. ASSUME NEW p \in DOMAIN values
      PROVE  \/ p \in DOMAIN r.values /\ values[p] = r.values[p]
             \/ /\ r.writeAll /\ p \notin DOMAIN r.values
                /\ values[p] = Cast(Description[p].DEFAULT, Description[p])
  <2>1. CASE p \in DOMAIN r.values
    <3>1. values[p] = Cast(r.values[p], Description[p]) /\ p \in DOMAIN Description
      BY <1>2, <2>1 DEF RawOf
    <3> QED
      BY <2>1, <3>1 DEF IsCast
  <2>2. CASE p \notin DOMAIN r.values
    <3>1. r.writeAll /\ p \notin DOMAIN original
      BY <1>2, <2>2 DEF Nothing
    <3> QED
      BY <1>2, <2>2, <3>1 DEF RawOf
  <2> QED
    BY <2>1, <2>2
<1> QED
  BY <1>1, <1>3 DEF IsAsShown

LEMMA ReadNothing ==
    ASSUME ShapeInv, NEW c \in Calls, Read(c), call[c].request.writeAll
    PROVE  call'[c].original = Nothing
<1>1. call' = [call EXCEPT ![c] = [@ EXCEPT !.step = "answered", !.original = Nothing]]
  BY DEF Read
<1>2. call'[c] = [call[c] EXCEPT !.step = "answered", !.original = Nothing]
  BY <1>1 DEF ShapeInv
<1>3. DOMAIN call[c] = Fields
  BY DEF ShapeInv, IsEntry
<1> QED
  BY <1>2, <1>3 DEF Fields

LEMMA PreviewInit == Init => PreviewInv
<1> SUFFICES ASSUME Init PROVE PreviewInv
  OBVIOUS
<1>1. DOMAIN sent = {}
  BY DEF Init, Nothing
<1>2. \A c \in Calls : call[c].step = "none"
  BY DEF Init, Unborn
<1> QED
  BY <1>1, <1>2 DEF PreviewInv, IsPreviewed, SentWasShown

(* A call that goes on with what it has, or that has sent nothing yet.     *)
GoesOn(e, f) ==
    /\ IsPreviewed(f)
    /\ e.step \notin {"none", "shown"} =>
          /\ f.step \notin {"none", "shown"}
          /\ f.request = e.request /\ f.shown = e.shown

LEMMA PreviewKept ==
    ASSUME PreviewInv, sent' = sent, \A c \in Calls : GoesOn(call[c], call'[c])
    PROVE  PreviewInv'
<1>1. \A c \in Calls : IsPreviewed(call'[c])
  BY DEF GoesOn
<1>2. ASSUME NEW t \in DOMAIN sent
      PROVE  /\ t[1] \in Calls
             /\ call'[t[1]].step \notin {"none", "shown"}
             /\ call'[t[1]].request = call[t[1]].request
             /\ call'[t[1]].shown = call[t[1]].shown
  BY DEF PreviewInv, GoesOn
<1>3. SentWasShown'
  BY <1>2 DEF PreviewInv, SentWasShown, IsAsShown
<1> QED
  BY <1>1, <1>2, <1>3 DEF PreviewInv, IsPreviewed

LEMMA PreviewStep ==
    ASSUME SoundDescription, SoundClients, NamesAreGiven, RepairsInv, PreviewInv, [Next]_vars
    PROVE  PreviewInv'
<1>00. ShapeInv /\ NumbersInv
  BY DEF RepairsInv
<1>0. /\ \A c \in Calls : GoesOn(call[c], call[c])
      /\ \A c \in Calls : IsEntry(call[c]) /\ IsPreviewed(call[c])
  BY <1>00 DEF PreviewInv, GoesOn, ShapeInv
<1>1. ASSUME NEW c \in Calls, NEW r \in Requests[c], Preview(c, r) PROVE PreviewInv'
  <2>1. sent' = sent
    BY <1>1 DEF Preview
  <2>2. IsPreviewed(call'[c])
    <3> DEFINE original == device[r.targets[1]]
    <3>1. /\ r.kind = "put" /\ call'[c].request = r
          /\ call'[c].shown = Diff(original, r.values, Description, r.writeAll).values
      BY <1>00, <1>1, PreviewMoves
    <3>2. HaveTheirNumbers(r.values) /\ HaveTheirNumbers(original)
      <4>1. 1 \in 1..Len(r.targets) /\ r.targets \in Seq(Channels)
        BY RequestsAreRequests, FirstTarget DEF IsRequest
      <4>2. r.targets[1] \in Channels
        BY <4>1
      <4> QED
        BY <1>00, <4>2 DEF SoundClients, NumbersInv
    <3> HIDE DEF original
    <3>3. IsCast(call'[c].shown)
      BY <3>1, <3>2, ShownIsCast DEF Sends
    <3>4. call'[c].step = "shown"
      BY <1>00, <1>1, PreviewMoves
    <3> QED
      BY <3>1, <3>2, <3>3, <3>4 DEF IsPreviewed
  <2>3. GoesOn(call[c], call'[c])
    BY <1>00, <1>1, <2>2, PreviewMoves DEF GoesOn
  <2> QED
    BY <1>00, <1>0, <1>1, <2>1, <2>3, PreviewMoves, PreviewKept DEF Only
<1>2. ASSUME NEW c \in Calls, NEW r \in Requests[c], Ask(c, r) PROVE PreviewInv'
  <2>1. sent' = sent
    BY <1>2 DEF Ask
  <2>2. GoesOn(call[c], call'[c])
    BY <1>00, <1>2, AskMoves DEF GoesOn, IsPreviewed
  <2> QED
    BY <1>00, <1>0, <1>2, <2>1, <2>2, AskMoves, PreviewKept DEF Only
<1>3. ASSUME NEW c \in Calls, Confirm(c) PROVE PreviewInv'
  <2>1. sent' = sent
    BY <1>3 DEF Confirm
  <2>2. /\ call'[c].request.kind = call[c].request.kind
        /\ call'[c].request.values = call[c].shown
    <3>1. DOMAIN call[c].request = RequestFields
      BY <1>00, <1>0, <1>3, ConfirmMoves DEF IsEntry, IsRequest
    <3> QED
      BY <1>00, <1>3, <3>1, ConfirmMoves DEF RequestFields
  <2>3. GoesOn(call[c], call'[c])
    BY <1>00, <1>0, <1>3, <2>2, ConfirmMoves DEF GoesOn, IsPreviewed
  <2> QED
    BY <1>00, <1>0, <1>3, <2>1, <2>3, ConfirmMoves, PreviewKept DEF Only
<1>4. ASSUME NEW c \in Calls, Read(c) PROVE PreviewInv'
  <2>1. sent' = sent
    BY <1>4 DEF Read
  <2>2. GoesOn(call[c], call'[c])
    <3>1. call[c].request.writeAll => call'[c].original = Nothing
      BY <1>00, <1>4, ReadNothing
    <3> QED
      BY <1>00, <1>0, <1>4, <3>1, ReadMoves DEF GoesOn, IsPreviewed
  <2> QED
    BY <1>00, <1>0, <1>4, <2>1, <2>2, ReadMoves, PreviewKept DEF Only
<1>5. ASSUME NEW c \in Calls, Write(c) PROVE PreviewInv'
  <2> DEFINE values == PayloadOf(call[c].request, call[c].original).values
  <2>1. sent' = [t \in DOMAIN sent \union {TaskOf(c)} |->
                   IF t = TaskOf(c) THEN values ELSE sent[t]]
    BY <1>5 DEF Write
  <2>2. GoesOn(call[c], call'[c]) /\ call[c].step = "answered"
    BY <1>00, <1>0, <1>5, WriteMoves DEF GoesOn, IsPreviewed
  <2>3. call[c].request.kind = "put" =>
            IsAsShown(values, call[c].request, call[c].shown)
    <3>1. SUFFICES ASSUME call[c].request.kind = "put"
          PROVE  IsAsShown(values, call[c].request, call[c].shown)
      OBVIOUS
    <3>2. /\ call[c].request.values = call[c].shown /\ IsCast(call[c].request.values)
          /\ call[c].request.writeAll => call[c].original = Nothing
      BY <1>0, <2>2, <3>1 DEF IsPreviewed
    <3> QED
      BY <3>1, <3>2, CastIsSentAsItIs
  <2> HIDE DEF values
  <2>4. TaskOf(c)[1] = c
    BY DEF TaskOf
  <2>5. /\ DOMAIN sent' = DOMAIN sent \union {TaskOf(c)}
        /\ \A t \in DOMAIN sent : t # TaskOf(c) => sent'[t] = sent[t]
        /\ sent'[TaskOf(c)] = values
    BY <2>1
  <2>6. \A d \in Calls : GoesOn(call[d], call'[d])
    BY <1>00, <1>0, <1>5, <2>2, WriteMoves DEF Only
  <2>7. \A t \in DOMAIN sent' :
            /\ t[1] \in Calls
            /\ call[t[1]].step \notin {"none", "shown"}
    BY <2>2, <2>4, <2>5 DEF PreviewInv
  <2>8. ASSUME NEW t \in DOMAIN sent', call[t[1]].request.kind = "put"
        PROVE  IsAsShown(sent'[t], call[t[1]].request, call[t[1]].shown)
    <3>1. CASE t \in DOMAIN sent /\ t # TaskOf(c)
      BY <2>5, <2>8, <3>1 DEF PreviewInv, SentWasShown
    <3>2. CASE t = TaskOf(c)
      BY <2>3, <2>4, <2>5, <2>8, <3>2
    <3> QED
      BY <2>5, <3>1, <3>2
  <2>9. \A t \in DOMAIN sent' :
            /\ call'[t[1]].step \notin {"none", "shown"}
            /\ call'[t[1]].request = call[t[1]].request
            /\ call'[t[1]].shown = call[t[1]].shown
    BY <2>6, <2>7 DEF GoesOn
  <2>10. SentWasShown'
    BY <2>8, <2>9 DEF SentWasShown, IsAsShown
  <2>11. \A d \in Calls : IsPreviewed(call'[d])
    BY <2>6 DEF GoesOn
  <2> QED
    BY <2>7, <2>9, <2>10, <2>11 DEF PreviewInv, IsPreviewed
<1>6. ASSUME NEW c \in Calls,
             \/ ReadFails(c)
             \/ NoWrite(c)
             \/ \E outcome \in {"resolved", "rejected"} : WriteEnds(c, outcome)
      PROVE  PreviewInv'
  <2>1. sent' = sent
    BY <1>6 DEF ReadFails, NoWrite, WriteEnds
  <2>2. GoesOn(call[c], call'[c])
    BY <1>00, <1>0, <1>6, EndsMove, EndedMoves DEF GoesOn, IsPreviewed, AtWork
  <2> QED
    BY <1>00, <1>0, <1>6, <2>1, <2>2, EndsMove, PreviewKept DEF Only
<1>7. CASE Cancel
  <2>1. sent' = sent /\ "cancelled" \in Outcomes
    BY <1>7 DEF Cancel, Outcomes
  <2>2. ASSUME NEW c \in Calls PROVE GoesOn(call[c], call'[c])
    <3>1. CASE call'[c] = call[c]
      BY <1>0, <3>1
    <3>2. CASE call[c].step = "writing" /\ call'[c] = Ended(call[c], "cancelled")
      BY <1>00, <1>0, <2>1, <3>2, EndedMoves DEF GoesOn, IsPreviewed, AtWork
    <3> QED
      BY <1>00, <1>7, <3>1, <3>2, CancelMoves
  <2> QED
    BY <2>1, <2>2, PreviewKept
<1>8. CASE \/ PaceTimerFires \/ Tick
           \/ \E t \in DOMAIN sent : Applies(t)
           \/ \E f \in ForeignWrites : ForeignWrite(f[1], f[2], f[3])
           \/ UNCHANGED vars
  BY <1>0, <1>8, OthersStay, PreviewKept
<1> QED
  BY <1>1, <1>2, <1>3, <1>4, <1>5, <1>6, <1>7, <1>8 DEF Next

(* A write that was previewed sends only parameters the preview showed,    *)
(* with the values it showed, whatever the device held then or came to     *)
(* hold and however many targets, failures and Cancels there were in       *)
(* between - but for one thing: with writeAll a parameter that the preview *)
(* left out, as no valid value was stored or entered, has its default sent.*)
THEOREM PreviewIsSent ==
    SoundDescription /\ SoundClients /\ NamesAreGiven => (Spec => []SentWasShown)
<1> SUFFICES ASSUME SoundDescription, SoundClients, NamesAreGiven PROVE Spec => []SentWasShown
  OBVIOUS
<1>1. Init => PreviewInv
  BY PreviewInit
<1>2. RepairsInv /\ PreviewInv /\ [Next]_vars => PreviewInv'
  BY PreviewStep
<1>3. PreviewInv => SentWasShown
  BY DEF PreviewInv
<1> QED
  BY <1>1, <1>2, <1>3, RepairsHold, PTL DEF Spec

-----------------------------------------------------------------------------
(* What is in the queue: waiting, held for the pace, or on the wire.       *)
InTheQueue == Q!CancelledIn(Line) \union held[Line] \union started[Line]

(* Of the call c with entry e: the promise of a write is open while the    *)
(* call waits for it, and there is none for what the call has yet to write.*)
Awaited(e, c, pr) ==
    \A k \in 1..MaxTargets :
        /\ pr[<<c, k>>] = "open" <=> e.step = "writing" /\ k = e.at
        /\ \/ e.step \in {"none", "shown"}
           \/ e.step \in AtWork /\ k > e.at
           \/ e.step \in {"asking", "answered"} /\ k = e.at
           => pr[<<c, k>>] = "none"

AwaitedInv == \A c \in Calls : Awaited(call[c], c, promise)

(* The queue holds the writes that calls wait for, no more and no less,    *)
(* and what is answered can be enqueued.                                   *)
OnlyWaitedFor ==
    /\ InTheQueue = {TaskOf(c) : c \in {d \in Calls : call[d].step = "writing"}}
    /\ \A c \in Calls : call[c].step = "answered" => promise[TaskOf(c)] = "none"

LEMMA OpenIsInTheQueue ==
    ASSUME QP!IInv
    PROVE  /\ promise \in [Tasks -> Q!PromiseStates]
           /\ \A t \in InTheQueue : t \in Tasks /\ promise[t] = "open"
           /\ \A t, u \in started[Line] : t = u
           /\ QP!OpenIsPlaced => \A t \in Tasks : promise[t] = "open" => t \in InTheQueue
<1>1. /\ pending[Line] \in Seq(Tasks) /\ held[Line] \in SUBSET Tasks
      /\ started[Line] \in SUBSET Tasks /\ promise \in [Tasks -> Q!PromiseStates]
      /\ \A t, u \in started[Line] : t = u
      /\ \A k \in 1..Len(pending[Line]) : promise[pending[Line][k]] = "open"
      /\ \A t \in held[Line] \union started[Line] : promise[t] = "open"
  BY DEF QP!IInv, QP!Kept, QP!Typed, QP!EachOpen, QP!Marked, QP!PromiseStates, Q!PromiseStates
<1>2. Q!CancelledIn(Line) = {pending[Line][k] : k \in 1..Len(pending[Line])}
  BY <1>1 DEF Q!CancelledIn
<1>3. \A t \in InTheQueue : t \in Tasks /\ promise[t] = "open"
  BY <1>1, <1>2 DEF InTheQueue
<1>4. ASSUME QP!OpenIsPlaced, NEW t \in Tasks, promise[t] = "open" PROVE t \in InTheQueue
  <2>1. \/ t \in held[Line] \union started[Line]
        \/ \E k \in 1..Len(pending[Line]) : pending[Line][k] = t
    BY <1>4 DEF QP!OpenIsPlaced, QP!Placed
  <2>2. QED
    BY <1>2, <2>1 DEF InTheQueue
<1>5. QED
  BY <1>1, <1>3, <1>4

LEMMA NumbersOfTargets ==
    ASSUME NEW e, IsEntry(e), e.step \in AtWork
    PROVE  e.at \in 1..MaxTargets
<1> DEFINE n == Len(e.request.targets)
<1>1. n \in 1..3 /\ e.at \in 1..n
  BY DEF IsEntry, IsRequest, MaxTargets, AtWork
<1> HIDE DEF n
<1>2. QED
  BY <1>1 DEF MaxTargets

(* A target has ended and the promise of its write, if any, has settled.   *)
LEMMA EndedAwaits ==
    ASSUME NEW c \in Calls, NEW e, IsEntry(e), e.step \in AtWork, NEW outcome \in Outcomes,
           NEW pr, Awaited(e, c, pr), NEW ps,
           \A k \in 1..MaxTargets : k # e.at => ps[<<c, k>>] = pr[<<c, k>>],
           ps[<<c, e.at>>] # "open"
    PROVE  Awaited(Ended(e, outcome), c, ps)
<1>1. PICK f : f = Ended(e, outcome)
  OBVIOUS
<1>2. IsEntry(f) /\ f.step \in {"asking", "done"} /\ (f.step = "asking" => f.at > e.at)
  BY <1>1, EndedMoves
<1>3. e.at \in 1..MaxTargets /\ (f.step = "asking" => f.at \in 1..MaxTargets)
  BY <1>2, NumbersOfTargets DEF AtWork
<1>4. ASSUME NEW k \in 1..MaxTargets
      PROVE  /\ ps[<<c, k>>] = "open" <=> f.step = "writing" /\ k = f.at
             /\ \/ f.step \in {"none", "shown"}
                \/ f.step \in AtWork /\ k > f.at
                \/ f.step \in {"asking", "answered"} /\ k = f.at
                => ps[<<c, k>>] = "none"
  <2>1. ps[<<c, k>>] # "open" /\ f.step # "writing"
    BY <1>2 DEF Awaited
  <2>2. ASSUME f.step = "asking", k > f.at \/ k = f.at PROVE ps[<<c, k>>] = "none"
    <3>1. k > e.at /\ k # e.at
      BY <1>2, <1>3, <2>2 DEF MaxTargets
    <3>2. QED
      BY <3>1 DEF Awaited
  <2>3. QED
    BY <1>2, <2>1, <2>2 DEF AtWork
<1>5. QED
  BY <1>1, <1>4 DEF Awaited

LEMMA AwaitedStep ==
    ASSUME ShapeInv, QP!IInv, AwaitedInv, [Next]_vars
    PROVE  AwaitedInv'
<1> DEFINE Good(c) == Awaited(call'[c], c, promise')
<1>0. \A c \in Calls : IsEntry(call[c]) /\ Awaited(call[c], c, promise)
  BY DEF ShapeInv, AwaitedInv
<1>00. (\A c \in Calls : Good(c)) => AwaitedInv'
  BY DEF AwaitedInv
<1>1. ASSUME NEW c \in Calls,
             \/ \E r \in Requests[c] : Preview(c, r) \/ Ask(c, r)
             \/ Confirm(c) \/ Read(c)
      PROVE  AwaitedInv'
  <2>1. promise' = promise
    BY <1>1 DEF Preview, Ask, Confirm, Read, queueVars
  <2>2. Only(c) /\ IsEntry(call'[c])
    BY <1>1, PreviewMoves, AskMoves, ConfirmMoves, ReadMoves
  <2>3. \/ call[c].step \in {"none", "shown"} /\ call'[c].step = "shown"
        \/ call[c].step \in {"none", "shown"} /\ call'[c].step = "asking" /\ call'[c].at = 1
        \/ call[c].step = "asking" /\ call'[c].step = "answered" /\ call'[c].at = call[c].at
    BY <1>1, PreviewMoves, AskMoves, ConfirmMoves, ReadMoves
  <2>4. Good(c)
    BY <1>0, <2>1, <2>3 DEF Awaited, AtWork
  <2>5. \A d \in Calls : d # c => Good(d)
    BY <1>0, <2>1, <2>2 DEF Only
  <2>6. QED
    BY <1>00, <2>4, <2>5
<1>2. ASSUME NEW c \in Calls, Write(c) PROVE AwaitedInv'
  <2>1. /\ Only(c) /\ call[c].step = "answered" /\ call'[c].step = "writing"
        /\ call'[c].at = call[c].at
    BY <1>2, WriteMoves
  <2>2. promise' = [promise EXCEPT ![TaskOf(c)] = "open"]
    BY <1>2 DEF Write, Q!Enqueue
  <2>3. /\ promise \in [Tasks -> Q!PromiseStates] /\ TaskOf(c) \in Tasks
    BY <2>1, OpenIsInTheQueue, TasksOfCalls DEF AtWork
  <2>4. /\ promise'[TaskOf(c)] = "open"
        /\ \A d \in Calls, k \in 1..MaxTargets :
              <<d, k>> # TaskOf(c) => promise'[<<d, k>>] = promise[<<d, k>>]
    BY <2>2, <2>3 DEF Tasks
  <2>5. TaskOf(c) = <<c, call[c].at>> /\ call[c].at \in 1..MaxTargets
    BY <1>0, <2>1, NumbersOfTargets DEF TaskOf, AtWork
  <2>6. Good(c)
    <3>1. ASSUME NEW k \in 1..MaxTargets
          PROVE  /\ promise'[<<c, k>>] = "open" <=> k = call[c].at
                 /\ k > call[c].at => promise'[<<c, k>>] = "none"
      <4>1. CASE k = call[c].at
        BY <2>4, <2>5, <4>1 DEF MaxTargets
      <4>2. CASE k # call[c].at
        <5>1. promise'[<<c, k>>] = promise[<<c, k>>]
          BY <2>4, <2>5, <4>2
        <5>2. QED
          BY <1>0, <2>1, <4>2, <5>1 DEF Awaited, AtWork
      <4>3. QED
        BY <4>1, <4>2
    <3>2. QED
      BY <2>1, <3>1 DEF Awaited, AtWork
  <2>7. ASSUME NEW d \in Calls, d # c PROVE Good(d)
    <3>1. \A k \in 1..MaxTargets : promise'[<<d, k>>] = promise[<<d, k>>]
      BY <2>4, <2>5, <2>7
    <3>2. call'[d] = call[d]
      BY <2>1, <2>7 DEF Only
    <3>3. QED
      BY <1>0, <3>1, <3>2 DEF Awaited
  <2>8. QED
    BY <1>00, <2>6, <2>7
<1>3. ASSUME NEW c \in Calls, ReadFails(c) \/ NoWrite(c) PROVE AwaitedInv'
  <2>1. Only(c) /\ call[c].step \in {"asking", "answered"} /\ promise' = promise
    BY <1>3 DEF ReadFails, NoWrite, queueVars, ShapeInv, Only
  <2>2. PICK outcome \in Outcomes : call'[c] = Ended(call[c], outcome)
    BY <1>3, EndsMove
  <2>3. promise[<<c, call[c].at>>] # "open"
    <3>1. call[c].at \in 1..MaxTargets
      BY <1>0, <2>1, NumbersOfTargets DEF AtWork
    <3>2. QED
      BY <1>0, <2>1, <3>1 DEF Awaited
  <2>4. Good(c)
    BY <1>0, <2>1, <2>2, <2>3, EndedAwaits DEF AtWork
  <2>5. \A d \in Calls : d # c => Good(d)
    BY <1>0, <2>1 DEF Only
  <2>6. QED
    BY <1>00, <2>4, <2>5
<1>4. ASSUME NEW c \in Calls, NEW outcome \in {"resolved", "rejected"}, WriteEnds(c, outcome)
      PROVE  AwaitedInv'
  <2>1. Only(c) /\ call[c].step = "writing" /\ TaskOf(c) \in started[Line]
    BY <1>4 DEF WriteEnds, ShapeInv, Only
  <2>2. PICK result \in Outcomes : call'[c] = Ended(call[c], result)
    BY <1>4, EndsMove
  <2>3. promise' = [promise EXCEPT ![TaskOf(c)] = outcome]
    <3>1. \E t \in started[Line] : promise' = [promise EXCEPT ![t] = outcome]
      BY <1>4 DEF WriteEnds, Q!Settle
    <3>2. QED
      BY <2>1, <3>1, OpenIsInTheQueue
  <2>4. promise \in [Tasks -> Q!PromiseStates] /\ TaskOf(c) \in Tasks
    BY <2>1, OpenIsInTheQueue, TasksOfCalls DEF AtWork
  <2>5. /\ promise'[TaskOf(c)] = outcome
        /\ \A d \in Calls, k \in 1..MaxTargets :
              <<d, k>> # TaskOf(c) => promise'[<<d, k>>] = promise[<<d, k>>]
    BY <2>3, <2>4 DEF Tasks
  <2>6. TaskOf(c) = <<c, call[c].at>>
    BY DEF TaskOf
  <2>7. Good(c)
    <3>1. promise'[<<c, call[c].at>>] # "open"
      BY <2>5, <2>6
    <3>2. \A k \in 1..MaxTargets : k # call[c].at => promise'[<<c, k>>] = promise[<<c, k>>]
      BY <2>5, <2>6
    <3>3. QED
      BY <1>0, <2>1, <2>2, <3>1, <3>2, EndedAwaits DEF AtWork
  <2>8. ASSUME NEW d \in Calls, d # c PROVE Good(d)
    <3>1. \A k \in 1..MaxTargets : promise'[<<d, k>>] = promise[<<d, k>>]
      BY <2>5, <2>6, <2>8
    <3>2. call'[d] = call[d]
      BY <2>1, <2>8 DEF Only
    <3>3. QED
      BY <1>0, <3>1, <3>2 DEF Awaited
  <2>9. QED
    BY <1>00, <2>7, <2>8
<1>5. CASE Cancel
  <2>1. /\ promise' = [t \in Tasks |->
                         IF \E i \in {Line} : t \in Q!CancelledIn(i) THEN "cancelled"
                                                                     ELSE promise[t]]
        /\ call' = [c \in Calls |->
                      IF call[c].step = "writing" /\ TaskOf(c) \in Q!CancelledIn(Line)
                      THEN Ended(call[c], "cancelled") ELSE call[c]]
    BY <1>5 DEF Cancel, Q!Cancel
  <2>2. \A t \in Tasks :
           promise'[t] = IF t \in Q!CancelledIn(Line) THEN "cancelled" ELSE promise[t]
    BY <2>1
  <2>3. \A t \in Q!CancelledIn(Line) : t \in Tasks /\ promise[t] = "open"
    BY OpenIsInTheQueue DEF InTheQueue
  <2>4. ASSUME NEW c \in Calls PROVE Good(c)
    <3>1. \A k \in 1..MaxTargets : <<c, k>> \in Tasks
      BY DEF Tasks
    <3>2. \A k \in 1..MaxTargets :
             <<c, k>> \in Q!CancelledIn(Line) => call[c].step = "writing" /\ k = call[c].at
      BY <1>0, <2>3 DEF Awaited
    <3>3. CASE call[c].step = "writing" /\ TaskOf(c) \in Q!CancelledIn(Line)
      <4>1. call'[c] = Ended(call[c], "cancelled")
        BY <2>1, <3>3
      <4>2. promise'[<<c, call[c].at>>] = "cancelled"
        BY <2>2, <2>3, <3>3 DEF TaskOf
      <4>3. \A k \in 1..MaxTargets : k # call[c].at => promise'[<<c, k>>] = promise[<<c, k>>]
        BY <2>2, <3>1, <3>2
      <4>4. QED
        BY <1>0, <3>3, <4>1, <4>2, <4>3, CancelledIsAnOutcome, EndedAwaits DEF AtWork
    <3>4. CASE ~(call[c].step = "writing" /\ TaskOf(c) \in Q!CancelledIn(Line))
      <4>1. call'[c] = call[c]
        BY <2>1, <3>4
      <4>2. \A k \in 1..MaxTargets : promise'[<<c, k>>] = promise[<<c, k>>]
        BY <2>2, <3>1, <3>2, <3>4 DEF TaskOf
      <4>3. QED
        BY <1>0, <4>1, <4>2 DEF Awaited
    <3>5. QED
      BY <3>3, <3>4
  <2>5. QED
    BY <1>00, <2>4
<1>6. CASE \/ PaceTimerFires \/ Tick
           \/ \E t \in DOMAIN sent : Applies(t)
           \/ \E f \in ForeignWrites : ForeignWrite(f[1], f[2], f[3])
           \/ UNCHANGED vars
  <2>1. promise' = promise /\ call' = call
    BY <1>6 DEF PaceTimerFires, Q!TimerFires, Tick, Q!Tick, Applies, ForeignWrite, vars, queueVars
  <2>2. QED
    BY <2>1 DEF AwaitedInv
<1>7. QED
  BY <1>1, <1>2, <1>3, <1>4, <1>5, <1>6 DEF Next

(* write(), cancel(), #finish(): a call that waits has its write in the    *)
(* queue, so something will end it; and what is in the queue has a call    *)
(* that waits for it, so nothing is sent for a call that was answered.     *)
THEOREM CallsHaveTheirWrites == Spec => []OnlyWaitedFor
<1>1. Init => ShapeInv /\ AwaitedInv
  <2>1. Init => AwaitedInv
    BY DEF Init, Q!Init, Unborn, AwaitedInv, Awaited, Tasks
  <2>2. QED
    BY <2>1, ShapeInit
<1>2. ShapeInv /\ QP!IInv /\ AwaitedInv /\ [Next]_vars => (ShapeInv /\ AwaitedInv)'
  BY ShapeStep, AwaitedStep
<1>3. QP!Spec => []QP!IInv /\ []QP!OpenIsPlaced
  BY PaceIsGap, QP!AlwaysIInv, QP!AlwaysPlaced DEF Q!PaceAssumption, QP!PaceAssumption
<1>4. Q!Spec => QP!Spec
  BY OneQueue, PTL DEF Q!Spec, QP!Spec
<1>5. ShapeInv /\ AwaitedInv /\ QP!IInv /\ QP!OpenIsPlaced => OnlyWaitedFor
  <2> SUFFICES ASSUME ShapeInv, AwaitedInv, QP!IInv, QP!OpenIsPlaced PROVE OnlyWaitedFor
    OBVIOUS
  <2>1. \A t \in Tasks : t \in InTheQueue <=> promise[t] = "open"
    BY OpenIsInTheQueue
  <2>2. InTheQueue \subseteq Tasks
    BY OpenIsInTheQueue
  <2>3. ASSUME NEW t \in InTheQueue
        PROVE  \E c \in Calls : call[c].step = "writing" /\ t = TaskOf(c)
    <3>1. PICK c \in Calls, k \in 1..MaxTargets : t = <<c, k>>
      BY <2>2 DEF Tasks
    <3>2. call[c].step = "writing" /\ k = call[c].at
      BY <2>1, <2>2, <3>1 DEF AwaitedInv, Awaited
    <3>3. QED
      BY <3>1, <3>2 DEF TaskOf
  <2>4. ASSUME NEW c \in Calls, call[c].step \in AtWork
        PROVE  /\ call[c].step = "writing" => TaskOf(c) \in InTheQueue
               /\ call[c].step = "answered" => promise[TaskOf(c)] = "none"
    <3>1. TaskOf(c) \in Tasks /\ call[c].at \in 1..MaxTargets
      BY <2>4, TasksOfCalls, NumbersOfTargets DEF ShapeInv
    <3>2. QED
      BY <2>1, <3>1 DEF AwaitedInv, Awaited, TaskOf
  <2>5. QED
    BY <2>3, <2>4 DEF OnlyWaitedFor, AtWork
<1>6. QED
  BY <1>1, <1>2, <1>3, <1>4, <1>5, UsesTheQueue, PTL DEF Spec
=============================================================================
