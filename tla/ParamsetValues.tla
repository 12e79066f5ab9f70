--------------------------- MODULE ParamsetValues ---------------------------
(***************************************************************************)
(* What a parameter value becomes on its way to a device: casting and      *)
(* validating it against its description, the difference between what a    *)
(* dialog edited and what the device holds (packages/core/src/paramset),   *)
(* and the values a repair writes (packages/backend/src/write/repair.ts).  *)
(*                                                                         *)
(* A JavaScript value is a pair of its kind and its content.  Numbers are  *)
(* counted in halves, so that there are some that are not whole.  A string *)
(* is either the digits of a number or a word, which starts with none; an  *)
(* empty VALUE_LIST stands for a description that has none.                *)
(***************************************************************************)
EXTENDS Integers, Sequences

Bool(b) == <<"boolean", b>>
Num(n) == <<"number", n>>
Double(n) == <<"double", n>>        \* {explicitDouble: n}
Digits(n) == <<"digits", n>>
Word(w) == <<"word", w>>
Undefined == <<"undefined">>
TooLong == "a string of more than 255 characters"

Kind(v) == v[1]
IsText(v) == Kind(v) \in {"digits", "word"}

(* isExplicitDouble: what sameValue() compares and validateValue() judges. *)
Unwrap(v) == IF Kind(v) = "double" THEN Num(v[2]) ELSE v

(* parseInt and parseFloat of String(v); the empty set stands for NaN.     *)
Truncated(n) == IF n < 0 THEN -(2 * ((-n) \div 2)) ELSE 2 * (n \div 2)
ParsedFloat(v) == IF Kind(v) \in {"number", "digits"} THEN {v[2]} ELSE {}
ParsedInt(v) == {Truncated(n) : n \in ParsedFloat(v)}

(* finite(): NaN becomes 0.                                                *)
Finite(numbers) == IF numbers = {} THEN 0 ELSE CHOOSE n \in numbers : TRUE

StringOf(v) ==
    CASE Kind(v) = "number" -> Digits(v[2])
      [] Kind(v) = "boolean" -> Word(IF v[2] THEN "true" ELSE "false")
      [] Kind(v) = "undefined" -> Word("undefined")
      [] OTHER -> v

CastBool(v) ==
    CASE Kind(v) = "boolean" -> v
      [] Kind(v) = "undefined" -> Bool(FALSE)
      [] Kind(v) = "word" -> Bool(v[2] \notin {"false", ""})
      [] OTHER -> Bool(v[2] # 0)

CastInteger(v) ==
    IF Kind(v) = "boolean" THEN Num(IF v[2] THEN 2 ELSE 0) ELSE Num(Finite(ParsedInt(v)))

(* enumIndex(): where a name stands in VALUE_LIST.                         *)
EnumIndex(v, d) ==
    {2 * (k - 1) : k \in {j \in DOMAIN d.VALUE_LIST : v = Word(d.VALUE_LIST[j])}}

(* A word that is no name of the list is handed on for the validation to   *)
(* reject.                                                                 *)
CastEnum(v, d) ==
    IF EnumIndex(v, d) # {} THEN Num(Finite(EnumIndex(v, d)))
    ELSE IF d.VALUE_LIST # <<>> /\ Kind(v) \in {"word", "undefined"} THEN StringOf(v)
    ELSE CastInteger(v)

Cast(v, d) ==
    LET u == Unwrap(v) IN
    CASE d.TYPE \in {"BOOL", "ACTION"} -> CastBool(u)
      [] d.TYPE = "FLOAT" -> Double(Finite(ParsedFloat(u)))
      [] d.TYPE = "INTEGER" -> CastInteger(u)
      [] d.TYPE = "ENUM" -> CastEnum(u, d)
      [] OTHER -> StringOf(u)

(* numericBound(): MIN and MAX are numbers, on HmIP the names of an enum.  *)
Bound(v, d) ==
    CASE Kind(v) = "number" -> {v[2]}
      [] Kind(v) = "word" /\ d.TYPE = "ENUM" -> EnumIndex(v, d)
      [] OTHER -> {}

InBounds(n, d) ==
    /\ \A least \in Bound(d.MIN, d) : n >= least
    /\ \A most \in Bound(d.MAX, d) : n <= most

IsWhole(n) == n % 2 = 0

IsValidEnum(v, d) ==
    \/ IsText(v) /\ EnumIndex(v, d) # {}
    \/ /\ Kind(v) = "number" /\ IsWhole(v[2])
       /\ d.VALUE_LIST # <<>> => v[2] >= 0 /\ v[2] < 2 * Len(d.VALUE_LIST)
       /\ InBounds(v[2], d)

(* validateValue() has nothing to say.                                     *)
IsValid(raw, d) ==
    LET v == Unwrap(raw) IN
    /\ d.writable
    /\ CASE d.TYPE \in {"BOOL", "ACTION"} -> Kind(v) = "boolean"
         [] d.TYPE = "INTEGER" -> /\ Kind(v) = "number" /\ IsWhole(v[2])
                                  /\ v[2] \in d.SPECIAL \/ InBounds(v[2], d)
         [] d.TYPE = "FLOAT" -> /\ Kind(v) = "number"
                                /\ v[2] \in d.SPECIAL \/ InBounds(v[2], d)
         [] d.TYPE = "ENUM" -> IsValidEnum(v, d)
         [] d.TYPE = "STRING" -> IsText(v) /\ v # Word(TooLong)
         [] OTHER -> TRUE

Nothing == <<>>     \* {}: a paramset without parameters

IsUnchanged(original, p, raw, d) ==
    /\ p \in DOMAIN original
    /\ Unwrap(Cast(original[p], d)) = Unwrap(Cast(raw, d))

Candidates(edited, description, writeAll) ==
    IF writeAll THEN DOMAIN description \union DOMAIN edited ELSE DOMAIN edited

RawOf(original, edited, description, p) ==
    IF p \in DOMAIN edited THEN edited[p]
    ELSE IF p \in DOMAIN original THEN original[p]
    ELSE description[p].DEFAULT

(* The writable parameters diffParamset() casts and judges.                *)
Considered(original, edited, description, writeAll) ==
    {p \in Candidates(edited, description, writeAll) \intersect DOMAIN description :
        LET d == description[p] IN
        /\ d.writable
        /\ writeAll \/ ~IsUnchanged(original, p, RawOf(original, edited, description, p), d)}

(* diffParamset(): the payload, and the parameters something is wrong with.*)
Diff(original, edited, description, writeAll) ==
    LET raw(p) == RawOf(original, edited, description, p)
        considered == Considered(original, edited, description, writeAll)
        valid == {p \in considered : IsValid(Cast(raw(p), description[p]), description[p])}
    IN  [values |-> [p \in valid |-> Cast(raw(p), description[p])],
         problems |-> (considered \ valid)
                         \union (DOMAIN edited \ DOMAIN description)
                         \union {p \in DOMAIN edited \intersect DOMAIN description :
                                    ~description[p].writable}]

(* addAlwaysSent(): parameters of a link that go along unchanged.          *)
WithAlwaysSent(sent, values, description, always) ==
    LET added == {p \in (always \intersect DOMAIN values \intersect DOMAIN description)
                            \ DOMAIN sent :
                        /\ values[p] # Undefined
                        /\ IsValid(Cast(values[p], description[p]), description[p])}
    IN  [p \in DOMAIN sent \union added |->
            IF p \in DOMAIN sent THEN sent[p] ELSE Cast(values[p], description[p])]

FallbackCandidates(d) ==
    <<d.DEFAULT>> \o
    CASE d.TYPE = "ENUM" -> <<Num(0)>>
      [] d.TYPE \in {"BOOL", "ACTION"} -> <<Bool(FALSE)>>
      [] d.TYPE = "STRING" -> <<Word("")>>
      [] OTHER -> <<d.MIN, Num(0)>>

(* fallbackValue(): the first candidate that is valid, if there is one.    *)
FallbackValue(d) ==
    LET candidates == FallbackCandidates(d)
        valid == {k \in DOMAIN candidates :
                     candidates[k] # Undefined /\ IsValid(Cast(candidates[k], d), d)}
    IN  {Cast(candidates[k], d) : k \in {j \in valid : \A other \in valid : j <= other}}

(* A slip: the cast of the stored value is written without a look at it.   *)
RepairedUnjudged(stored, p, d) ==
    IF p \in DOMAIN stored THEN {Cast(stored[p], d)} ELSE FallbackValue(d)

(* What a repair writes for one parameter, if it can: the stored value is  *)
(* judged, its cast is used where that is valid.                           *)
Repaired(stored, p, d) ==
    IF p \in DOMAIN stored /\ (IsValid(stored[p], d) \/ IsValid(Cast(stored[p], d), d))
        THEN {Cast(stored[p], d)}
        ELSE FallbackValue(d)

RepairPayload(stored, description) ==
    [p \in {q \in DOMAIN description :
               description[q].writable /\ Repaired(stored, q, description[q]) # {}} |->
        CHOOSE v \in Repaired(stored, p, description[p]) : TRUE]
=============================================================================
