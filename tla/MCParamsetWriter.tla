--------------------------- MODULE MCParamsetWriter --------------------------
(***************************************************************************)
(* Values for the constants of ParamsetWriter: two channels of one kind    *)
(* and an odd one, a number and an enum, and the kinds of calls.           *)
(***************************************************************************)
EXTENDS ParamsetWriter

CONSTANTS a, b      \* model values: two calls

Level == [TYPE |-> "FLOAT", writable |-> TRUE, DEFAULT |-> Num(0),
          MIN |-> Num(0), MAX |-> Num(2), VALUE_LIST |-> <<>>, SPECIAL |-> {}]
Mode == [TYPE |-> "ENUM", writable |-> TRUE, DEFAULT |-> Word("off"),
         MIN |-> Word("off"), MAX |-> Word("on"), VALUE_LIST |-> <<"off", "on">>, SPECIAL |-> {}]
MCDescription == [level |-> Level, mode |-> Mode]

MCIdentity == [c \in Channels |-> IF c = "odd" THEN Unidentified ELSE "dimmer"]

(* A channel as it should be, one whose level is out of its range and      *)
(* whose mode the interface process does not report, and one whose level   *)
(* is kept as a string.                                                    *)
Sound == [level |-> Num(0), mode |-> Num(0)]
Broken == [level |-> Num(8)]
Mistyped == [level |-> Digits(2), mode |-> Num(0)]
MCStored == {[c \in Channels |-> Sound],
             [c \in Channels |-> CASE c = "one" -> Broken [] c = "two" -> Mistyped
                                   [] OTHER -> Sound]}

Request(kind, targets, values) ==
    [kind |-> kind, targets |-> targets, values |-> values, writeAll |-> FALSE, always |-> {}]

(* A level for several channels, an edit of one of them, the same with all *)
(* that was not edited, a link with its mode, a value nobody may write, a  *)
(* repair of a device.                                                     *)
Bulk == Request("put", <<"one", "odd", "two">>, [level |-> Digits(2)])
Edit == Request("put", <<"one">>, [level |-> Num(0), mode |-> Word("on")])
EditAll == [Request("put", <<"one">>, [mode |-> Word("on")]) EXCEPT !.writeAll = TRUE]
Link == [Request("link", <<"two">>, [level |-> Num(2), mode |-> Num(0)]) EXCEPT !.always = {"mode"}]
Value == Request("value", <<"two">>, [level |-> Num(8)])
Repair == Request("repair", <<"one">>, Nothing)

MCRequests == (a :> {Bulk, EditAll, Repair}) @@ (b :> {Edit, Link, Value, Repair})
MCForeignWrites == {<<"one", "level", Num(2)>>}

(* Values of every kind, and a description of every type with and without  *)
(* bounds, names and special values.                                       *)
Values ==
    {Bool(x) : x \in BOOLEAN} \union {Num(n) : n \in -3..5} \union {Digits(n) : n \in -3..5}
        \union {Double(n) : n \in -3..5} \union {Undefined}
        \union {Word(w) : w \in {"", "false", "off", "on", "other", TooLong}}
Descriptions ==
    [TYPE : {"BOOL", "ACTION", "INTEGER", "FLOAT", "ENUM", "STRING", "OTHER"}, writable : BOOLEAN,
     DEFAULT : {Undefined}, MIN : {Undefined, Num(0), Word("off")}, MAX : {Num(2), Word("on")},
     VALUE_LIST : {<<>>, <<"off", "on">>}, SPECIAL : {{}, {4}}]

(* castValue(): "Casting is idempotent", so a value that the dialog has    *)
(* cast already is not spoilt by the backend casting it again.             *)
ASSUME CastOnce ==
    \A v \in Values, d \in Descriptions : Cast(Cast(v, d), d) = Cast(v, d)
=============================================================================
