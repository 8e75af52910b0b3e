------------------------------- MODULE Codecs -------------------------------
(***************************************************************************)
(* How the settings turn values into JSON and back (codecs.cpp).  A JSON   *)
(* value is a pair of its type and what it holds; a number counts units of *)
(* 1/Unit so that some of them are not integers.  A result is a set, empty *)
(* for a DecodeResult with an error.  The machine loads a file into a      *)
(* property, writes the property and saves it.                             *)
(***************************************************************************)
EXTENDS Integers, Sequences

CONSTANTS
    Unit,
    IntMin, IntMax,
    Numbers,      \* numbers of JSON, in units
    Strings,
    Folded,       \* string -> string without case
    Enum,         \* the meta enum
    MaxList       \* bound on the length of lists

ASSUME CodecAssumption ==
    /\ Unit \in Nat \ {0} /\ IntMin \in Int /\ IntMax \in Int
    /\ Numbers \subseteq Int /\ MaxList \in Nat
    /\ Folded \in [Strings -> Strings]
    /\ Enum \in Seq([key : Strings, value : IntMin..IntMax])
    \* Enumerators differ in more than case.
    /\ \A i, j \in DOMAIN Enum : Folded[Enum[i].key] = Folded[Enum[j].key] => i = j

VARIABLES
    optionType,   \* of the property
    saved,        \* what the file says of it
    memory        \* what it holds, empty before anything is known
codecVars == <<optionType, saved, memory>>

Scalars == {"bool", "int", "real", "string", "enum"}
ListTypes == {"list of string", "list of real"}
ElementOf(t) == IF t = "list of string" THEN "string" ELSE "real"

Plain == {<<"null", 0>>} \cup ({"bool"} \X BOOLEAN)
             \cup ({"number"} \X Numbers) \cup ({"string"} \X Strings)
Jsons == Plain \cup ({"array"} \X UNION {[1..n -> Plain] : n \in 0..MaxList})

\* ------------------------------------------------------------ decoding

\* IntCodec::decode
DecodeInt(n) ==
    IF n % Unit = 0 /\ n >= IntMin * Unit /\ n <= IntMax * Unit THEN {n \div Unit} ELSE {}

\* The position of the key instead of its value
MutDecodeEnum(key) == {i - 1 : i \in {i \in DOMAIN Enum : Folded[Enum[i].key] = Folded[key]}}

\* EnumCodec::decode: the first key that is the same but for case
DecodeEnum(key) ==
    {Enum[i].value : i \in {i \in DOMAIN Enum : Folded[Enum[i].key] = Folded[key]}}

DecodeScalar(t, json) ==
    CASE t = "bool" /\ json[1] = "bool" -> {json[2]}
      [] t = "int" /\ json[1] = "number" -> DecodeInt(json[2])
      [] t = "real" /\ json[1] = "number" -> {json[2]}
      [] t = "string" /\ json[1] = "string" -> {json[2]}
      [] t = "enum" /\ json[1] = "string" -> DecodeEnum(json[2])
      [] OTHER -> {}

The(result) == CHOOSE value \in result : TRUE

\* ListCodec::decode rejects the entire list if any element is invalid.
DecodeList(t, array) ==
    IF \E i \in DOMAIN array : DecodeScalar(t, array[i]) = {} THEN {}
    ELSE {[i \in DOMAIN array |-> The(DecodeScalar(t, array[i]))]}

Decode(t, json) ==
    IF t \notin ListTypes THEN DecodeScalar(t, json)
    ELSE IF json[1] = "array" THEN DecodeList(ElementOf(t), json[2]) ELSE {}

\* ------------------------------------------------------------ encoding

\* EnumCodec::encode: null for a value without an enumerator
EncodeEnum(value) ==
    LET keys == {i \in DOMAIN Enum : Enum[i].value = value}
    IN  IF keys = {} THEN <<"null", 0>>
        ELSE <<"string", Enum[CHOOSE i \in keys : \A j \in keys : i <= j].key>>

EncodeScalar(t, value) ==
    CASE t = "bool" -> <<"bool", value>>
      [] t = "int" -> <<"number", value * Unit>>
      [] t = "real" -> <<"number", value>>
      [] t = "string" -> <<"string", value>>
      [] t = "enum" -> EncodeEnum(value)

Encode(t, value) ==
    IF t \notin ListTypes THEN EncodeScalar(t, value)
    ELSE <<"array", [i \in DOMAIN value |-> EncodeScalar(ElementOf(t), value[i])]>>

\* ------------------------------------------------------------- machine

\* What a property of a type can hold.  An enum property is an int.
ScalarValues(t) ==
    CASE t = "bool" -> BOOLEAN
      [] t = "int" -> IntMin..IntMax
      [] t = "real" -> Numbers
      [] t = "string" -> Strings
      [] t = "enum" -> IntMin..IntMax
ValuesOf(t) ==
    IF t \notin ListTypes THEN ScalarValues(t)
    ELSE UNION {[1..n -> ScalarValues(ElementOf(t))] : n \in 0..MaxList}

CodecInit ==
    /\ optionType \in Scalars \cup ListTypes
    /\ saved \in Jsons
    /\ memory = {}

\* loadFromJson: what is not decoded stays as it was
LoadOption ==
    /\ memory' = IF Decode(optionType, saved) = {} THEN memory ELSE Decode(optionType, saved)
    /\ UNCHANGED <<optionType, saved>>

WriteOption(value) ==
    /\ memory' = {value}
    /\ UNCHANGED <<optionType, saved>>

\* toJson
SaveOption ==
    /\ memory # {}
    /\ saved' = Encode(optionType, The(memory))
    /\ UNCHANGED <<optionType, memory>>

CodecNext == LoadOption \/ (\E value \in ValuesOf(optionType) : WriteOption(value)) \/ SaveOption

CodecSpec == CodecInit /\ [][CodecNext]_codecVars

\* --------------------------------------------------------- properties

\* A property only ever holds one value of its type, in range, whatever the
\* file says (the codecs' decode).
CodecTypeOK == \A value \in memory : memory = {value} /\ value \in ValuesOf(optionType)

\* What is saved loads as what it was, unless it is an int that is no
\* enumerator (EnumCodec::encode).
SavedIsLoaded ==
    \A value \in memory :
        optionType # "enum" \/ (\E i \in DOMAIN Enum : Enum[i].value = value)
            => Decode(optionType, Encode(optionType, value)) = {value}

\* What is loaded saves as what it was, to the last element of a list, but
\* for the case of an enumerator and which of two names of a value is used.
LoadedIsSaved ==
    \A value \in Decode(optionType, saved) :
        optionType # "enum" => Encode(optionType, value) = saved

\* A value has its type, and loading and saving lose nothing.
CodecsAgree == CodecTypeOK /\ SavedIsLoaded /\ LoadedIsSaved
=============================================================================
