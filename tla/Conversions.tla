---------------------------- MODULE Conversions -----------------------------
(***************************************************************************)
(* The conversion of values of all data types to and from JSON:            *)
(* TypeInfo::to_json and from_json (core/src/types.rs), and those the      *)
(* macro derives for structs and enums (derive/src/typeinfo.rs).           *)
(***************************************************************************)
EXTENDS Types

RECURSIVE ToJson(_, _), FromJson(_, _)

Is(t, name) == t.type = name

\* The members of a sequence or a record, or Fail if one of them failed.
AllOf(kind, members) ==
    IF \E i \in DOMAIN members : members[i] = Fail THEN Fail ELSE <<kind, members>>

Either(ok, result) == IF ok THEN result ELSE Fail

-----------------------------------------------------------------------------
(* One pair of conversions for each data type. *)

BoolToJson(t, v) == v
BoolFromJson(t, j) == Either(j[1] = "bool", j)

\* json! makes null of what is no number.
DoubleToJson(t, v) ==
    Either(Checks(t, v), IF v \in {NaN, Infinity} THEN JsonNull ELSE <<"real", v[2]>>)
DoubleFromJson(t, j) == Either(AsF64(j) # Fail /\ Checks(t, AsF64(j)), AsF64(j))

ScaledToJson(t, v) == Either(Within(Steps(t, v), t.min, t.max), <<"int", Steps(t, v)>>)
ScaledFromJson(t, j) ==
    Either(AsI64(j) # Fail /\ Within(j[2], t.min, t.max), <<"f64", j[2] * t.scale>>)

IntToJson(t, v) == Either(Within(v[2], t.min, t.max), <<"int", v[2]>>)
IntFromJson(t, j) == Either(AsI64(j) # Fail /\ Within(j[2], t.min, t.max), AsI64(j))

BlobToJson(t, v) == Either(Within(v[2], t.min, t.max), <<"str", <<"base64", v[2]>>>>)
BlobFromJson(t, j) ==
    Either(j[1] = "str" /\ j[2][1] = "base64" /\ Within(j[2][2], t.min, t.max),
           <<"bytes", j[2][2]>>)

\* The length is that in bytes; minchars is not looked at.
StrToJson(t, v) == Either(Within(v[2][2], {}, t.max), <<"str", v[2]>>)
StrFromJson(t, j) == Either(j[1] = "str" /\ Within(j[2][2], {}, t.max), <<"string", j[2]>>)

ArrayToJson(t, v) ==
    Either(Within(Len(v[2]), t.min, t.max),
           AllOf("arr", [i \in DOMAIN v[2] |-> ToJson(t.members, v[2][i])]))
ArrayFromJson(t, j) ==
    Either(j[1] = "arr" /\ Within(Len(j[2]), t.min, t.max),
           AllOf("vec", [i \in DOMAIN j[2] |-> FromJson(t.members, j[2][i])]))

TupleToJson(t, v) == AllOf("arr", [i \in DOMAIN t.members |-> ToJson(t.members[i], v[2][i])])
TupleFromJson(t, j) ==
    Either(j[1] = "arr" /\ Len(j[2]) = Len(t.members),
           AllOf("vec", [i \in DOMAIN j[2] |-> FromJson(t.members[i], j[2][i])]))

\* A variant of an enum goes by its number or its name.
Means(j, variant) ==
    \/ j = <<"int", variant[2]>>
    \/ j[1] = "str" /\ j[2][1] = variant[1]

EnumToJson(t, v) == Either(\E m \in t.members : m[2] = v[2], <<"int", v[2]>>)
EnumFromJson(t, j) ==
    Either(\E m \in t.members : Means(j, m), <<"enum", (CHOOSE m \in t.members : Means(j, m))[2]>>)

\* A member of a struct that is an Option is left out when it is None.
Given(fields, v) == {f \in DOMAIN fields : ~fields[f].option \/ v[f] # None}

MemberRequired(field, f, obj) ==  \* mutant: a missing Option is an error, too
    IF f \in DOMAIN obj THEN FromJson(field.info, obj[f]) ELSE Fail

\* A member of a struct; what else the object has is ignored.
Member(field, f, obj) ==
    IF f \in DOMAIN obj THEN FromJson(field.info, obj[f])
    ELSE IF field.option THEN None ELSE Fail

StructToJson(t, v) ==
    AllOf("obj", [f \in Given(t.members, v[2]) |-> ToJson(t.members[f].info, v[2][f])])
StructFromJson(t, j) ==
    Either(j[1] = "obj",
           AllOf("struct", [f \in DOMAIN t.members |-> Member(t.members[f], f, j[2])]))

-----------------------------------------------------------------------------
ToJson(t, v) ==
    CASE Is(t, "bool") -> BoolToJson(t, v)
      [] Is(t, "double") -> DoubleToJson(t, v)
      [] Is(t, "scaled") -> ScaledToJson(t, v)
      [] Is(t, "int") -> IntToJson(t, v)
      [] Is(t, "blob") -> BlobToJson(t, v)
      [] Is(t, "string") -> StrToJson(t, v)
      [] Is(t, "array") -> ArrayToJson(t, v)
      [] Is(t, "tuple") -> TupleToJson(t, v)
      [] Is(t, "enum") -> EnumToJson(t, v)
      [] Is(t, "struct") -> StructToJson(t, v)

FromJson(t, j) ==
    CASE Is(t, "bool") -> BoolFromJson(t, j)
      [] Is(t, "double") -> DoubleFromJson(t, j)
      [] Is(t, "scaled") -> ScaledFromJson(t, j)
      [] Is(t, "int") -> IntFromJson(t, j)
      [] Is(t, "blob") -> BlobFromJson(t, j)
      [] Is(t, "string") -> StrFromJson(t, j)
      [] Is(t, "array") -> ArrayFromJson(t, j)
      [] Is(t, "tuple") -> TupleFromJson(t, j)
      [] Is(t, "enum") -> EnumFromJson(t, j)
      [] Is(t, "struct") -> StructFromJson(t, j)
=============================================================================
