------------------------------- MODULE Types --------------------------------
(***************************************************************************)
(* The data types of parameters (core/src/types.rs), the enums the macro   *)
(* derives (derive/src/typeinfo.rs), the shorthand for data types in       *)
(* attributes (derive/src/lib.rs), and their values.                       *)
(*                                                                         *)
(* JSON and Rust values are tuples <<kind, content>>.  Real numbers are    *)
(* counted in halves.  A text is <<name, length in bytes>>, and the text   *)
(* <<"base64", n>> decodes to n bytes.  An optional bound is a set of at   *)
(* most one number.                                                        *)
(***************************************************************************)
EXTENDS Integers, Sequences

CONSTANT MaxI64  \* the largest i64

ASSUME WidthAssumption == MaxI64 \in Nat

Fail == <<"error">>
JsonNull == <<"null">>
NaN == <<"nan">>
Infinity == <<"infinity">>  \* larger than every number
None == <<"none">>

Within(n, min, max) == (\A m \in min : n >= m) /\ (\A m \in max : n <= m)

Bool == [type |-> "bool"]

\* The datainfo constructors, with their builder methods applied.
Double(min, max) == [type |-> "double", min |-> min, max |-> max]
Scaled(halves, min, max) == [type |-> "scaled", scale |-> halves, min |-> {min}, max |-> {max}]
IntRange(min, max) == [type |-> "int", min |-> {min}, max |-> {max}]
Blob(min, max) == [type |-> "blob", min |-> {min}, max |-> {max}]
Str(min, max) == [type |-> "string", min |-> {min}, max |-> {max}]
ArrayOf(min, max, info) == [type |-> "array", min |-> {min}, max |-> {max}, members |-> info]
Tuple(infos) == [type |-> "tuple", members |-> infos]
Struct(fields) == [type |-> "struct", members |-> fields]

\* The attribute's [Type; N] and [Type; N..=M].
Repeat(info, n) == ArrayOf(0, n, info)
RepeatRange(info, n, m) == ArrayOf(n, m, info)

\* A derived enum: each variant counts on from the one before, or has a number
\* of its own.
Enum(variants) ==
    LET number[i \in 0 .. Len(variants)] ==
          IF i = 0 THEN -1
          ELSE IF variants[i].explicit # {}
            THEN CHOOSE n \in variants[i].explicit : TRUE
          ELSE number[i - 1] + 1
    IN  [type |-> "enum",
         members |-> {<<variants[i].name, number[i]>> : i \in DOMAIN variants}]

-----------------------------------------------------------------------------
(* Numbers *)

\* Value::as_f64 and as_i64: a JSON number with a fraction part is no i64.
AsF64(j) == CASE j[1] = "int" -> <<"f64", 2 * j[2]>>
              [] j[1] = "real" -> <<"f64", j[2]>>
              [] OTHER -> Fail
AsI64(j) == IF j[1] = "int" THEN <<"i64", j[2]>> ELSE Fail

\* Double::check; a NaN is neither below nor above a bound.
Checks(t, v) == CASE v = NaN -> TRUE
                  [] v = Infinity -> t.max = {}
                  [] OTHER -> /\ \A m \in t.min : v[2] >= 2 * m
                              /\ \A m \in t.max : v[2] <= 2 * m

\* f64::round, half away from zero, of a / b.
Round(a, b) == IF a >= 0 THEN (2 * a + b) \div (2 * b) ELSE - ((b - 2 * a) \div (2 * b))

\* (val / scale).round() as i64: the cast saturates, and makes a NaN zero.
Steps(t, v) == CASE v = NaN -> 0
                 [] v = Infinity -> MaxI64
                 [] OTHER -> Round(v[2], t.scale)
=============================================================================
