----------------------------- MODULE MCStartup ------------------------------
(* Names, data types and values of the configuration and the hardware. *)
EXTENDS Startup, Conversions

FoldName(name) == IF name \in {"Ts", "TS"} THEN "ts" ELSE name

SomeNames ==
    {[modules |-> m, groups |-> g] :
       m \in SUBSET {"Ts", "TS", "ts", "tc"}, g \in SUBSET {"ts", "Ts", "grp"}}

Number(n) == <<"int", n>>
Text(name, len) == <<"str", <<name, len>>>>
String(name, len) == <<"string", <<name, len>>>>
F(halves) == <<"f64", halves>>
Vec(a) == <<"vec", a>>

Mode == Enum(<<[name |-> "off", explicit |-> {}], [name |-> "on", explicit |-> {3}],
               [name |-> "auto", explicit |-> {}]>>)

Pair == Struct([a |-> [info |-> Double({0}, {}), option |-> FALSE],
                b |-> [info |-> Double({0}, {}), option |-> TRUE]])

\* One entry of the menu: data type, JSON that is tried, hardware values.
Entry(info, json, values) ==
    [info |-> info, json |-> json, values |-> values,
     default |-> values[1], zero |-> values[2]]

PlainTypes ==
    {Entry(Bool, <<<<"bool", TRUE>>, Number(1)>>, <<<<"bool", TRUE>>, <<"bool", FALSE>>>>),
     Entry(Double({0}, {2}), <<Number(1), <<"real", 1>>, <<"real", 5>>, JsonNull>>,
           <<F(1), F(0), F(5), NaN>>),
     Entry(Double({}, {}), <<Number(1), JsonNull>>, <<F(-1), F(0), Infinity>>),
     Entry(Scaled(3, 0, 2), <<Number(2), Number(3), <<"real", 2>>>>,
           <<F(3), F(0), F(4), NaN, Infinity>>),
     Entry(Scaled(3, 0, MaxI64), <<Number(MaxI64), Number(-1)>>, <<F(3), F(0), Infinity>>),
     Entry(IntRange(-1, 1), <<Number(-1), Number(2), <<"real", 2>>>>,
           <<<<"i64", 1>>, <<"i64", 0>>, <<"i64", 2>>>>),
     Entry(Blob(1, 2), <<Text("base64", 1), Text("base64", 3), Text("&", 1)>>,
           <<<<"bytes", 2>>, <<"bytes", 0>>>>),
     Entry(Str(1, 2), <<Text("ab", 2), Text("abc", 3)>>, <<String("a", 1), String("", 0), String("abc", 3)>>)}

CompoundTypes ==
    {Entry(RepeatRange(IntRange(0, 1), 1, 2),
           <<<<"arr", <<>>>>, <<"arr", <<Number(1), Number(0)>>>>, <<"arr", <<Number(2)>>>>>>,
           <<Vec(<<<<"i64", 1>>>>), Vec(<<>>), Vec(<<<<"i64", 1>>, <<"i64", 1>>>>)>>),
     Entry(Repeat(Bool, 1), <<<<"arr", <<>>>>, <<"arr", <<<<"bool", TRUE>>, <<"bool", FALSE>>>>>>>>,
           <<Vec(<<<<"bool", TRUE>>>>), Vec(<<>>)>>),
     Entry(Tuple(<<Mode, Str(0, 1)>>),
           <<<<"arr", <<Text("on", 2), Text("a", 1)>>>>, <<"arr", <<Number(4), Text("ab", 2)>>>>,
             <<"arr", <<Number(4)>>>>>>,
           <<Vec(<<<<"enum", 0>>, String("a", 1)>>), Vec(<<<<"enum", 4>>, String("", 0)>>)>>),
     Entry(Mode, <<Text("auto", 4), Number(3), Number(1)>>, <<<<"enum", 3>>, <<"enum", 0>>>>),
     Entry(Pair, <<<<"obj", [a |-> Number(1), b |-> Number(0)]>>, <<"obj", [a |-> Number(1)]>>,
                   <<"obj", [b |-> Number(1)]>>>>,
           <<<<"struct", [a |-> F(0), b |-> None]>>, <<"struct", [a |-> F(0), b |-> F(2)]>>,
             <<"struct", [a |-> F(-1), b |-> None]>>, <<"struct", [a |-> NaN, b |-> None]>>>>)}

TypeMenu ==
    [p |-> PlainTypes \cup CompoundTypes,
     q |-> {Entry(IntRange(0, 1), <<Number(0), Number(2)>>, <<<<"i64", 1>>, <<"i64", 0>>>>)}]
=============================================================================
