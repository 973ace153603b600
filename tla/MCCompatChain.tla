--------------------------- MODULE MCCompatChain -----------------------------
(* A small instance of CompatChain for TLC. *)
EXTENDS CompatChain

Field(name, type) ==
    [name |-> name, type |-> type, label |-> "optional", typeName |-> ""]

\* Fields 1 and 2 absent, with one type or another, or renamed; retired with a
\* range each, with one range for both, or not at all; and a retired name.
Firsts == {Field("x", "string"), Field("x", "int32"), Field("z", "string")}
Seconds == {Field("y", "string"), Field("y", "int32")}
FieldMaps ==
    {[n \in {} |-> n]} \cup [{1} -> Firsts] \cup [{2} -> Seconds]
      \cup {[n \in {1, 2} |-> IF n = 1 THEN f ELSE g] : f \in Firsts, g \in Seconds}
Ranges == {{}, {<<1, 2>>}, {<<2, 3>>}, {<<1, 3>>}, {<<1, 2>>, <<2, 3>>}}

SomeMessages ==
    {d \in [fields: FieldMaps, ranges: Ranges, reservedNames: {{}, {"x"}}] :
        /\ Fields(d) \cap ReservedAsWritten(d) = {}
        /\ \A n \in Fields(d) : d.fields[n].name \notin d.reservedNames
        /\ d.reservedNames # {} => d.ranges # {}}

Enum(values, ranges) == [values |-> values, ranges |-> ranges, reservedNames |-> {}]
Value(v, n) == [x \in {v} |-> n]

SomeEnums ==
    {Enum(Value("A", 0), {}), Enum(Value("A", 0), {<<1, 1>>}), Enum(Value("A", 0), {<<1, 2>>}),
     Enum([x \in {"A", "B"} |-> IF x = "A" THEN 0 ELSE 2], {<<1, 1>>}),
     Enum([x \in {"A", "B"} |-> IF x = "A" THEN 0 ELSE 2], {}),
     Enum([x \in {"A", "B"} |-> IF x = "A" THEN 0 ELSE 1], {<<2, 2>>})}

\* Put is absent, or there with one response type or another, or streaming.
Method(in, out, streams) ==
    [input |-> in, output |-> out, clientStreaming |-> FALSE, serverStreaming |-> streams]
Get == Method("Q", "R", FALSE)
Puts == {Method("Q", "R", FALSE), Method("Q", "S", FALSE), Method("Q", "R", TRUE)}
SomeServices ==
    {[methods |-> [m \in {"Get"} |-> Get]]}
      \cup {[methods |-> [m \in {"Get", "Put"} |-> IF m = "Get" THEN Get ELSE put]] : put \in Puts}
=============================================================================
