---- MODULE HostValues ----
(* The values that travel from a Lua call to the code that carries it out.

   A value is what it is in JSON (`kind`), its entries (`items`), and which parts
   of the caller's arguments it carries (`from`).  A part is <<param, piece>>: one
   option of an options table, one entry of a list, or the whole argument.  What a
   string or a number says plays no role; that an encoded string is an encoding does. *)
EXTENDS Naturals, Sequences, FiniteSets

Value(kind, items, from) == [kind |-> kind, items |-> items, from |-> from]

Absent == Value("absent", <<>>, {})
Null == Value("null", <<>>, {})
Text(from) == Value("string", <<>>, from)
Default(kind) == Value(kind, <<>>, {})
AString == Default("string")
ANumber == Default("number")
ABoolean == Default("boolean")

Carried(items) == UNION {items[k].from : k \in DOMAIN items}
Object(items) == Value("object", items, Carried(items))
Array(items) == Value("array", items, Carried(items))
NoFields == [k \in {} |-> Absent]

IsGiven(v) == v.kind \notin {"absent", "null"}

(* Reading a value the way JavaScript does: a missing entry, or an entry of
   something that has none, is undefined. *)
Field(v, k) ==
    IF v.kind = "object" /\ k \in DOMAIN v.items THEN v.items[k] ELSE Absent
Entry(v, i) ==
    IF v.kind = "array" /\ i \in DOMAIN v.items THEN v.items[i] ELSE Absent

(* `a ?? b` and, for the values that occur here, `a || b`. *)
OrElse(a, b) == IF IsGiven(a) THEN a ELSE b

(* asRecord: anything but an object is an empty object. *)
AsRecord(v) == IF v.kind = "object" THEN v ELSE Object(NoFields)

(* The kinds a field of a parameter type accepts. *)
String == {"string"}
StringOr == {"string", "absent"}
Nullable == {"string", "null"}
NullableOr == {"string", "null", "absent"}
Encoded == {"base64"}
Number == {"number"}
NumberOr == {"number", "null", "absent"}
Boolean == {"boolean"}
BooleanOr == {"boolean", "absent"}
Anything == {"string", "base64", "number", "boolean", "null", "object", "array"}
AnythingOr == Anything \union {"absent"}
Record == {"object"}
RecordOr == {"object", "absent"}
List == {"array"}

(* z.bigint(), which no value parsed from JSON satisfies, and z.coerce.bigint(). *)
Bigint == {}
BigintOr == {"absent"}
Coerced == {"number", "boolean"}
CoercedOr == Coerced \union {"absent"}
====
