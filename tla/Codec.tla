------------------------------- MODULE Codec -------------------------------
(***************************************************************************)
(* The walker of nested DOP2 bodies (src/custom_components/miele_lan/      *)
(* dop2.py), beside the rest of what Wire decodes and encodes.             *)
(***************************************************************************)
EXTENDS Wire

CONSTANTS
    Fields,     \* those that occur in a body, at any depth
    Depth       \* of each, how deep it nests

\* _ARRAY_TYPES.
ArrayWidth == [t \in (17..29) \ {28} |-> Width[t - 16]]
MStruct == 16
MString == 32
AStruct == 33

ArrayBytesUnscaled(t, n) == n
ArrayBytes(t, n) == n * ArrayWidth[t]

Known == DOMAIN Width \cup DOMAIN ArrayWidth \cup {MStruct, MString, AStruct}

\* A field as it is decoded, or to be encoded, is its type and its value: the fields of a
\* struct, the structs or the numbers of an array, or bytes.
Array == {f \in [type : DOMAIN ArrayWidth, value : Seq(Seq(Byte))] :
                \A i \in DOMAIN f.value : Len(f.value[i]) = ArrayWidth[f.type]}

Inside(f) ==
    CASE f.type = MStruct -> Range(f.value)
      [] f.type = AStruct -> UNION {Range(f.value[i]) : i \in DOMAIN f.value}
      [] f.type \notin {MStruct, AStruct} -> {}

\* A count is of 16 bits.
Countable(list) == Len(list) < 65536

WellFormed(f) ==
    CASE f.type \in DOMAIN Width -> f \in Scalar
      [] f.type \in DOMAIN ArrayWidth -> f \in Array /\ Countable(f.value)
      [] f.type = MString -> f \in [type : {MString}, value : Seq(Byte)] /\ Countable(f.value)
      [] f.type = MStruct ->
            f \in [type : {MStruct}, value : Seq(Fields)] /\ Countable(f.value)
      [] f.type = AStruct ->
            /\ f \in [type : {AStruct}, value : Seq(Seq(Fields))] /\ Countable(f.value)
            /\ \A i \in DOMAIN f.value : Countable(f.value[i])
      [] f.type \notin Known -> f \in [type : Byte \ Known, value : Seq(Byte)]

\* Nothing nests without end.
ASSUME FieldsAssumption ==
    /\ \A f \in Fields : WellFormed(f)
    /\ Depth \in [Fields -> Nat]
    /\ \A f \in Fields : \A g \in Inside(f) : Depth[g] < Depth[f]
ASSUME TreesAssumption == \A tree \in Trees : tree \in Seq(Fields) /\ Countable(tree)

-----------------------------------------------------------------------------
(* The walker.  `below` is what the calls return that a call makes: for an *)
(* offset and a count, of fields or of elements, what is there and the     *)
(* offset behind it.  The rounds of a loop are calls, too.                 *)

\* A dictionary with an entry more; a later one of the same index stays.
Stored(fields, index, field) ==
    [i \in DOMAIN fields \cup {index} |-> IF i \in DOMAIN fields THEN fields[i] ELSE field]

WalkFields(buf, off, count, below) ==
    LET t == buf[off + 3]
        at == off + 3
        n == U16(buf, at)
        Stop(end) == [fields |-> << >>, off |-> end]
        Keep(value, rest) ==
            [fields |-> Stored(rest.fields, U16(buf, off), [type |-> t, value |-> value]),
             off |-> rest.off]
        Store(value, end) == Keep(value, below.fields[<<end, count - 1>>])
    IN IF count = 0 \/ ~ Fits(buf, off, 3) THEN Stop(off)
       ELSE IF t \in DOMAIN Width
            THEN IF Fits(buf, at, Width[t])
                 THEN Store(Bytes(buf, at, Width[t]), at + Width[t]) ELSE Stop(at)
       ELSE IF t \notin Known THEN Keep(Unknown, Stop(at))
       ELSE IF ~ Fits(buf, at, 2) THEN Stop(at)
       ELSE CASE t = MStruct ->
                    LET inner == below.fields[<<at + 2, n>>]
                    IN Store(inner.fields, inner.off)
              [] t = AStruct ->
                    LET inner == below.elements[<<at + 2, n>>]
                    IN Store(inner.elements, inner.off)
              [] t \in DOMAIN ArrayWidth ->
                    LET w == ArrayWidth[t]
                    IN IF Fits(buf, at + 2, ArrayBytes(t, n))
                       THEN Store([i \in 1..n |-> Bytes(buf, at + 2 + (i - 1) * w, w)],
                                  at + 2 + ArrayBytes(t, n))
                       ELSE Stop(at + 2)
              [] t = MString -> Store(Bytes(buf, at + 2, n), at + 2 + n)

WalkElements(buf, off, count, below) ==
    LET inner == below.fields[<<off + 2, U16(buf, off)>>]
        rest == below.elements[<<inner.off, count - 1>>]
    IN IF count = 0 \/ ~ Fits(buf, off, 2) THEN [elements |-> << >>, off |-> off]
       ELSE [elements |-> <<inner.fields>> \o rest.elements, off |-> rest.off]

\* _walk_fields, with at most n calls below each other.
Walk(buf) ==
    LET calls[n \in Nat] ==
            IF n = 0
            THEN [fields |-> [p \in Nat \X Nat |-> [fields |-> << >>, off |-> p[1]]],
                  elements |-> [p \in Nat \X Nat |-> [elements |-> << >>, off |-> p[1]]]]
            ELSE [fields |-> [p \in Nat \X Nat |->
                                WalkFields(buf, p[1], p[2], calls[n - 1])],
                  elements |-> [p \in Nat \X Nat |->
                                WalkElements(buf, p[1], p[2], calls[n - 1])]]
    IN calls

\* parse_struct.  A call is made two bytes or more behind the one that makes it, and
\* makes none at the end.
ParseStruct(buf, off) ==
    IF Fits(buf, off, 2)
    THEN Walk(buf)[Len(buf)].fields[<<off + 2, U16(buf, off)>>].fields ELSE << >>

-----------------------------------------------------------------------------
(* The wire format, from the module comment of dop2.py.                    *)

\* What precedes a value: the index of the field and its type.
Tag(i, t) == Append(Two(i), t)

\* Of a body, when `of` has the bytes of the values in it.
BodyBytes(fields, of) ==
    Two(Len(fields)) \o FlattenSeq(
        [i \in 1..Len(fields) |-> Tag(i, fields[i].type) \o of[fields[i]]])

ValueBytes(f, of) ==
    CASE f.type = MStruct -> BodyBytes(f.value, of)
      [] f.type = AStruct -> Two(Len(f.value)) \o FlattenSeq(
            [i \in 1..Len(f.value) |-> BodyBytes(f.value[i], of)])
      [] f.type \in DOMAIN ArrayWidth -> Two(Len(f.value)) \o FlattenSeq(f.value)
      [] f.type = MString -> Two(Len(f.value)) \o f.value
      [] f.type \notin {MStruct, AStruct, MString} \cup DOMAIN ArrayWidth -> f.value

EncodedValue == LET of[f \in Fields] == ValueBytes(f, of) IN of
EncodedBody(fields) == BodyBytes(fields, EncodedValue)

Decoded(fields) == ParseStruct(EncodedBody(fields), 0)

\* A field with one of an unknown type in it ends the walk: after it no value can be told.
HoldsUnknown ==
    LET holds[f \in Fields] == f.type \notin Known \/ \E g \in Inside(f) : holds[g]
    IN holds
Ends(fields) == {i \in 1..Len(fields) : HoldsUnknown[fields[i]]}

-----------------------------------------------------------------------------
(* Properties.                                                             *)

\* The walker returns what was encoded, however structs, arrays and strings nest; the
\* first field of an unknown type is kept without a value and ends it, unless it lies
\* deeper (dop2.py:124-198).
BodiesDecode ==
    message.kind = "body" =>
        LET fields == message.tree
            end == Min(Ends(fields))
        IN /\ Ends(fields) = {} => Decoded(fields) = fields
           /\ Ends(fields) # {} /\ fields[end].type \notin Known =>
                Decoded(fields) =
                    [i \in 1..end |-> IF i = end THEN [fields[i] EXCEPT !.value = Unknown]
                                      ELSE fields[i]]

\* dop2.py:193: "The size of an unknown type is unknown too: stop rather than read the
\* following bytes at a wrong offset."  So no field behind one is ever reported, however
\* deep it lies.
UnknownEndsTheWalk ==
    message.kind = "body" /\ Ends(message.tree) # {} =>
        DOMAIN Decoded(message.tree) \subseteq 1..Min(Ends(message.tree))
=============================================================================
