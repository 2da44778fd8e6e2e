---------------------------- MODULE CodecProofs -----------------------------
(***************************************************************************)
(* What TLAPS proves of Wire and Codec, for leaves, framings, ids, values  *)
(* and bodies of any length, and for fields that nest to any depth.        *)
(*                                                                         *)
(* Their loops are recursive functions.  The library's theorems on         *)
(* induction and recursion take an operator; Least, Recursion and          *)
(* DeepRecursion below take sets and functions in its place, so they can be*)
(* cited by name.  What a lemma needs of a context in several parts has a  *)
(* name of its own (Ahead, Offsets, Starts, ...): a leaf then cites one    *)
(* fact where the provers would have to match them all.                    *)
(***************************************************************************)
EXTENDS Codec, SequenceTheorems, WellFoundedInduction, TLAPS

-----------------------------------------------------------------------------
(* Induction and recursion.                                                *)

\* A set of naturals with a member has a least one.
LEMMA Least ==
    ASSUME NEW T, T \subseteq Nat, T # {}
    PROVE  \E x \in T : \A y \in T : x <= y
<1> DEFINE R == {pair \in Nat \X Nat : pair[1] < pair[2]}
<1>1. IsWellFoundedOn(R, Nat)
    BY NatLessThanWellFounded DEF OpToRel
<1>2. \A x, y \in Nat : <<y, x>> \notin R => x <= y
    <2> TAKE x, y \in Nat
    <2>1. y < x => <<y, x>> \in R
        OBVIOUS
    <2> QED
        BY <2>1
<1> HIDE DEF R
<1>3. \E x \in T : \A y \in T : <<y, x>> \notin R
    BY <1>1, WFMin
<1> QED
    BY <1>2, <1>3

\* A set of naturals that holds n whenever it holds all that precede n holds them all.
LEMMA Induction ==
    ASSUME NEW S, \A n \in Nat : (\A m \in Nat : m < n => m \in S) => n \in S
    PROVE  Nat \subseteq S
<1> SUFFICES ASSUME Nat \ S # {} PROVE FALSE
    OBVIOUS
<1>1. PICK n \in Nat \ S : \A m \in Nat \ S : n <= m
    BY Least
<1>2. \A m \in Nat : m < n => m \in S
    BY <1>1
<1> QED
    BY <1>1, <1>2

\* What f must be at x, and where x is of less rank than n, when f is given outright on
\* `stop` and elsewhere from its value at a point of less rank.
Obeys(f, x, stop, val, jump, join) ==
    f[x] = IF x \in stop THEN val[x] ELSE join[x][f[jump[x]]]
ObeysBelow(f, n, rank, stop, val, jump, join) ==
    \A x \in DOMAIN rank : rank[x] < n => Obeys(f, x, stop, val, jump, join)

\* Two functions that obey below a rank are one there.
LEMMA RecursionUnique ==
    ASSUME NEW D, NEW stop \in SUBSET D, NEW val, NEW jump \in [D -> D], NEW join,
           NEW rank \in [D -> Nat], \A x \in D \ stop : rank[jump[x]] < rank[x],
           NEW f, NEW g, NEW n \in Nat,
           ObeysBelow(f, n, rank, stop, val, jump, join),
           ObeysBelow(g, n, rank, stop, val, jump, join)
    PROVE  \A x \in D : rank[x] < n => f[x] = g[x]
<1> DEFINE S == {k \in Nat : \A x \in D : rank[x] = k /\ k < n => f[x] = g[x]}
<1>1. ASSUME NEW k \in Nat, \A m \in Nat : m < k => m \in S
      PROVE  k \in S
    <2> SUFFICES ASSUME NEW x \in D, rank[x] = k, k < n PROVE f[x] = g[x]
        OBVIOUS
    <2>1. x \notin stop => f[jump[x]] = g[jump[x]]
        BY <1>1
    <2> QED
        BY <2>1 DEF ObeysBelow, Obeys
<1> HIDE DEF S
<1>2. Nat \subseteq S
    BY <1>1, Induction
<1> QED
    BY <1>2 DEF S

\* Such a function exists.
LEMMA Recursion ==
    ASSUME NEW D, NEW V, NEW stop \in SUBSET D, NEW val \in [D -> V],
           NEW jump \in [D -> D], NEW join \in [D -> [V -> V]], NEW rank \in [D -> Nat],
           \A x \in D \ stop : rank[jump[x]] < rank[x]
    PROVE  \E f \in [D -> V] : \A x \in D : Obeys(f, x, stop, val, jump, join)
<1> DEFINE Below(f, n) == ObeysBelow(f, n, rank, stop, val, jump, join)
<1>1. \A n \in Nat : \E f \in [D -> V] : Below(f, n)
    <2> DEFINE S == {n \in Nat : \E f \in [D -> V] : Below(f, n)}
    <2>1. ASSUME NEW n \in Nat, \A m \in Nat : m < n => m \in S
          PROVE  n \in S
        <3>1. CASE n = 0
            BY <3>1 DEF ObeysBelow
        <3>2. CASE n > 0
            <4>1. n - 1 \in S
                BY <2>1, <3>2
            <4>2. PICK f \in [D -> V] : Below(f, n - 1)
                BY <4>1
            <4> DEFINE g == [x \in D |-> IF rank[x] < n - 1 THEN f[x]
                                         ELSE IF x \in stop THEN val[x]
                                         ELSE join[x][f[jump[x]]]]
            <4>3. g \in [D -> V]
                OBVIOUS
            <4>4. ASSUME NEW x \in D, rank[x] < n
                  PROVE  Obeys(g, x, stop, val, jump, join)
                <5>1. x \notin stop => g[jump[x]] = f[jump[x]]
                    BY <4>4
                <5>2. rank[x] < n - 1 => g[x] = f[x] /\ Obeys(f, x, stop, val, jump, join)
                    BY <4>2 DEF ObeysBelow
                <5> QED
                    BY <5>1, <5>2 DEF Obeys
            <4> HIDE DEF g
            <4> QED
                BY <4>3, <4>4 DEF ObeysBelow
        <3> QED
            BY <3>1, <3>2
    <2> HIDE DEF S
    <2>2. Nat \subseteq S
        BY <2>1, Induction
    <2> QED
        BY <2>2 DEF S
<1> DEFINE pick == [n \in Nat |-> CHOOSE f \in [D -> V] : Below(f, n)]
<1>2. \A n \in Nat : pick[n] \in [D -> V] /\ Below(pick[n], n)
    BY <1>1
<1> HIDE DEF pick
<1>3. \A n, m \in Nat : m <= n => \A x \in D : rank[x] < m => pick[n][x] = pick[m][x]
    <2> SUFFICES ASSUME NEW n \in Nat, NEW m \in Nat, m <= n
                 PROVE  \A x \in D : rank[x] < m => pick[n][x] = pick[m][x]
        OBVIOUS
    <2>1. Below(pick[n], m) /\ Below(pick[m], m)
        BY <1>2 DEF ObeysBelow
    <2> QED
        BY <2>1, RecursionUnique
<1> DEFINE F == [x \in D |-> pick[rank[x] + 1][x]]
<1>4. F \in [D -> V]
    BY <1>2
<1>5. ASSUME NEW x \in D
      PROVE  Obeys(F, x, stop, val, jump, join)
    <2>1. Obeys(pick[rank[x] + 1], x, stop, val, jump, join)
        BY <1>2 DEF ObeysBelow
    <2>2. ASSUME x \notin stop
          PROVE  F[jump[x]] = pick[rank[x] + 1][jump[x]]
        <3>1. rank[jump[x]] + 1 <= rank[x] + 1
            BY <2>2
        <3>2. pick[rank[x] + 1][jump[x]] = pick[rank[jump[x]] + 1][jump[x]]
            BY <1>3, <3>1
        <3> QED
            BY <3>2
    <2> QED
        BY <2>1, <2>2 DEF Obeys
<1> QED
    BY <1>4, <1>5

-----------------------------------------------------------------------------
(* Sequences.                                                              *)

\* The elements of a slice that is there.
LEMMA Slice ==
    ASSUME NEW T, NEW s \in Seq(T), NEW off \in Nat, NEW n \in Nat, off + n <= Len(s)
    PROVE  /\ SubSeq(s, off + 1, off + n) \in Seq(T)
           /\ Len(SubSeq(s, off + 1, off + n)) = n
           /\ \A j \in 1..n : SubSeq(s, off + 1, off + n)[j] = s[off + j]
<1> DEFINE first == off + 1
           last == off + n
<1>1. first \in Int /\ last \in Int /\ \A i \in first..last : s[i] \in T
    BY ElementOfSeq
<1>2. /\ last - first + 1 = n /\ (first <= last <=> n > 0)
      /\ \A j \in Int : first + j - 1 = off + j
    OBVIOUS
<1> HIDE DEF first, last
<1>3. /\ SubSeq(s, first, last) \in Seq(T)
      /\ Len(SubSeq(s, first, last)) = IF first <= last THEN last - first + 1 ELSE 0
      /\ \A j \in 1..(last - first + 1) : SubSeq(s, first, last)[j] = s[first + j - 1]
    BY <1>1, SubSeqProperties
<1>4. Len(SubSeq(s, first, last)) = n
    BY <1>2, <1>3
<1>5. \A j \in 1..n : SubSeq(s, first, last)[j] = s[off + j]
    BY <1>2, <1>3
<1> QED
    BY <1>3, <1>4, <1>5 DEF first, last

-----------------------------------------------------------------------------
(* The loop of parse_simple_leaf.                                          *)

Attribute == [index : Nat, value : Seq(Byte) \cup {Unknown}]
Loop == [off : Nat, more : BOOLEAN, attributes : Seq(Attribute)]

\* A slice of bytes is bytes.
LEMMA BytesType ==
    ASSUME NEW buf \in Seq(Byte), NEW off \in Nat, NEW n \in Nat
    PROVE  Bytes(buf, off, n) \in Seq(Byte)
<1>1. \A last \in Nat : last <= Len(buf) => SubSeq(buf, off + 1, last) \in Seq(Byte)
    <2> TAKE last \in Nat
    <2> HAVE last <= Len(buf)
    <2>1. \A i \in (off + 1)..last : buf[i] \in Byte
        OBVIOUS
    <2> QED
        BY <2>1, SubSeqProperties
<1> QED
    BY <1>1 DEF Bytes

\* A round of the loop keeps its types.
LEMMA NextAttributeType ==
    ASSUME NEW payload \in Seq(Byte), NEW loop \in Loop
    PROVE  NextAttribute(payload, loop) \in Loop
<1>1. CASE ~ loop.more \/ ~ Fits(payload, loop.off, 3)
    BY <1>1 DEF NextAttribute, Loop
<1>2. CASE loop.more /\ Fits(payload, loop.off, 3)
    <2> DEFINE t == payload[loop.off + 3]
    <2>0. loop.off \in Nat /\ loop.off + 3 <= Len(payload) /\ Len(payload) \in Nat
        BY <1>2 DEF Fits, Loop
    <2>1. /\ payload[loop.off + 1] \in Byte /\ payload[loop.off + 2] \in Byte /\ t \in Byte
          /\ U16(payload, loop.off) \in Nat
        <3>1. \A i \in 1..Len(payload) : payload[i] \in Byte
            BY ElementOfSeq
        <3>2. payload[loop.off + 1] \in Byte /\ payload[loop.off + 2] \in Byte /\ t \in Byte
            BY <2>0, <3>1
        <3>3. \A a, b \in Byte : 256 * a + b \in Nat
            BY DEF Byte
        <3>4. U16(payload, loop.off) \in Nat
            BY <3>2, <3>3 DEF U16
        <3> QED
            BY <3>2, <3>4
    <2>2. CASE t \notin DOMAIN Width
        BY <1>2, <2>1, <2>2, AppendProperties DEF NextAttribute, Loop, Attribute
    <2>3. CASE t \in DOMAIN Width
        <3>1. Width[t] \in Nat
            BY <2>3 DEF Width
        <3>2. loop.off + 3 \in Nat
            BY <2>0
        <3>3. Bytes(payload, loop.off + 3, Width[t]) \in Seq(Byte)
            BY <3>1, <3>2, BytesType
        <3> DEFINE new == [index |-> U16(payload, loop.off),
                           value |-> Bytes(payload, loop.off + 3, Width[t])]
        <3>4. new \in Attribute
            BY <2>1, <3>3 DEF Attribute
        <3>5. Append(loop.attributes, new) \in Seq(Attribute)
            BY <3>4, AppendProperties DEF Loop
        <3>6. [off |-> loop.off + 3 + Width[t], more |-> TRUE,
               attributes |-> Append(loop.attributes, new)] \in Loop
            BY <3>1, <3>2, <3>5 DEF Loop
        <3> QED
            BY <1>2, <2>3, <3>6 DEF NextAttribute, Loop
    <2> QED
        BY <2>2, <2>3
<1> QED
    BY <1>1, <1>2

\* The loop exists: it starts at Start, and each round follows from the one before.
LEMMA ScanRounds ==
    ASSUME NEW payload \in Seq(Byte)
    PROVE  /\ Scan(payload)[0] = Start
           /\ \A i \in Nat : Scan(payload)[i + 1] = NextAttribute(payload, Scan(payload)[i])
<1> DEFINE After(f) == f = [i \in Nat |-> IF i = 0 THEN Start
                                          ELSE NextAttribute(payload, f[i - 1])]
           stop == {0}
           val == [i \in Nat |-> Start]
           jump == [i \in Nat |-> IF i = 0 THEN 0 ELSE i - 1]
           join == [i \in Nat |-> [loop \in Loop |-> NextAttribute(payload, loop)]]
           rank == [i \in Nat |-> i]
<1>1. Start \in Loop
    BY DEF Start, Loop
<1>2. \E f \in [Nat -> Loop] : \A i \in Nat : Obeys(f, i, stop, val, jump, join)
    <2>1. /\ stop \in SUBSET Nat /\ val \in [Nat -> Loop] /\ jump \in [Nat -> Nat]
          /\ join \in [Nat -> [Loop -> Loop]] /\ rank \in [Nat -> Nat]
          /\ \A i \in Nat \ stop : rank[jump[i]] < rank[i]
        BY <1>1, NextAttributeType
    <2> HIDE DEF stop, val, jump, join, rank
    <2> QED
        BY <2>1, Recursion
<1>3. PICK f \in [Nat -> Loop] : \A i \in Nat : Obeys(f, i, stop, val, jump, join)
    BY <1>2
<1>4. After(f)
    <2>1. \A i \in Nat : f[i] = IF i = 0 THEN Start ELSE NextAttribute(payload, f[i - 1])
        <3> TAKE i \in Nat
        <3>1. CASE i = 0
            BY <1>3, <3>1 DEF Obeys
        <3>2. CASE i # 0
            <4>1. i - 1 \in Nat /\ f[i - 1] \in Loop
                BY <3>2
            <4>2. f[i] = join[i][f[i - 1]]
                BY <1>3, <3>2 DEF Obeys
            <4> QED
                BY <3>2, <4>1, <4>2
        <3> QED
            BY <3>1, <3>2
    <2> QED
        BY <2>1
<1>5. Scan(payload) = CHOOSE g : After(g)
    BY DEF Scan
<1>6. After(Scan(payload))
    BY <1>4, <1>5
<1> QED
    BY <1>6

-----------------------------------------------------------------------------
(* The bytes of a leaf.                                                    *)

WireLeaf(leaf) == leaf \in Seq(Scalar) /\ Len(leaf) < 65536

\* A field is its index, its type and its value.
LEMMA FieldBytes ==
    ASSUME NEW leaf, WireLeaf(leaf), NEW i \in 1..Len(leaf)
    PROVE  /\ leaf[i].type \in DOMAIN Width /\ leaf[i].value \in Seq(Byte)
           /\ Width[leaf[i].type] \in Nat /\ Len(leaf[i].value) = Width[leaf[i].type]
           /\ Field(leaf, i) \in Seq(Byte)
           /\ Len(Field(leaf, i)) = 3 + Width[leaf[i].type]
           /\ 256 * Field(leaf, i)[1] + Field(leaf, i)[2] = i
           /\ Field(leaf, i)[3] = leaf[i].type
           /\ \A j \in 1..Width[leaf[i].type] : Field(leaf, i)[3 + j] = leaf[i].value[j]
<1> DEFINE f == leaf[i]
           w == Width[leaf[i].type]
<1>1. f \in Scalar
    BY ElementOfSeq DEF WireLeaf
<1>2. f.type \in 1..13 /\ f.value \in Seq(Byte) /\ Len(f.value) = w /\ w \in Nat
    BY <1>1 DEF Scalar, Width
<1>3. f.type \in DOMAIN Width
    BY <1>2 DEF Width
<1>4. i \div 256 \in Byte /\ i % 256 \in Byte /\ 256 * (i \div 256) + (i % 256) = i
    BY DEF WireLeaf, Byte
<1>5. f.type \in Byte
    BY <1>2 DEF Byte
<1> DEFINE head == <<i \div 256, i % 256, f.type>>
<1>6. head \in Seq(Byte) /\ Len(head) = 3
    BY <1>4, <1>5
<1>7. Field(leaf, i) = head \o f.value
    BY DEF Field, Two
<1>8. /\ head \o f.value \in Seq(Byte) /\ Len(head \o f.value) = 3 + w
      /\ \A j \in 1..(3 + w) : (head \o f.value)[j] = IF j <= 3 THEN head[j] ELSE f.value[j - 3]
    BY <1>2, <1>6, ConcatProperties
<1> HIDE DEF w
<1>9. /\ (head \o f.value)[1] = i \div 256 /\ (head \o f.value)[2] = i % 256
      /\ (head \o f.value)[3] = f.type
      /\ \A j \in 1..w : (head \o f.value)[3 + j] = f.value[j]
    BY <1>2, <1>8
<1> QED
    BY <1>2, <1>3, <1>4, <1>7, <1>8, <1>9 DEF w

\* The fields of a leaf follow each other.
LEMMA EncodedSteps ==
    ASSUME NEW leaf, WireLeaf(leaf)
    PROVE  /\ Encoded(leaf) \in [0..Len(leaf) -> Seq(Byte)]
           /\ Encoded(leaf)[0] = << >>
           /\ \A i \in 1..Len(leaf) :
                Encoded(leaf)[i] = Encoded(leaf)[i - 1] \o Field(leaf, i)
<1> DEFINE D == 0..Len(leaf)
           V == Seq(Byte)
           First(f) == f = [n \in D |-> IF n = 0 THEN << >> ELSE f[n - 1] \o Field(leaf, n)]
           stop == {0}
           val == [n \in D |-> << >>]
           jump == [n \in D |-> IF n = 0 THEN 0 ELSE n - 1]
           join == [n \in D |-> [s \in V |-> IF n = 0 THEN s ELSE s \o Field(leaf, n)]]
           rank == [n \in D |-> n]
<1>0. Len(leaf) \in Nat
    BY DEF WireLeaf
<1>1. \E f \in [D -> V] : \A n \in D : Obeys(f, n, stop, val, jump, join)
    <2>1. /\ stop \in SUBSET D /\ val \in [D -> V] /\ jump \in [D -> D]
          /\ rank \in [D -> Nat] /\ \A n \in D \ stop : rank[jump[n]] < rank[n]
        BY <1>0
    <2>2. join \in [D -> [V -> V]]
        <3>1. ASSUME NEW n \in D, NEW s \in V, n # 0
              PROVE  s \o Field(leaf, n) \in V
            BY <3>1, FieldBytes, ConcatProperties
        <3> QED
            BY <3>1
    <2> HIDE DEF D, V, stop, val, jump, join, rank
    <2> QED
        BY <2>1, <2>2, Recursion
<1>2. PICK f \in [D -> V] : \A n \in D : Obeys(f, n, stop, val, jump, join)
    BY <1>1
<1>3. First(f)
    <2>1. \A n \in D : f[n] = IF n = 0 THEN << >> ELSE f[n - 1] \o Field(leaf, n)
        <3> TAKE n \in D
        <3>1. CASE n = 0
            BY <1>2, <3>1 DEF Obeys
        <3>2. CASE n # 0
            <4>1. n - 1 \in D /\ f[n - 1] \in V
                BY <1>0, <3>2
            <4>2. f[n] = join[n][f[n - 1]]
                BY <1>2, <3>2 DEF Obeys
            <4> QED
                BY <3>2, <4>1, <4>2
        <3> QED
            BY <3>1, <3>2
    <2> QED
        BY <2>1
<1>4. Encoded(leaf) = CHOOSE g : First(g)
    BY DEF Encoded
<1>5. First(Encoded(leaf))
    BY <1>3, <1>4
<1> DEFINE E == Encoded(leaf)
<1>6. E[0] = << >> /\ \A i \in 1..Len(leaf) : E[i] = E[i - 1] \o Field(leaf, i)
    <2>1. \A n \in D : E[n] = IF n = 0 THEN << >> ELSE E[n - 1] \o Field(leaf, n)
        BY <1>5
    <2>2. 0 \in D /\ \A i \in 1..Len(leaf) : i \in D /\ i # 0
        BY <1>0
    <2> HIDE DEF E
    <2> QED
        BY <2>1, <2>2
<1>7. E \in [D -> V]
    <2> DEFINE S == {n \in Nat : n <= Len(leaf) => E[n] \in V}
    <2>1. ASSUME NEW n \in Nat, \A m \in Nat : m < n => m \in S
          PROVE  n \in S
        <3>1. CASE n = 0
            <4>1. E[n] \in V
                BY <1>6, <3>1, EmptySeq
            <4> HIDE DEF E, V
            <4> QED
                BY <4>1
        <3>2. CASE n > 0 /\ n <= Len(leaf)
            <4>1. n - 1 \in Nat /\ n - 1 < n /\ n \in 1..Len(leaf)
                BY <1>0, <3>2
            <4>2. n - 1 \in S
                BY <2>1, <4>1
            <4>3. E[n - 1] \in V
                BY <1>0, <4>1, <4>2
            <4>4. Field(leaf, n) \in Seq(Byte)
                BY <4>1, FieldBytes
            <4>5. E[n - 1] \o Field(leaf, n) \in V
                BY <4>3, <4>4, ConcatProperties
            <4> QED
                BY <1>6, <4>1, <4>5
        <3> QED
            BY <1>0, <3>1, <3>2
    <2> HIDE DEF S
    <2>2. Nat \subseteq S
        BY <2>1, Induction
    <2>3. \A n \in D : E[n] \in V
        BY <1>0, <2>2 DEF S
    <2> QED
        BY <1>5, <2>3
<1> QED
    BY <1>6, <1>7

\* Where field i + 1 stands among the fields of a leaf.
FieldAt(leaf, buf, i) ==
    LET w == Width[leaf[i + 1].type]
        at == Len(Encoded(leaf)[i])
    IN /\ at + 3 + w <= Len(buf)
       /\ Len(Encoded(leaf)[i + 1]) = at + 3 + w
       /\ 256 * buf[at + 1] + buf[at + 2] = i + 1
       /\ buf[at + 3] = leaf[i + 1].type
       /\ \A j \in 1..w : buf[at + 3 + j] = leaf[i + 1].value[j]

\* Every field that precedes n is among the first n, in its place.
LEMMA EncodedFields ==
    ASSUME NEW leaf, WireLeaf(leaf)
    PROVE  \A n \in 0..Len(leaf) : \A i \in Nat : i < n =>
                FieldAt(leaf, Encoded(leaf)[n], i)
<1> DEFINE E == Encoded(leaf)
           S == {n \in Nat : n <= Len(leaf) =>
                    \A i \in Nat : i < n => FieldAt(leaf, E[n], i)}
<1>0. Len(leaf) \in Nat
    BY DEF WireLeaf
<1>1. /\ \A n \in 0..Len(leaf) : E[n] \in Seq(Byte) /\ Len(E[n]) \in Nat
      /\ \A n \in 1..Len(leaf) : E[n] = E[n - 1] \o Field(leaf, n)
    BY EncodedSteps, LenProperties
<1>2. ASSUME NEW n \in Nat, \A m \in Nat : m < n => m \in S
      PROVE  n \in S
    <2> SUFFICES ASSUME n <= Len(leaf), NEW i \in Nat, i < n
                 PROVE  FieldAt(leaf, E[n], i)
        OBVIOUS
    <2> DEFINE w == Width[leaf[i + 1].type]
               at == Len(E[i])
               f == Field(leaf, n)
               p == E[n - 1]
    <2>1. /\ n \in 1..Len(leaf) /\ n - 1 \in 0..Len(leaf) /\ n - 1 \in Nat /\ n - 1 < n
          /\ i + 1 \in 1..Len(leaf) /\ i \in 0..Len(leaf)
        BY <1>0
    <2>2. w \in Nat /\ at \in Nat
        BY <1>1, <2>1, FieldBytes
    <2>3. /\ p \in Seq(Byte) /\ f \in Seq(Byte) /\ Len(p) \in Nat /\ E[n] = p \o f
        BY <1>1, <2>1, FieldBytes
    <2>4. /\ Len(E[n]) = Len(p) + Len(f)
          /\ \A j \in 1..(Len(p) + Len(f)) : E[n][j] = IF j <= Len(p) THEN p[j] ELSE f[j - Len(p)]
        BY <2>3, ConcatProperties
    <2>5. CASE i < n - 1
        <3>1. FieldAt(leaf, p, i)
            <4>1. n - 1 \in S
                BY <1>2, <2>1
            <4> QED
                BY <2>1, <2>5, <4>1
        <3>2. /\ at + 3 + w <= Len(p) /\ Len(E[i + 1]) = at + 3 + w
              /\ 256 * p[at + 1] + p[at + 2] = i + 1 /\ p[at + 3] = leaf[i + 1].type
              /\ \A j \in 1..w : p[at + 3 + j] = leaf[i + 1].value[j]
            BY <3>1 DEF FieldAt
        <3>3. Len(f) \in Nat
            BY <2>3
        <3> HIDE DEF w, at, f, p
        <3>4. /\ at + 3 + w <= Len(E[n])
              /\ \A j \in 1..(at + 3 + w) : E[n][j] = p[j]
            BY <2>2, <2>3, <2>4, <3>2, <3>3
        <3>5. /\ E[n][at + 1] = p[at + 1] /\ E[n][at + 2] = p[at + 2] /\ E[n][at + 3] = p[at + 3]
              /\ \A j \in 1..w : E[n][at + 3 + j] = p[at + 3 + j]
            <4>1. /\ at + 1 \in 1..(at + 3 + w) /\ at + 2 \in 1..(at + 3 + w)
                  /\ at + 3 \in 1..(at + 3 + w)
                  /\ \A j \in 1..w : at + 3 + j \in 1..(at + 3 + w)
                BY <2>2
            <4>2. \A j \in 1..(at + 3 + w) : E[n][j] = p[j]
                BY <3>4
            <4> HIDE DEF E
            <4> QED
                BY <4>1, <4>2
        <3> QED
            BY <3>2, <3>4, <3>5 DEF FieldAt, w, at
    <2>6. CASE i = n - 1
        <3>0. i + 1 = n /\ n - 1 = i
            BY <2>1, <2>6
        <3>1. /\ at = Len(p) /\ Len(f) = 3 + w
              /\ 256 * f[1] + f[2] = i + 1 /\ f[3] = leaf[i + 1].type
              /\ \A j \in 1..w : f[3 + j] = leaf[i + 1].value[j]
            <4>1. at = Len(p)
                BY <3>0
            <4>2. n \in 1..Len(leaf) /\ w = Width[leaf[n].type]
                BY <2>1, <3>0
            <4>3. /\ Len(f) = 3 + Width[leaf[n].type]
                  /\ 256 * f[1] + f[2] = n /\ f[3] = leaf[n].type
                  /\ \A j \in 1..Width[leaf[n].type] : f[3 + j] = leaf[n].value[j]
                BY <4>2, FieldBytes
            <4> QED
                BY <3>0, <4>1, <4>2, <4>3
        <3> HIDE DEF w, at, f, p
        <3>2. /\ Len(E[n]) = at + 3 + w
              /\ \A j \in 1..(3 + w) : E[n][at + j] = f[j]
            <4>1. Len(E[n]) = at + (3 + w)
                BY <2>4, <3>1
            <4>2. \A j \in 1..(3 + w) : /\ at + j \in 1..(Len(p) + Len(f)) /\ ~ (at + j <= Len(p))
                                        /\ at + j - Len(p) = j
                BY <2>2, <3>1
            <4>3. \A j \in 1..(3 + w) : E[n][at + j] = f[at + j - Len(p)]
                <5> TAKE j \in 1..(3 + w)
                <5>1. PICK k \in 1..(Len(p) + Len(f)) : k = at + j /\ ~ (k <= Len(p))
                    BY <4>2
                <5>2. E[n][k] = f[k - Len(p)]
                    BY <2>4, <5>1
                <5> QED
                    BY <2>2, <2>3, <5>1, <5>2
            <4>4. at + (3 + w) = at + 3 + w
                BY <2>2
            <4> QED
                BY <2>2, <4>1, <4>2, <4>3, <4>4
        <3>3. /\ E[n][at + 1] = f[1] /\ E[n][at + 2] = f[2] /\ E[n][at + 3] = f[3]
              /\ \A j \in 1..w : E[n][at + 3 + j] = f[3 + j]
            BY <2>2, <3>2
        <3>4. at + 3 + w <= Len(E[n]) /\ Len(E[i + 1]) = at + 3 + w
            BY <2>2, <3>0, <3>2
        <3> QED
            BY <3>1, <3>3, <3>4 DEF FieldAt, w, at
    <2> QED
        BY <2>1, <2>5, <2>6
<1> HIDE DEF S
<1>3. Nat \subseteq S
    BY <1>2, Induction
<1> QED
    BY <1>0, <1>3 DEF S

\* The header of a leaf is of twelve bytes and ends in its count; the fields follow.
LEMMA PayloadBytes ==
    ASSUME NEW leaf, WireLeaf(leaf)
    PROVE  /\ Payload(leaf) \in Seq(Byte)
           /\ Len(Payload(leaf)) = 12 + Len(Encoded(leaf)[Len(leaf)])
           /\ 256 * Payload(leaf)[11] + Payload(leaf)[12] = Len(leaf)
           /\ \A j \in 1..Len(Encoded(leaf)[Len(leaf)]) :
                Payload(leaf)[12 + j] = Encoded(leaf)[Len(leaf)][j]
<1> DEFINE n == Len(leaf)
           e == Encoded(leaf)[n]
           head == <<0, 10, 0, 2, 0, 119, 0, 0, 0, 0, n \div 256, n % 256>>
<1>1. n \in Nat /\ n < 65536
    BY DEF WireLeaf
<1>2. n \div 256 \in Byte /\ n % 256 \in Byte /\ 256 * (n \div 256) + (n % 256) = n
    <2> HIDE DEF n
    <2> QED
        BY <1>1 DEF Byte
<1>3. e \in Seq(Byte) /\ Len(e) \in Nat
    BY <1>1, EncodedSteps, LenProperties
<1> HIDE DEF n, e
<1>4. head \in Seq(Byte) /\ Len(head) = 12
    BY <1>2 DEF Byte
<1>5. Payload(leaf) = head \o e
    BY DEF Payload, Two, n, e
<1>6. /\ head \o e \in Seq(Byte) /\ Len(head \o e) = 12 + Len(e)
      /\ \A j \in 1..(12 + Len(e)) : (head \o e)[j] = IF j <= 12 THEN head[j] ELSE e[j - 12]
    BY <1>3, <1>4, ConcatProperties
<1>7. /\ (head \o e)[11] = n \div 256 /\ (head \o e)[12] = n % 256
      /\ \A j \in 1..Len(e) : (head \o e)[12 + j] = e[j]
    BY <1>3, <1>6
<1> QED
    BY <1>2, <1>5, <1>6, <1>7 DEF n, e

-----------------------------------------------------------------------------
(* A leaf that arrives cut.                                                *)

\* What arrives of a leaf, its header at least.
CutLeaf(leaf, cut) ==
    /\ WireLeaf(leaf) /\ cut \in Seq(Byte)
    /\ Len(cut) >= 12 /\ Len(cut) <= Len(Payload(leaf))
    /\ \A j \in 1..Len(cut) : cut[j] = Payload(leaf)[j]

\* The bytes of a slice that is there.
LEMMA BytesThere ==
    ASSUME NEW buf \in Seq(Byte), NEW off \in Nat, NEW n \in Nat, off + n <= Len(buf)
    PROVE  /\ Bytes(buf, off, n) \in Seq(Byte) /\ Len(Bytes(buf, off, n)) = n
           /\ \A j \in 1..n : Bytes(buf, off, n)[j] = buf[off + j]
<1>1. Bytes(buf, off, n) = SubSeq(buf, off + 1, off + n)
    BY DEF Bytes
<1> QED
    BY <1>1, Slice

\* What stands in it behind the header is what stands among the fields.
LEMMA CutBytes ==
    ASSUME NEW cut \in Seq(Byte), NEW e \in Seq(Byte), NEW v \in Seq(Byte),
           \A j \in 1..Len(e) : 12 + j <= Len(cut) => cut[12 + j] = e[j],
           NEW k \in Nat, k + 3 + Len(v) <= Len(e), \A j \in 1..Len(v) : e[k + 3 + j] = v[j]
    PROVE  /\ 12 + k + 3 <= Len(cut) => /\ cut[12 + k + 1] = e[k + 1]
                                        /\ cut[12 + k + 2] = e[k + 2]
                                        /\ cut[12 + k + 3] = e[k + 3]
           /\ 12 + k + 3 + Len(v) <= Len(cut) => Bytes(cut, 12 + k + 3, Len(v)) = v
<1>1. Len(cut) \in Nat /\ Len(e) \in Nat /\ Len(v) \in Nat
    BY LenProperties
<1>2. ASSUME 12 + k + 3 <= Len(cut)
      PROVE  /\ cut[12 + k + 1] = e[k + 1] /\ cut[12 + k + 2] = e[k + 2]
             /\ cut[12 + k + 3] = e[k + 3]
    <2>1. \A j \in 1..3 : /\ k + j \in 1..Len(e) /\ 12 + (k + j) <= Len(cut)
                          /\ 12 + k + j = 12 + (k + j)
        BY <1>1, <1>2
    <2> QED
        BY <2>1
<1>3. ASSUME 12 + k + 3 + Len(v) <= Len(cut)
      PROVE  Bytes(cut, 12 + k + 3, Len(v)) = v
    <2>1. \A j \in 1..Len(v) : cut[12 + k + 3 + j] = v[j]
        <3> TAKE j \in 1..Len(v)
        <3>1. /\ k + 3 + j \in 1..Len(e) /\ 12 + (k + 3 + j) <= Len(cut)
              /\ 12 + k + 3 + j = 12 + (k + 3 + j)
            BY <1>1, <1>3
        <3> QED
            BY <3>1
    <2> DEFINE b == Bytes(cut, 12 + k + 3, Len(v))
    <2>2. b \in Seq(Byte) /\ Len(b) = Len(v) /\ \A j \in 1..Len(v) : b[j] = cut[12 + k + 3 + j]
        <3>1. 12 + k + 3 \in Nat
            OBVIOUS
        <3> QED
            BY <1>1, <1>3, <3>1, BytesThere
    <2> HIDE DEF b
    <2>3. b = v
        BY <2>1, <2>2, SeqEqual
    <2> QED
        BY <2>3 DEF b
<1> QED
    BY <1>2, <1>3

\* What stands in it of field i + 1.
LEMMA CutField ==
    ASSUME NEW leaf, NEW cut, CutLeaf(leaf, cut), NEW i \in 0..(Len(leaf) - 1)
    PROVE  LET at == 12 + Len(Encoded(leaf)[i])
               w == Width[leaf[i + 1].type]
           IN /\ at \in Nat /\ w \in Nat /\ leaf[i + 1].type \in DOMAIN Width
              /\ leaf[i + 1].value \in Seq(Byte)
              /\ 12 + Len(Encoded(leaf)[i + 1]) = at + 3 + w
              /\ at + 3 <= Len(cut) => /\ U16(cut, at) = i + 1
                                       /\ cut[at + 3] = leaf[i + 1].type
              /\ at + 3 + w <= Len(cut) => Bytes(cut, at + 3, w) = leaf[i + 1].value
<1> DEFINE n == Len(leaf)
           e == Encoded(leaf)[n]
           k == Len(Encoded(leaf)[i])
           v == leaf[i + 1].value
           w == Width[leaf[i + 1].type]
<1>1. n \in Nat /\ i \in Nat /\ i < n /\ i + 1 \in 1..n /\ i \in 0..n /\ n \in 0..n
    BY DEF CutLeaf, WireLeaf
<1>2. FieldAt(leaf, e, i)
    BY <1>1, EncodedFields DEF CutLeaf
<1>3. /\ k + 3 + w <= Len(e) /\ Len(Encoded(leaf)[i + 1]) = k + 3 + w
      /\ 256 * e[k + 1] + e[k + 2] = i + 1 /\ e[k + 3] = leaf[i + 1].type
      /\ \A j \in 1..w : e[k + 3 + j] = v[j]
    BY <1>2 DEF FieldAt
<1>4. /\ w \in Nat /\ leaf[i + 1].type \in DOMAIN Width /\ v \in Seq(Byte) /\ Len(v) = w
    BY <1>1, FieldBytes DEF CutLeaf
<1>5. k \in Nat /\ Len(e) \in Nat /\ e \in Seq(Byte)
    BY <1>1, EncodedSteps, LenProperties DEF CutLeaf
<1>6. Len(cut) \in Nat /\ cut \in Seq(Byte)
    BY DEF CutLeaf
<1>7. \A j \in 1..Len(e) : 12 + j <= Len(cut) => cut[12 + j] = e[j]
    <2> TAKE j \in 1..Len(e)
    <2> HAVE 12 + j <= Len(cut)
    <2> HIDE DEF e, n
    <2>1. 12 + j \in 1..Len(cut)
        BY <1>5, <1>6
    <2>2. cut[12 + j] = Payload(leaf)[12 + j]
        BY <2>1 DEF CutLeaf
    <2> QED
        BY <2>2, PayloadBytes DEF CutLeaf, e, n
<1> HIDE DEF n, e, k, v, w
<1>8. k + 3 + Len(v) <= Len(e) /\ \A j \in 1..Len(v) : e[k + 3 + j] = v[j]
    BY <1>3, <1>4
<1>9. /\ 12 + k + 3 <= Len(cut) => /\ cut[12 + k + 1] = e[k + 1]
                                   /\ cut[12 + k + 2] = e[k + 2]
                                   /\ cut[12 + k + 3] = e[k + 3]
      /\ 12 + k + 3 + w <= Len(cut) => Bytes(cut, 12 + k + 3, w) = v
    <2>1. /\ 12 + k + 3 <= Len(cut) => /\ cut[12 + k + 1] = e[k + 1]
                                       /\ cut[12 + k + 2] = e[k + 2]
                                       /\ cut[12 + k + 3] = e[k + 3]
          /\ 12 + k + 3 + Len(v) <= Len(cut) => Bytes(cut, 12 + k + 3, Len(v)) = v
        BY <1>4, <1>5, <1>6, <1>7, <1>8, CutBytes, Zenon
    <2> QED
        BY <1>4, <2>1
<1>10. 12 + k + 3 <= Len(cut) => U16(cut, 12 + k) = i + 1
    BY <1>3, <1>9 DEF U16
<1>11. 12 + (k + 3 + w) = 12 + k + 3 + w /\ 12 + k \in Nat
    BY <1>4, <1>5
<1>12. 12 + Len(Encoded(leaf)[i + 1]) = 12 + k + 3 + w
    BY <1>3, <1>11
<1>13. 12 + k + 3 <= Len(cut) => cut[12 + k + 3] = leaf[i + 1].type
    BY <1>3, <1>9
<1> QED
    BY <1>4, <1>9, <1>10, <1>11, <1>12, <1>13 DEF k, v, w

\* The attributes of a leaf, one field after the other.
LEMMA AttributesGrow ==
    ASSUME NEW leaf, WireLeaf(leaf)
    PROVE  /\ Attributes(leaf, 0) = << >>
           /\ \A i \in 0..Len(leaf) : Attributes(leaf, i) \in Seq(Attribute)
           /\ \A i \in 0..(Len(leaf) - 1) :
                Attributes(leaf, i + 1) =
                    Append(Attributes(leaf, i), [index |-> i + 1, value |-> leaf[i + 1].value])
<1>0. Len(leaf) \in Nat
    BY DEF WireLeaf
<1>1. Attributes(leaf, 0) = << >>
    BY DEF Attributes
<1>2. \A j \in 1..Len(leaf) : [index |-> j, value |-> leaf[j].value] \in Attribute
    BY FieldBytes DEF Attribute
<1>3. ASSUME NEW i \in 0..Len(leaf)
      PROVE  /\ Attributes(leaf, i) \in Seq(Attribute) /\ Len(Attributes(leaf, i)) = i
             /\ \A j \in 1..i : Attributes(leaf, i)[j] = [index |-> j, value |-> leaf[j].value]
    <2>1. i \in Nat /\ \A j \in 1..i : j \in 1..Len(leaf)
        BY <1>0
    <2>2. Attributes(leaf, i) \in [1..i -> Attribute]
        BY <1>2, <2>1 DEF Attributes
    <2> QED
        BY <2>1, <2>2, SeqDef DEF Attributes
<1>4. ASSUME NEW i \in 0..(Len(leaf) - 1)
      PROVE  Attributes(leaf, i + 1) =
                Append(Attributes(leaf, i), [index |-> i + 1, value |-> leaf[i + 1].value])
    <2> DEFINE a == Attributes(leaf, i)
               b == Attributes(leaf, i + 1)
               x == [index |-> i + 1, value |-> leaf[i + 1].value]
    <2>1. i \in Nat /\ i \in 0..Len(leaf) /\ i + 1 \in 0..Len(leaf) /\ i + 1 \in 1..Len(leaf)
        BY <1>0
    <2>2. x \in Attribute
        BY <1>2, <2>1
    <2>3. /\ a \in Seq(Attribute) /\ Len(a) = i
          /\ \A j \in 1..i : a[j] = [index |-> j, value |-> leaf[j].value]
        BY <1>3, <2>1
    <2>4. /\ b \in Seq(Attribute) /\ Len(b) = i + 1
          /\ \A j \in 1..(i + 1) : b[j] = [index |-> j, value |-> leaf[j].value]
        BY <1>3, <2>1
    <2>5. b[i + 1] = x
        BY <2>1, <2>4
    <2>6. \A j \in 1..i : b[j] = a[j]
        BY <2>1, <2>3, <2>4
    <2> HIDE DEF a, b, x
    <2>7. /\ Append(a, x) \in Seq(Attribute) /\ Len(Append(a, x)) = i + 1
          /\ \A j \in 1..i : Append(a, x)[j] = a[j]
          /\ Append(a, x)[i + 1] = x
        BY <2>2, <2>3, AppendProperties
    <2>8. \A j \in 1..(i + 1) : b[j] = Append(a, x)[j]
        BY <2>1, <2>5, <2>6, <2>7
    <2>9. b = Append(a, x)
        BY <2>4, <2>7, <2>8, SeqEqual
    <2> QED
        BY <2>9 DEF a, b, x
<1> QED
    BY <1>1, <1>3, <1>4

\* The loop has the first i fields behind it.
Before(leaf, i) == [off |-> 12 + Len(Encoded(leaf)[i]), more |-> TRUE,
                    attributes |-> Attributes(leaf, i)]
Whole(leaf, cut, k) == 12 + Len(Encoded(leaf)[k]) <= Len(cut)

\* The round on field i + 1 takes it if it is whole and ends the loop if it is not.
LEMMA Round ==
    ASSUME NEW leaf, NEW cut, CutLeaf(leaf, cut), NEW i \in 0..(Len(leaf) - 1)
    PROVE  NextAttribute(cut, Before(leaf, i)) =
                IF Whole(leaf, cut, i + 1) THEN Before(leaf, i + 1)
                ELSE [Before(leaf, i) EXCEPT !.more = FALSE]
<1> DEFINE at == 12 + Len(Encoded(leaf)[i])
           w == Width[leaf[i + 1].type]
           t == leaf[i + 1].type
           next == 12 + Len(Encoded(leaf)[i + 1])
           x == [index |-> i + 1, value |-> leaf[i + 1].value]
<1>1. /\ at \in Nat /\ w \in Nat /\ t \in DOMAIN Width /\ next = at + 3 + w
      /\ at + 3 <= Len(cut) => U16(cut, at) = i + 1 /\ cut[at + 3] = t
      /\ at + 3 + w <= Len(cut) => Bytes(cut, at + 3, w) = leaf[i + 1].value
    BY CutField
<1>2. Len(cut) \in Nat
    BY DEF CutLeaf
<1>3. Attributes(leaf, i + 1) = Append(Attributes(leaf, i), x)
    BY AttributesGrow DEF CutLeaf
<1>4. /\ Before(leaf, i).off = at /\ Before(leaf, i).more = TRUE
      /\ Before(leaf, i).attributes = Attributes(leaf, i)
    BY DEF Before
<1>5. Before(leaf, i + 1) = [off |-> next, more |-> TRUE,
                             attributes |-> Append(Attributes(leaf, i), x)]
    BY <1>3 DEF Before
<1>6. Whole(leaf, cut, i + 1) <=> at + 3 + w <= Len(cut)
    BY <1>1 DEF Whole
<1>7. CASE ~ Fits(cut, at, 3)
    <2>1. ~ Whole(leaf, cut, i + 1)
        <3> HIDE DEF at, w
        <3> QED
            BY <1>1, <1>2, <1>6, <1>7 DEF Fits
    <2> QED
        BY <1>4, <1>7, <2>1 DEF NextAttribute
<1>8. CASE Fits(cut, at, 3)
    <2>1. U16(cut, at) = i + 1 /\ cut[at + 3] = t
        BY <1>1, <1>8 DEF Fits
    <2>2. Complete(cut, at + 3, t) <=> Whole(leaf, cut, i + 1)
        BY <1>6 DEF Complete, Fits
    <2> HIDE DEF at, next, x
    <2>3. CASE ~ Complete(cut, at + 3, t)
        BY <1>1, <1>4, <1>8, <2>1, <2>2, <2>3 DEF NextAttribute
    <2>4. CASE Complete(cut, at + 3, t)
        <3>1. Bytes(cut, at + 3, w) = leaf[i + 1].value
            BY <1>1, <1>6, <2>2, <2>4
        <3>2. NextAttribute(cut, Before(leaf, i)) =
                [off |-> at + 3 + w, more |-> TRUE,
                 attributes |-> Append(Attributes(leaf, i), x)]
            BY <1>1, <1>4, <1>8, <2>1, <2>4, <3>1 DEF NextAttribute, x
        <3> QED
            BY <1>1, <1>5, <2>2, <2>4, <3>2
    <2> QED
        BY <2>3, <2>4
<1> QED
    BY <1>7, <1>8

\* The loop takes every field that is whole,
LEMMA WholeRounds ==
    ASSUME NEW leaf, NEW cut, CutLeaf(leaf, cut)
    PROVE  \A i \in 0..Len(leaf) : Whole(leaf, cut, i) => Scan(cut)[i] = Before(leaf, i)
<1> DEFINE S == {i \in Nat : i <= Len(leaf) /\ Whole(leaf, cut, i) =>
                                Scan(cut)[i] = Before(leaf, i)}
<1>0. Len(leaf) \in Nat /\ Len(cut) \in Nat /\ cut \in Seq(Byte) /\ WireLeaf(leaf)
    BY DEF CutLeaf, WireLeaf
<1>1. ASSUME NEW i \in Nat, \A m \in Nat : m < i => m \in S
      PROVE  i \in S
    <2> SUFFICES ASSUME i <= Len(leaf), Whole(leaf, cut, i)
                 PROVE  Scan(cut)[i] = Before(leaf, i)
        OBVIOUS
    <2>1. CASE i = 0
        <3>1. Encoded(leaf)[0] = << >> /\ Attributes(leaf, 0) = << >>
            BY <1>0, EncodedSteps, AttributesGrow
        <3>2. Before(leaf, 0) = Start
            <4>1. 12 + Len(Encoded(leaf)[0]) = 12
                BY <3>1
            <4> QED
                BY <3>1, <4>1 DEF Before, Start
        <3> QED
            BY <1>0, <2>1, <3>2, ScanRounds
    <2>2. CASE i > 0
        <3> DEFINE h == i - 1
        <3>1. h \in 0..(Len(leaf) - 1) /\ h \in Nat /\ h < i /\ h + 1 = i /\ h <= Len(leaf)
            BY <1>0, <2>2
        <3> HIDE DEF h
        <3>2. Whole(leaf, cut, h + 1)
            BY <3>1
        <3>3. Whole(leaf, cut, h)
            <4>1. /\ 12 + Len(Encoded(leaf)[h]) \in Nat /\ Width[leaf[h + 1].type] \in Nat
                  /\ 12 + Len(Encoded(leaf)[h + 1]) =
                        12 + Len(Encoded(leaf)[h]) + 3 + Width[leaf[h + 1].type]
                BY <3>1, CutField
            <4>2. \A a, b, c, d \in Nat : c = a + 3 + b /\ c <= d => a <= d
                OBVIOUS
            <4> QED
                BY <1>0, <3>2, <4>1, <4>2 DEF Whole
        <3>4. h \in S
            BY <1>1, <3>1
        <3>5. Scan(cut)[h] = Before(leaf, h)
            BY <3>1, <3>3, <3>4
        <3>6. Scan(cut)[h + 1] = NextAttribute(cut, Before(leaf, h))
            BY <1>0, <3>1, <3>5, ScanRounds
        <3>7. Scan(cut)[h + 1] = Before(leaf, h + 1)
            BY <3>1, <3>2, <3>6, Round
        <3> QED
            BY <3>1, <3>7
    <2> QED
        BY <2>1, <2>2
<1> HIDE DEF S
<1>2. Nat \subseteq S
    BY <1>1, Induction
<1> QED
    BY <1>0, <1>2 DEF S

\* and none from the first on that is not.
LEMMA StoppedRounds ==
    ASSUME NEW leaf, NEW cut, CutLeaf(leaf, cut), NEW k \in 0..(Len(leaf) - 1),
           Whole(leaf, cut, k), ~ Whole(leaf, cut, k + 1)
    PROVE  \A i \in Nat : i > k => Scan(cut)[i] = [Before(leaf, k) EXCEPT !.more = FALSE]
<1> DEFINE stopped == [Before(leaf, k) EXCEPT !.more = FALSE]
           S == {i \in Nat : i > k => Scan(cut)[i] = stopped}
<1>0. Len(leaf) \in Nat /\ cut \in Seq(Byte)
    BY DEF CutLeaf, WireLeaf
<1>1. Scan(cut)[k] = Before(leaf, k)
    BY <1>0, WholeRounds
<1>2. Scan(cut)[k + 1] = stopped
    <2>1. k \in Nat
        BY <1>0
    <2>2. Scan(cut)[k + 1] = NextAttribute(cut, Before(leaf, k))
        BY <1>0, <1>1, <2>1, ScanRounds
    <2>3. NextAttribute(cut, Before(leaf, k)) = stopped
        BY Round
    <2> QED
        BY <2>2, <2>3
<1>3. NextAttribute(cut, stopped) = stopped
    <2>1. stopped.more = FALSE
        BY DEF Before
    <2> HIDE DEF stopped
    <2> QED
        BY <2>1 DEF NextAttribute
<1>4. ASSUME NEW i \in Nat, \A m \in Nat : m < i => m \in S
      PROVE  i \in S
    <2> HIDE DEF stopped
    <2>1. CASE i > k + 1
        <3> DEFINE h == i - 1
        <3>1. h \in Nat /\ h < i /\ h > k /\ h + 1 = i
            BY <2>1
        <3> HIDE DEF h
        <3>2. Scan(cut)[h] = stopped
            <4>1. h \in S
                BY <1>4, <3>1
            <4> QED
                BY <3>1, <4>1
        <3>3. Scan(cut)[h + 1] = stopped
            BY <1>0, <1>3, <3>1, <3>2, ScanRounds
        <3> QED
            BY <3>1, <3>3
    <2>2. CASE i = k + 1
        BY <1>2, <2>2
    <2> QED
        BY <2>1, <2>2
<1> HIDE DEF S
<1>5. Nat \subseteq S
    BY <1>4, Induction
<1> QED
    BY <1>5 DEF S

\* What parse_simple_leaf makes of a leaf that is cut behind its header.
LEMMA CutLeafReads ==
    ASSUME NEW leaf, NEW cut, CutLeaf(leaf, cut)
    PROVE  \E k \in 0..Len(leaf) :
                /\ Whole(leaf, cut, k) /\ (k < Len(leaf) => ~ Whole(leaf, cut, k + 1))
                /\ ParseSimpleLeaf(cut) = Attributes(leaf, k)
<1> DEFINE T == {k \in 0..Len(leaf) : k = Len(leaf) \/ ~ Whole(leaf, cut, k + 1)}
<1>0. /\ Len(leaf) \in Nat /\ cut \in Seq(Byte) /\ Len(cut) \in Nat /\ WireLeaf(leaf)
      /\ Len(cut) >= 12
    BY DEF CutLeaf, WireLeaf
<1>1. PICK k \in T : \A m \in T : k <= m
    <2>1. Len(leaf) \in T /\ T \subseteq Nat
        BY <1>0
    <2> HIDE DEF T
    <2> QED
        BY <2>1, Least
<1>2. Whole(leaf, cut, k)
    <2>1. CASE k = 0
        <3>1. Len(Encoded(leaf)[0]) = 0
            BY <1>0, EncodedSteps, EmptySeq
        <3> QED
            BY <1>0, <2>1, <3>1 DEF Whole
    <2>2. CASE k > 0
        <3>1. k - 1 \in 0..Len(leaf) /\ k - 1 # Len(leaf) /\ ~ (k <= k - 1) /\ (k - 1) + 1 = k
            BY <1>0, <2>2
        <3>2. k - 1 \notin T
            BY <1>1, <3>1
        <3> QED
            BY <3>1, <3>2
    <2> QED
        BY <2>1, <2>2, <1>0
<1>3. U16(cut, 10) = Len(leaf)
    <2>1. cut[11] = Payload(leaf)[11] /\ cut[12] = Payload(leaf)[12]
        BY <1>0 DEF CutLeaf
    <2>2. U16(cut, 10) = 256 * cut[11] + cut[12]
        BY DEF U16
    <2> QED
        BY <1>0, <2>1, <2>2, PayloadBytes
<1>4. ParseSimpleLeaf(cut) = Scan(cut)[Len(leaf)].attributes
    BY <1>0, <1>3 DEF ParseSimpleLeaf
<1>5. Scan(cut)[Len(leaf)].attributes = Attributes(leaf, k)
    <2>1. CASE k = Len(leaf)
        <3>1. Scan(cut)[k] = Before(leaf, k)
            BY <1>1, <1>2, WholeRounds
        <3> QED
            BY <2>1, <3>1 DEF Before
    <2>2. CASE k # Len(leaf)
        <3>1. k \in 0..(Len(leaf) - 1) /\ Len(leaf) > k /\ ~ Whole(leaf, cut, k + 1)
            BY <1>0, <2>2
        <3>2. Scan(cut)[Len(leaf)] = [Before(leaf, k) EXCEPT !.more = FALSE]
            BY <1>0, <1>2, <3>1, StoppedRounds
        <3> QED
            BY <3>2 DEF Before
    <2> QED
        BY <2>1, <2>2
<1> QED
    BY <1>0, <1>1, <1>2, <1>4, <1>5

-----------------------------------------------------------------------------
(* A leaf the integration writes.                                          *)

\* A block of one attribute of one or two bytes reads back as that attribute.
LEMMA OneAttribute ==
    ASSUME NEW buf \in Seq(Byte), Len(buf) = 32, buf[11] = 0, buf[12] = 1,
           buf[13] = 0, buf[14] = 1, buf[15] \in 1..7
    PROVE  ParseSimpleLeaf(buf) =
                <<[index |-> 1, value |-> Bytes(buf, 15, Width[buf[15]])]>>
<1> DEFINE t == buf[15]
           w == Width[t]
           x == [index |-> 1, value |-> Bytes(buf, 15, w)]
<1>1. t \in DOMAIN Width /\ w \in {1, 2}
    BY DEF Width
<1>2. /\ U16(buf, 10) = 1 /\ U16(buf, 12) = 1
    BY DEF U16
<1>3. /\ Fits(buf, 12, 3) /\ Complete(buf, 15, t)
    BY <1>1 DEF Fits, Complete
<1>4. Start.off = 12 /\ Start.more = TRUE /\ Start.attributes = << >>
    BY DEF Start
<1>5. 12 + 3 = 15
    OBVIOUS
<1> HIDE DEF t, w, x
<1>6. NextAttribute(buf, Start) = [off |-> 15 + w, more |-> TRUE,
                                   attributes |-> Append(<< >>, x)]
    <2>1. Start.off + 3 = 15
        BY <1>4
    <2>2. /\ U16(buf, Start.off) = 1 /\ Fits(buf, Start.off, 3)
          /\ buf[Start.off + 3] = t /\ Complete(buf, Start.off + 3, t)
        BY <1>2, <1>3, <1>4, <2>1 DEF t
    <2> QED
        BY <1>1, <1>4, <2>1, <2>2 DEF NextAttribute, w, x
<1>7. Scan(buf)[0 + 1] = NextAttribute(buf, Start)
    BY ScanRounds
<1>8. ParseSimpleLeaf(buf) = Append(<< >>, x)
    BY <1>2, <1>6, <1>7 DEF ParseSimpleLeaf
<1> QED
    BY <1>8 DEF x, w, t

\* The leaf of a user request gives its opcode.
LEMMA UserRequestReadsBack ==
    ASSUME NEW opcode \in Byte
    PROVE  ParseSimpleLeaf(UserRequest(opcode)) = <<[index |-> 1, value |-> <<0, opcode>>]>>
<1> DEFINE head == <<0, 16, 0, 1, 6, 47, 0, 0, 0, 0, 0, 1, 0, 1, 7, 0, opcode>>
           fill == [i \in 1..15 |-> 32]
           buf == head \o fill
<1>1. fill \in Seq(Byte) /\ Len(fill) = 15
    <2>1. fill \in [1..15 -> Byte]
        BY DEF Byte
    <2> QED
        BY <2>1, SeqDef
<1>2. head \in Seq(Byte) /\ Len(head) = 17
    BY DEF Byte
<1>3. /\ buf \in Seq(Byte) /\ Len(buf) = 32
      /\ \A i \in 1..32 : buf[i] = IF i <= 17 THEN head[i] ELSE fill[i - 17]
    <2> HIDE DEF head, fill
    <2>1. /\ head \o fill \in Seq(Byte) /\ Len(head \o fill) = Len(head) + Len(fill)
          /\ \A i \in 1..(Len(head) + Len(fill)) :
                (head \o fill)[i] = IF i <= Len(head) THEN head[i] ELSE fill[i - Len(head)]
        BY <1>1, <1>2, ConcatProperties
    <2>2. Len(head) + Len(fill) = 32
        BY <1>1, <1>2
    <2> QED
        BY <1>2, <2>1, <2>2
<1> HIDE DEF fill, buf
<1>4. /\ buf[11] = 0 /\ buf[12] = 1 /\ buf[13] = 0 /\ buf[14] = 1 /\ buf[15] = 7
      /\ buf[16] = 0 /\ buf[17] = opcode
    BY <1>3
<1>5. Width[7] = 2
    BY DEF Width
<1>6. Bytes(buf, 15, 2) = <<0, opcode>>
    <2>1. /\ Bytes(buf, 15, 2) \in Seq(Byte) /\ Len(Bytes(buf, 15, 2)) = 2
          /\ \A j \in 1..2 : Bytes(buf, 15, 2)[j] = buf[15 + j]
        <3>1. 15 + 2 <= Len(buf) /\ 15 \in Nat /\ 2 \in Nat
            BY <1>3
        <3> QED
            BY <1>3, <3>1, BytesThere
    <2>2. Bytes(buf, 15, 2)[1] = 0 /\ Bytes(buf, 15, 2)[2] = opcode
        BY <1>4, <2>1
    <2>3. <<0, opcode>> \in Seq(Byte) /\ Len(<<0, opcode>>) = 2
        BY DEF Byte
    <2>4. \A j \in 1..2 : Bytes(buf, 15, 2)[j] = <<0, opcode>>[j]
        BY <2>2
    <2> QED
        BY <2>1, <2>3, <2>4, SeqEqual
<1>7. ParseSimpleLeaf(buf) = <<[index |-> 1, value |-> Bytes(buf, 15, Width[buf[15]])]>>
    <2>1. buf[15] \in 1..7
        BY <1>4
    <2> QED
        BY <1>3, <1>4, <2>1, OneAttribute
<1>8. UserRequest(opcode) = buf
    BY DEF UserRequest, buf, fill
<1> QED
    BY <1>4, <1>5, <1>6, <1>7, <1>8

\* The leaf of an appliance state gives its value.
LEMMA ApplianceStateReadsBack ==
    ASSUME NEW on \in BOOLEAN
    PROVE  ParseSimpleLeaf(ApplianceState(on)) =
                <<[index |-> 1, value |-> <<IF on THEN 4 ELSE 1>>]>>
<1> DEFINE v == IF on THEN 4 ELSE 1
           head == <<0, 14, 0, 2, 6, 50, 0, 0, 0, 0, 0, 1, 0, 1, 4, v>>
           fill == [i \in 1..16 |-> 32]
           buf == head \o fill
<1>0. v \in Byte
    BY DEF Byte
<1> HIDE DEF v
<1>1. fill \in Seq(Byte) /\ Len(fill) = 16
    <2>1. fill \in [1..16 -> Byte]
        BY DEF Byte
    <2> QED
        BY <2>1, SeqDef
<1>2. head \in Seq(Byte) /\ Len(head) = 16
    BY <1>0 DEF Byte
<1>3. /\ buf \in Seq(Byte) /\ Len(buf) = 32
      /\ \A i \in 1..32 : buf[i] = IF i <= 16 THEN head[i] ELSE fill[i - 16]
    <2> HIDE DEF head, fill
    <2>1. /\ head \o fill \in Seq(Byte) /\ Len(head \o fill) = Len(head) + Len(fill)
          /\ \A i \in 1..(Len(head) + Len(fill)) :
                (head \o fill)[i] = IF i <= Len(head) THEN head[i] ELSE fill[i - Len(head)]
        BY <1>1, <1>2, ConcatProperties
    <2>2. Len(head) + Len(fill) = 32
        BY <1>1, <1>2
    <2> QED
        BY <1>2, <2>1, <2>2
<1> HIDE DEF fill, buf
<1>4. /\ buf[11] = 0 /\ buf[12] = 1 /\ buf[13] = 0 /\ buf[14] = 1 /\ buf[15] = 4
      /\ buf[16] = v
    BY <1>3
<1>5. Width[4] = 1
    BY DEF Width
<1>6. Bytes(buf, 15, 1) = <<v>>
    <2>1. /\ Bytes(buf, 15, 1) \in Seq(Byte) /\ Len(Bytes(buf, 15, 1)) = 1
          /\ \A j \in 1..1 : Bytes(buf, 15, 1)[j] = buf[15 + j]
        <3>1. 15 + 1 <= Len(buf) /\ 15 \in Nat /\ 1 \in Nat
            BY <1>3
        <3> QED
            BY <1>3, <3>1, BytesThere
    <2>2. Bytes(buf, 15, 1)[1] = v
        BY <1>4, <2>1
    <2>3. <<v>> \in Seq(Byte) /\ Len(<<v>>) = 1
        BY <1>0
    <2>4. \A j \in 1..1 : Bytes(buf, 15, 1)[j] = <<v>>[j]
        BY <2>2
    <2> QED
        BY <2>1, <2>3, <2>4, SeqEqual
<1>7. ParseSimpleLeaf(buf) = <<[index |-> 1, value |-> Bytes(buf, 15, Width[buf[15]])]>>
    <2>1. buf[15] \in 1..7
        BY <1>4
    <2> QED
        BY <1>3, <1>4, <2>1, OneAttribute
<1>8. ApplianceState(on) = buf
    BY DEF ApplianceState, buf, fill, v
<1>9. ParseSimpleLeaf(ApplianceState(on)) = <<[index |-> 1, value |-> <<v>>]>>
    BY <1>4, <1>5, <1>6, <1>7, <1>8
<1> QED
    BY <1>9 DEF v

-----------------------------------------------------------------------------
(* The echo of a hood setting.                                             *)

\* The least of a set of naturals.
LEMMA MinOf ==
    ASSUME NEW T, T \subseteq Nat, T # {}
    PROVE  Min(T) \in T /\ \A y \in T : Min(T) <= y
BY Least DEF Min

\* The first hit from `start` on.
LEMMA FirstHit ==
    ASSUME NEW digits \in Seq(Digit), NEW needle, NEW start \in Nat,
           Hits(digits, needle, start) # {}
    PROVE  /\ Min(Hits(digits, needle, start)) \in Hits(digits, needle, start)
           /\ Min(Hits(digits, needle, start)) \in start..(Len(digits) - 4)
           /\ \A y \in Hits(digits, needle, start) : Min(Hits(digits, needle, start)) <= y
<1>1. Len(digits) \in Nat
    OBVIOUS
<1>2. Hits(digits, needle, start) \subseteq start..(Len(digits) - 4)
    BY DEF Hits
<1>3. Hits(digits, needle, start) \subseteq Nat
    BY <1>1, <1>2
<1> QED
    BY <1>2, <1>3, MinOf

\* The loop of parse_dop1_setting_pf_value exists, and goes on two digits behind a hit
\* that does not count.
LEMMA SearchSteps ==
    ASSUME NEW digits \in Seq(Digit), NEW needle
    PROVE  \A start \in Nat :
                Search(digits, needle)[start] =
                    LET hits == Hits(digits, needle, start)
                    IN IF hits = {} THEN None
                       ELSE IF Counts(digits, Min(hits))
                            THEN SubSeq(digits, Min(hits) + 5, Min(hits) + 12)
                            ELSE Search(digits, needle)[Min(hits) + 2]
<1> DEFINE H(start) == Hits(digits, needle, start)
           Value(i) == SubSeq(digits, i + 5, i + 12)
           From(f) == f = [start \in Nat |->
                             LET hits == Hits(digits, needle, start)
                             IN IF hits = {} THEN None
                                ELSE IF Counts(digits, Min(hits))
                                     THEN SubSeq(digits, Min(hits) + 5, Min(hits) + 12)
                                     ELSE f[Min(hits) + 2]]
           V == {None} \cup {Value(i) : i \in Nat}
           stop == {start \in Nat : H(start) = {} \/ Counts(digits, Min(H(start)))}
           val == [start \in Nat |-> IF H(start) = {} \/ start \notin stop THEN None
                                     ELSE Value(Min(H(start)))]
           jump == [start \in Nat |-> IF start \in stop THEN start ELSE Min(H(start)) + 2]
           join == [start \in Nat |-> [v \in V |-> v]]
           rank == [start \in Nat |-> IF start <= Len(digits) THEN Len(digits) - start ELSE 0]
<1>0. Len(digits) \in Nat
    OBVIOUS
<1>1. \A start \in Nat : H(start) # {} =>
            /\ Min(H(start)) \in Nat /\ Min(H(start)) >= start
            /\ Min(H(start)) + 4 <= Len(digits)
    <2> TAKE start \in Nat
    <2> HAVE H(start) # {}
    <2>1. Min(H(start)) \in start..(Len(digits) - 4)
        BY FirstHit
    <2> QED
        BY <1>0, <2>1
<1>2. \E f \in [Nat -> V] : \A start \in Nat : Obeys(f, start, stop, val, jump, join)
    <2>1. stop \in SUBSET Nat /\ join \in [Nat -> [V -> V]]
        OBVIOUS
    <2>2. jump \in [Nat -> Nat]
        <3>1. \A start \in Nat \ stop : Min(H(start)) + 2 \in Nat
            BY <1>1
        <3> HIDE DEF H, stop
        <3> QED
            BY <3>1
    <2>3. val \in [Nat -> V]
        <3>1. \A start \in Nat : H(start) # {} => Value(Min(H(start))) \in V
            BY <1>1
        <3>2. None \in V
            OBVIOUS
        <3> HIDE DEF H, stop, V, Value
        <3> QED
            BY <3>1, <3>2
    <2>4. rank \in [Nat -> Nat]
        BY <1>0
    <2>5. \A start \in Nat \ stop : rank[jump[start]] < rank[start]
        <3> TAKE start \in Nat \ stop
        <3> DEFINE m == Min(H(start))
        <3>1. m \in Nat /\ m >= start /\ m + 4 <= Len(digits) /\ jump[start] = m + 2
            BY <1>1
        <3> HIDE DEF m, jump
        <3>2. rank[m + 2] = Len(digits) - (m + 2) /\ rank[start] = Len(digits) - start
            BY <1>0, <3>1
        <3> HIDE DEF rank
        <3> QED
            BY <1>0, <3>1, <3>2
    <2> HIDE DEF V, stop, val, jump, join, rank
    <2> QED
        BY <2>1, <2>2, <2>3, <2>4, <2>5, Recursion
<1>3. PICK f \in [Nat -> V] : \A start \in Nat : Obeys(f, start, stop, val, jump, join)
    BY <1>2
<1>4. \A start \in Nat :
            f[start] = IF H(start) = {} THEN None
                       ELSE IF Counts(digits, Min(H(start))) THEN Value(Min(H(start)))
                       ELSE f[Min(H(start)) + 2]
    <2> TAKE start \in Nat
    <2>1. f[start] = IF start \in stop THEN val[start] ELSE join[start][f[jump[start]]]
        BY <1>3 DEF Obeys
    <2>2. CASE start \in stop
        BY <2>1, <2>2
    <2>3. CASE start \notin stop
        <3>1. /\ jump[start] = Min(H(start)) + 2 /\ Min(H(start)) + 2 \in Nat
              /\ H(start) # {} /\ ~ Counts(digits, Min(H(start)))
            BY <1>1, <2>3
        <3>2. f[Min(H(start)) + 2] \in V
            BY <3>1
        <3> HIDE DEF V, jump, stop
        <3>3. join[start][f[Min(H(start)) + 2]] = f[Min(H(start)) + 2]
            BY <3>2
        <3> HIDE DEF join
        <3> QED
            BY <2>1, <2>3, <3>1, <3>3
    <2> QED
        BY <2>2, <2>3
<1>5. From(f)
    BY <1>4
<1>6. Search(digits, needle) = CHOOSE g : From(g)
    BY DEF Search
<1>7. From(Search(digits, needle))
    BY <1>5, <1>6
<1> QED
    BY <1>7

\* Digits joined.
LEMMA Joined ==
    ASSUME NEW s \in Seq(Digit), NEW t \in Seq(Digit)
    PROVE  /\ s \o t \in Seq(Digit) /\ Len(s \o t) = Len(s) + Len(t)
           /\ \A j \in 1..Len(s) : (s \o t)[j] = s[j]
           /\ \A j \in 1..Len(t) : (s \o t)[Len(s) + j] = t[j]
<1>1. Len(s) \in Nat /\ Len(t) \in Nat
    OBVIOUS
<1>2. /\ s \o t \in Seq(Digit) /\ Len(s \o t) = Len(s) + Len(t)
      /\ \A j \in 1..(Len(s) + Len(t)) : (s \o t)[j] = IF j <= Len(s) THEN s[j] ELSE t[j - Len(s)]
    BY ConcatProperties
<1>3. \A j \in 1..Len(s) : j \in 1..(Len(s) + Len(t)) /\ j <= Len(s)
    BY <1>1
<1>4. \A j \in 1..Len(t) : /\ Len(s) + j \in 1..(Len(s) + Len(t)) /\ ~ (Len(s) + j <= Len(s))
                           /\ Len(s) + j - Len(s) = j
    BY <1>1
<1>5. ASSUME NEW j \in 1..Len(t)
      PROVE  (s \o t)[Len(s) + j] = t[j]
    <2>1. PICK k \in 1..(Len(s) + Len(t)) : k = Len(s) + j /\ ~ (k <= Len(s)) /\ k - Len(s) = j
        BY <1>4
    <2> QED
        BY <1>2, <2>1
<1> QED
    BY <1>2, <1>3, <1>5

\* The digits of an echo: the framing, the id, its value and what is left of Min and Max.
Echoed(framing, id, value, lost) == framing \o id \o value \o [i \in 1..(16 - lost) |-> 0]

\* The digits of an echo, part by part.
LEMMA EchoDigits ==
    ASSUME NEW framing \in Seq(Digit), NEW id \in Seq(Digit), Len(id) = 4,
           NEW value \in Seq(Digit), Len(value) = 8, NEW lost \in 0..16
    PROVE  LET digits == Echoed(framing, id, value, lost)
           IN /\ digits \in Seq(Digit) /\ Len(digits) = Len(framing) + 28 - lost
              /\ \A j \in 1..4 : digits[Len(framing) + j] = id[j]
              /\ \A j \in 1..8 : digits[Len(framing) + 4 + j] = value[j]
<1> DEFINE n == Len(framing)
           rest == [i \in 1..(16 - lost) |-> 0]
           a == framing \o id
           b == a \o value
           digits == b \o rest
<1>1. n \in Nat
    OBVIOUS
<1>2. rest \in Seq(Digit) /\ Len(rest) = 16 - lost
    <2>1. 16 - lost \in Nat
        OBVIOUS
    <2>2. rest \in [1..(16 - lost) -> Digit]
        BY DEF Digit
    <2> HIDE DEF rest
    <2> QED
        BY <2>1, <2>2, SeqDef
<1> HIDE DEF n, rest
<1>3. /\ a \in Seq(Digit) /\ Len(a) = n + 4
      /\ \A j \in 1..4 : a[n + j] = id[j]
    <2>1. /\ a \in Seq(Digit) /\ Len(a) = Len(framing) + Len(id)
          /\ \A j \in 1..Len(id) : a[Len(framing) + j] = id[j]
        BY Joined, Zenon
    <2> HIDE DEF a
    <2> QED
        BY <2>1 DEF n
<1> HIDE DEF a
<1>4. /\ b \in Seq(Digit) /\ Len(b) = n + 12
      /\ \A j \in 1..(n + 4) : b[j] = a[j]
      /\ \A j \in 1..8 : b[n + 4 + j] = value[j]
    <2>1. n + 4 + 8 = n + 12
        BY <1>1
    <2>2. /\ b \in Seq(Digit) /\ Len(b) = Len(a) + Len(value)
          /\ \A j \in 1..Len(a) : b[j] = a[j]
          /\ \A j \in 1..Len(value) : b[Len(a) + j] = value[j]
        BY <1>3, Joined, Zenon
    <2> HIDE DEF b
    <2> QED
        BY <1>3, <2>1, <2>2
<1> HIDE DEF b
<1>5. /\ digits \in Seq(Digit) /\ Len(digits) = n + 28 - lost
      /\ \A j \in 1..(n + 12) : digits[j] = b[j]
    <2>1. n + 12 + (16 - lost) = n + 28 - lost
        BY <1>1
    <2> QED
        BY <1>2, <1>4, <2>1, Joined
<1> HIDE DEF digits
<1>7. \A j \in 1..4 : digits[n + j] = id[j]
    <2> TAKE j \in 1..4
    <2>1. n + j \in 1..(n + 12) /\ n + j \in 1..(n + 4)
        BY <1>1
    <2> QED
        BY <1>3, <1>4, <1>5, <2>1
<1>8. \A j \in 1..8 : digits[n + 4 + j] = value[j]
    <2> TAKE j \in 1..8
    <2>1. n + 4 + j \in 1..(n + 12)
        BY <1>1
    <2> QED
        BY <1>4, <1>5, <2>1
<1>9. Echoed(framing, id, value, lost) = digits
    BY DEF Echoed, digits, b, a, rest
<1> QED
    BY <1>5, <1>7, <1>8, <1>9 DEF n

\* Where a hit is, the needle stands.
LEMMA HitDigits ==
    ASSUME NEW digits \in Seq(Digit), NEW needle \in Seq(Digit), Len(needle) = 4,
           NEW start \in Nat, NEW i \in Nat
    PROVE  i \in Hits(digits, needle, start) <=>
                /\ i >= start /\ i + 4 <= Len(digits)
                /\ \A j \in 1..4 : digits[i + j] = needle[j]
<1>1. Len(digits) \in Nat
    OBVIOUS
<1>2. i \in start..(Len(digits) - 4) <=> i >= start /\ i + 4 <= Len(digits)
    BY <1>1
<1>3. ASSUME i + 4 <= Len(digits)
      PROVE  SubSeq(digits, i + 1, i + 4) = needle <=> \A j \in 1..4 : digits[i + j] = needle[j]
    <2> DEFINE s == SubSeq(digits, i + 1, i + 4)
    <2>1. s \in Seq(Digit) /\ Len(s) = 4 /\ \A j \in 1..4 : s[j] = digits[i + j]
        BY <1>3, Slice
    <2> HIDE DEF s
    <2>2. (\A j \in 1..4 : s[j] = needle[j]) => s = needle
        BY <2>1, SeqEqual
    <2> QED
        BY <2>1, <2>2 DEF s
<1> QED
    BY <1>2, <1>3 DEF Hits

\* An id that is not one digit repeated is not found one digit before itself.
LEMMA NoHitBefore ==
    ASSUME NEW digits \in Seq(Digit), NEW id \in PfIds, NEW at \in Nat, at >= 1,
           at \in Hits(digits, id, 0), at - 1 \in Hits(digits, id, 0)
    PROVE  FALSE
<1>1. id \in Seq(Digit) /\ Len(id) = 4
    BY PfAssumption
<1>2. PICK i \in 2..4 : id[i] # id[1]
    BY PfAssumption
<1>3. \A j \in 1..4 : digits[at + j] = id[j]
    BY <1>1, HitDigits
<1>4. at - 1 \in Nat
    OBVIOUS
<1>5. \A j \in 1..4 : digits[at - 1 + j] = id[j]
    BY <1>1, <1>4, HitDigits
<1>6. digits[at + 1] = id[1] /\ digits[at + 2] = id[2] /\ digits[at + 3] = id[3]
    BY <1>3
<1>7. digits[at - 1 + 2] = id[2] /\ digits[at - 1 + 3] = id[3] /\ digits[at - 1 + 4] = id[4]
    BY <1>5
<1>8. at - 1 + 2 = at + 1 /\ at - 1 + 3 = at + 2 /\ at - 1 + 4 = at + 3
    OBVIOUS
<1>9. id[2] = id[1] /\ id[3] = id[1] /\ id[4] = id[1]
    BY <1>6, <1>7, <1>8
<1>10. i = 2 \/ i = 3 \/ i = 4
    OBVIOUS
<1> QED
    BY <1>2, <1>9, <1>10

\* Behind framing of whole bytes the value is found, from wherever before it the search
\* starts.
LEMMA WholeEcho ==
    ASSUME NEW digits \in Seq(Digit), NEW id \in PfIds, NEW at \in Nat, at % 2 = 0,
           Len(digits) = at + 28, at \in Hits(digits, id, 0),
           \A i \in Hits(digits, id, 0) : ~ (i < at /\ i % 2 = 0)
    PROVE  \A start \in 0..at :
                Search(digits, id)[start] = SubSeq(digits, at + 5, at + 12)
<1> DEFINE S == {k \in Nat : k <= at =>
                    Search(digits, id)[at - k] = SubSeq(digits, at + 5, at + 12)}
<1>1. ASSUME NEW k \in Nat, \A m \in Nat : m < k => m \in S
      PROVE  k \in S
    <2> SUFFICES ASSUME k <= at
                 PROVE  Search(digits, id)[at - k] = SubSeq(digits, at + 5, at + 12)
        OBVIOUS
    <2> DEFINE start == at - k
               H == Hits(digits, id, start)
               m == Min(H)
    <2>1. start \in Nat /\ start <= at
        OBVIOUS
    <2>2. id \in Seq(Digit) /\ Len(id) = 4
        BY PfAssumption
    <2> HIDE DEF start
    <2>3. at \in H
        BY <2>1, <2>2, HitDigits
    <2>4. m \in H /\ m \in start..(Len(digits) - 4) /\ m <= at
        BY <2>1, <2>3, FirstHit
    <2>5. m \in Nat /\ m >= start /\ m \in Hits(digits, id, 0)
        <3>0. Len(digits) \in Nat
            OBVIOUS
        <3> HIDE DEF m
        <3>1. m \in Nat /\ m >= start
            BY <2>1, <2>4, <3>0
        <3>2. m >= 0 /\ m + 4 <= Len(digits) /\ \A j \in 1..4 : digits[m + j] = id[j]
            BY <2>1, <2>2, <2>4, <3>1, HitDigits
        <3> QED
            BY <2>2, <3>1, <3>2, HitDigits
    <2>6. Search(digits, id)[start] =
            IF Counts(digits, m) THEN SubSeq(digits, m + 5, m + 12)
            ELSE Search(digits, id)[m + 2]
        BY <2>1, <2>2, <2>3, SearchSteps
    <2> HIDE DEF m, H
    <2>7. CASE m = at
        BY <2>6, <2>7 DEF Counts, start
    <2>8. CASE m # at
        <3>1. m < at /\ m % 2 # 0
            BY <2>4, <2>5, <2>8
        <3>2. m # at - 1
            BY <2>5, <3>1, NoHitBefore
        <3>3. m + 2 <= at /\ at - (m + 2) \in Nat /\ at - (m + 2) < k
              /\ at - (at - (m + 2)) = m + 2 /\ at - (m + 2) <= at
            BY <2>1, <2>5, <3>1, <3>2 DEF start
        <3>4. at - (m + 2) \in S
            BY <1>1, <3>3
        <3>5. Search(digits, id)[m + 2] = SubSeq(digits, at + 5, at + 12)
            BY <3>3, <3>4
        <3> QED
            BY <2>6, <3>1, <3>5 DEF Counts, start
    <2> QED
        BY <2>7, <2>8
<1> HIDE DEF S
<1>2. Nat \subseteq S
    BY <1>1, Induction
<1>3. ASSUME NEW start \in 0..at
      PROVE  Search(digits, id)[start] = SubSeq(digits, at + 5, at + 12)
    <2>1. at - start \in Nat /\ at - start <= at /\ at - (at - start) = start
        OBVIOUS
    <2>2. at - start \in S
        BY <1>2, <2>1
    <2> QED
        BY <2>1, <2>2 DEF S
<1> QED
    BY <1>3

\* Where no hit counts nothing is found.
LEMMA NoEcho ==
    ASSUME NEW digits \in Seq(Digit), NEW needle,
           \A i \in Hits(digits, needle, 0) : ~ Counts(digits, i)
    PROVE  \A start \in Nat : Search(digits, needle)[start] = None
<1> DEFINE L == Len(digits)
           S == {k \in Nat : \A start \in Nat : start + k >= L =>
                                Search(digits, needle)[start] = None}
<1>0. L \in Nat
    OBVIOUS
<1>1. ASSUME NEW k \in Nat, \A m \in Nat : m < k => m \in S
      PROVE  k \in S
    <2> SUFFICES ASSUME NEW start \in Nat, start + k >= L
                 PROVE  Search(digits, needle)[start] = None
        OBVIOUS
    <2> DEFINE H == Hits(digits, needle, start)
               m == Min(H)
    <2>1. Search(digits, needle)[start] =
            IF H = {} THEN None
            ELSE IF Counts(digits, m) THEN SubSeq(digits, m + 5, m + 12)
            ELSE Search(digits, needle)[m + 2]
        BY SearchSteps
    <2>2. CASE H = {}
        BY <2>1, <2>2
    <2>3. CASE H # {}
        <3>1. m \in H /\ m \in start..(L - 4)
            BY <2>3, FirstHit
        <3>2. m \in Hits(digits, needle, 0)
            <4> HIDE DEF m
            <4> QED
                BY <1>0, <3>1 DEF Hits
        <3>3. ~ Counts(digits, m)
            BY <3>2
        <3> HIDE DEF m, H, L
        <3>4. m \in Nat /\ m + 4 <= L /\ m >= start
            BY <1>0, <3>1
        <3>5. k - 1 \in Nat /\ k - 1 < k /\ m + 2 \in Nat /\ m + 2 + (k - 1) >= L
            BY <1>0, <3>4
        <3>6. k - 1 \in S
            BY <1>1, <3>5
        <3>7. Search(digits, needle)[m + 2] = None
            BY <3>5, <3>6
        <3> QED
            BY <2>1, <2>3, <3>3, <3>7
    <2> QED
        BY <2>2, <2>3
<1> HIDE DEF S
<1>2. Nat \subseteq S
    BY <1>1, Induction
<1>3. L \in S
    BY <1>0, <1>2
<1> QED
    BY <1>0, <1>3 DEF S

-----------------------------------------------------------------------------
(* Blocks of padding.                                                      *)

\* The greater of two numbers.
LEMMA MaxOfTwo ==
    ASSUME NEW a \in Nat, NEW b \in Nat
    PROVE  Max({a, b}) = IF a >= b THEN a ELSE b
<1>1. \E x \in {a, b} : \A y \in {a, b} : x >= y
    OBVIOUS
<1>2. /\ Max({a, b}) \in {a, b}
      /\ \A y \in {a, b} : Max({a, b}) >= y
    BY <1>1 DEF Max
<1> QED
    BY <1>2

\* Whole blocks of 16, the fewest that hold n.
LEMMA BlocksOf ==
    ASSUME NEW n \in Nat
    PROVE  /\ Blocks(n) \in Nat /\ FewestBlocks(Blocks(n), n)
           /\ n \in 1..16 => Blocks(n) = 16
<1>1. n % 16 \in 0..15 /\ n % 16 <= n
    OBVIOUS
<1>2. (n + 16 - (n % 16)) % 16 = 0
    OBVIOUS
<1>3. n \in 1..16 => n % 16 = IF n = 16 THEN 0 ELSE n
    OBVIOUS
<1> QED
    BY <1>1, <1>2, <1>3 DEF Blocks, FewestBlocks

-----------------------------------------------------------------------------
(* Theorems.                                                               *)

Kinds == {"nothing", "body", "leaf", "echo", "send", "press", "write"}

\* What is handled is one of the messages of the constants, and complete.
Arrived ==
    /\ message.kind \in Kinds
    /\ message.kind = "body" => message.tree \in Trees
    /\ message.kind = "leaf" =>
            message.leaf \in Leaves /\ message.lost \in 0..Len(Payload(message.leaf))
    /\ message.kind = "echo" =>
            /\ message.framing \in Framings /\ message.id \in PfIds
            /\ message.value \in Values /\ message.lost \in 0..16
    /\ message.kind = "send" =>
            message.json \in BOOLEAN /\ message.len \in Nat /\ (message.json => message.len >= 2)
    /\ message.kind = "press" =>
            /\ message = [kind |-> "press", family |-> message.family,
                          state |-> message.state, action |-> message.action]
            /\ message.family \in DOMAIN Buttons /\ message.state \in States \cup {None}
            /\ message.action \in Buttons[message.family]
    /\ message.kind = "write" => message.opcode \in Byte

\* Every message is of one of the kinds, with the parts of its kind.
THEOREM MessagesArrive == Spec => []Arrived
<1>1. Init => Arrived
    BY DEF Init, Arrived, Kinds
<1>2. Arrived /\ [Next]_message => Arrived'
    <2> SUFFICES ASSUME Arrived, [Next]_message PROVE Arrived'
        OBVIOUS
    <2>1. CASE Body
        BY <2>1 DEF Body, Arrived, Kinds
    <2>2. CASE Leaf
        BY <2>2 DEF Leaf, Arrived, Kinds
    <2>3. CASE Echo
        BY <2>3 DEF Echo, Arrived, Kinds
    <2>4. CASE Send
        BY <2>4, LengthAssumption DEF Send, Arrived, Kinds
    <2>5. CASE Press
        BY <2>5 DEF Press, Arrived, Kinds
    <2>6. CASE Write
        BY <2>6 DEF Write, Arrived, Kinds
    <2>7. CASE Handled
        BY <2>7 DEF Handled, Arrived, Kinds
    <2>8. CASE UNCHANGED message
        BY <2>8 DEF Arrived
    <2> QED
        BY <2>1, <2>2, <2>3, <2>4, <2>5, <2>6, <2>7, <2>8 DEF Next
<1> QED
    BY <1>1, <1>2, PTL DEF Spec

\* A leaf of any number of fields, cut anywhere, gives the attributes that are there in
\* full and no other; one the integration writes gives the value it was to carry.
THEOREM LeavesAreReadBack == Spec => []LeavesReadBack
<1>1. Arrived => LeavesReadBack
    <2> SUFFICES ASSUME Arrived PROVE LeavesReadBack
        OBVIOUS
    <2>1. ASSUME message.kind = "leaf"
          PROVE  LET payload == Payload(message.leaf)
                     cut == SubSeq(payload, 1, Len(payload) - message.lost)
                     Reads(k) == 12 + Len(Encoded(message.leaf)[k]) <= Len(cut)
                 IN IF Len(cut) < 12 THEN ParseSimpleLeaf(cut) = None
                    ELSE \E k \in 0..Len(message.leaf) :
                            /\ Reads(k) /\ (k < Len(message.leaf) => ~ Reads(k + 1))
                            /\ ParseSimpleLeaf(cut) = Attributes(message.leaf, k)
        <3> DEFINE leaf == message.leaf
                   payload == Payload(leaf)
                   last == Len(payload) - message.lost
                   cut == SubSeq(payload, 1, last)
        <3>1. WireLeaf(leaf) /\ message.lost \in 0..Len(payload)
            BY <2>1, LeavesAssumption DEF Arrived, WireLeaf
        <3>2. payload \in Seq(Byte) /\ Len(payload) \in Nat
            BY <3>1, PayloadBytes, LenProperties
        <3> HIDE DEF leaf, payload
        <3>3. last \in Nat /\ last <= Len(payload)
            BY <3>1, <3>2
        <3> HIDE DEF last
        <3>4. /\ cut \in Seq(Byte) /\ Len(cut) = last
              /\ \A j \in 1..last : cut[j] = payload[j]
            <4>1. \A i \in 1..last : payload[i] \in Byte
                BY <3>2, <3>3, ElementOfSeq
            <4>2. /\ cut \in Seq(Byte)
                  /\ Len(cut) = IF 1 <= last THEN last - 1 + 1 ELSE 0
                  /\ \A j \in 1..(last - 1 + 1) : cut[j] = payload[1 + j - 1]
                BY <3>3, <4>1, SubSeqProperties
            <4>3. last - 1 + 1 = last /\ (1 <= last \/ last = 0) /\ \A j \in 1..last : 1 + j - 1 = j
                BY <3>3
            <4> HIDE DEF cut
            <4> QED
                BY <4>2, <4>3
        <3> HIDE DEF cut
        <3>5. Len(cut) < 12 => ParseSimpleLeaf(cut) = None
            BY DEF ParseSimpleLeaf
        <3>6. ASSUME ~ (Len(cut) < 12)
              PROVE  CutLeaf(leaf, cut)
            BY <3>1, <3>3, <3>4, <3>6 DEF CutLeaf, payload
        <3> QED
            BY <3>5, <3>6, CutLeafReads DEF Whole, cut, last, payload, leaf
    <2>2. ASSUME message.kind = "write"
          PROVE  /\ ParseSimpleLeaf(UserRequest(message.opcode)) =
                        <<[index |-> 1, value |-> <<0, message.opcode>>]>>
                 /\ \A on \in BOOLEAN :
                        ParseSimpleLeaf(ApplianceState(on)) =
                            <<[index |-> 1, value |-> <<IF on THEN 4 ELSE 1>>]>>
        BY <2>2, UserRequestReadsBack, ApplianceStateReadsBack DEF Arrived
    <2> QED
        BY <2>1, <2>2 DEF LeavesReadBack
<1> QED
    BY <1>1, MessagesArrive, PTL

\* What is padded is whole cipher blocks, the fewest its form allows.
THEOREM PaddingIsTheLeast == Spec => []PaddingIsLeast
<1>1. Arrived => PaddingIsLeast
    <2> SUFFICES ASSUME Arrived, message.kind = "send", message.len > 0 PROVE PaddingIsLeast
        BY DEF PaddingIsLeast
    <2> DEFINE n == message.len
               json == message.json
    <2>1. n \in Nat /\ n > 0 /\ json \in BOOLEAN
        BY DEF Arrived
    <2> HIDE DEF n, json
    <2>2. \A m \in Nat : Max({m, n}) \in Nat /\ Max({m, n}) = IF m >= n THEN m ELSE n
        BY <2>1, MaxOfTwo
    <2>3. Max({16, n}) = (IF 16 >= n THEN 16 ELSE n) /\ Max({64, n}) = (IF 64 >= n THEN 64 ELSE n)
        BY <2>2
    <2>4. Blocks(16) = 16 /\ Blocks(64) = 64 /\ Blocks(n) \in Nat /\ Blocks(n) >= n
        BY <2>1, BlocksOf DEF FewestBlocks, Blocks
    <2>5. Blocks(Max({64, n})) \in Nat /\ Blocks(Max({64, n})) >= n
        BY <2>1, <2>3, <2>4
    <2>6. Blocks(Max({16, n})) = Blocks(n)
        <3>1. n \in 1..16 => Blocks(n) = 16
            BY <2>1, BlocksOf
        <3> QED
            BY <2>1, <2>3, <2>4, <3>1
    <2>7. LET pad == PadRequestBody(message)
              least == IF json THEN 64 ELSE 16
          IN /\ pad.before >= 0 /\ pad.after >= 0
             /\ n + pad.before + pad.after = Blocks(Max({least, n}))
        <3>1. CASE json
            <4>1. PadRequestBody(message) = [before |-> Blocks(Max({64, n})) - n, after |-> 0]
                BY <2>1, <3>1 DEF PadRequestBody, PadTo, n, json
            <4> QED
                BY <2>1, <2>5, <3>1, <4>1
        <3>2. CASE ~ json
            <4>1. PadRequestBody(message) = [before |-> 0, after |-> Blocks(n) - n]
                BY <2>1, <3>2 DEF PadRequestBody, PadTo, n, json
            <4> QED
                BY <2>1, <2>4, <2>6, <3>2, <4>1
        <3> QED
            BY <3>1, <3>2
    <2>8. LET pad == MielePad(message)
          IN /\ pad.before >= 0 /\ pad.after >= 0
             /\ n + pad.before + pad.after = Blocks(Max({64, n}))
        <3>1. CASE json /\ n < 64
            <4>1. MielePad(message) = [before |-> 64 - n, after |-> 0]
                BY <2>1, <3>1 DEF MielePad, PadTo, n, json
            <4> QED
                BY <2>1, <2>3, <2>4, <3>1, <4>1
        <3>2. CASE ~ (json /\ n < 64)
            <4> DEFINE missing == Max({64 - n, 0})
                       rest == n % 16
                       after == CASE missing > 0 -> missing
                                  [] missing = 0 /\ rest = 0 -> 0
                                  [] missing = 0 /\ rest # 0 -> 16 - rest
            <4>1. MielePad(message) = [before |-> 0, after |-> after]
                <5>1. message.len # 0 /\ ~ (message.json /\ message.len < 64)
                    BY <2>1, <3>2 DEF n, json
                <5> QED
                    BY <5>1 DEF MielePad, n
            <4>2. missing = IF n < 64 THEN 64 - n ELSE 0
                <5>1. \E x \in {64 - n, 0} : \A y \in {64 - n, 0} : x >= y
                    BY <2>1
                <5>2. missing \in {64 - n, 0} /\ \A y \in {64 - n, 0} : missing >= y
                    BY <5>1 DEF Max
                <5> QED
                    BY <2>1, <5>2
            <4>3. Blocks(n) = IF rest = 0 THEN n ELSE n + 16 - rest
                BY DEF Blocks
            <4>4. rest \in 0..15
                BY <2>1
            <4> HIDE DEF missing, rest
            <4>5. after >= 0 /\ n + 0 + after = Blocks(Max({64, n}))
                <5>1. CASE n < 64
                    <6>1. missing = 64 - n /\ missing > 0 /\ Blocks(Max({64, n})) = 64
                        BY <2>1, <2>3, <2>4, <4>2, <5>1
                    <6>2. after = 64 - n
                        BY <6>1
                    <6> HIDE DEF after
                    <6> QED
                        BY <2>1, <5>1, <6>1, <6>2
                <5>2. CASE n >= 64
                    <6>1. missing = 0 /\ Blocks(Max({64, n})) = Blocks(n)
                        BY <2>1, <2>3, <2>4, <4>2, <5>2
                    <6>2. after = IF rest = 0 THEN 0 ELSE 16 - rest
                        BY <4>4, <6>1
                    <6> HIDE DEF after
                    <6> QED
                        <7>1. CASE rest = 0
                            BY <2>1, <4>3, <6>1, <6>2, <7>1
                        <7>2. CASE rest # 0
                            <8>1. 16 - rest >= 0 /\ n + 0 + (16 - rest) = n + 16 - rest
                                BY <2>1, <4>4
                            <8> QED
                                BY <4>3, <6>1, <6>2, <7>2, <8>1
                        <7> QED
                            BY <7>1, <7>2
                <5> HIDE DEF after
                <5> QED
                    BY <2>1, <5>1, <5>2
            <4> HIDE DEF after
            <4> QED
                BY <4>1, <4>5
        <3> QED
            BY <3>1, <3>2
    <2> QED
        BY <2>2, <2>7, <2>8, BlocksOf DEF PaddingIsLeast, n, json
<1> QED
    BY <1>1, MessagesArrive, PTL

\* A write the cached state lets through would be let through too if any part of that
\* state, or all of it, were not known.
THEOREM UnknownBlocksNothing == Spec => []UnknownNeverBlocks
<1>1. Arrived => UnknownNeverBlocks
    <2> SUFFICES ASSUME Arrived, message.kind = "press", message.state # None, Sends(message)
                 PROVE  UnknownNeverBlocks
        BY DEF UnknownNeverBlocks
    <2> DEFINE family == message.family
               state == message.state
               action == message.action
    <2>1. message = [kind |-> "press", family |-> family, state |-> state, action |-> action]
        BY DEF Arrived
    <2>2. state \in States /\ ~ Refuses(family, state, action)
        BY DEF Arrived, Sends
    <2>3. Sends([message EXCEPT !.state = None])
        <3>1. [message EXCEPT !.state = None].state = None
            BY <2>1
        <3> QED
            BY <3>1 DEF Sends
    <2>4. ASSUME NEW field \in DOMAIN state
          PROVE  Sends([message EXCEPT !.state = [@ EXCEPT ![field] = None]])
        <3> DEFINE less == [state EXCEPT ![field] = None]
        <3>1. [message EXCEPT !.state = less] =
                [kind |-> "press", family |-> family, state |-> less, action |-> action]
            BY <2>1
        <3>2. ~ Refuses(family, less, action)
            <4>1. field \in {"status", "remote", "mobile", "delay"}
                BY <2>2 DEF States
            <4>2. /\ less.status \in {state.status, None} /\ less.remote \in {state.remote, None}
                  /\ less.mobile \in {state.mobile, None} /\ less.delay \in {state.delay, None}
                BY <2>2, <4>1 DEF States
            <4>3. None # 0
                BY NoneAssumption
            <4> HIDE DEF less, state, action, family
            <4>4. DishwasherRefuses(less, action) => DishwasherRefuses(state, action)
                BY <4>2, <4>3 DEF DishwasherRefuses
            <4>5. LaundryRefuses(less, action) => LaundryRefuses(state, action)
                <5>1. /\ Off(less.remote) => Off(state.remote)
                      /\ Off(less.mobile) => Off(state.mobile)
                      /\ less.status # None => less.status = state.status
                      /\ less.delay # None => less.delay = state.delay
                    BY <4>2 DEF Off
                <5>2. CASE action = "stop"
                    BY <5>1, <5>2 DEF LaundryRefuses
                <5>3. CASE action = "start"
                    BY <4>2, <5>1, <5>3 DEF LaundryRefuses
                <5>4. CASE action \notin {"start", "stop"}
                    BY <5>4 DEF LaundryRefuses
                <5> QED
                    BY <5>2, <5>3, <5>4
            <4> QED
                BY <2>2, <4>4, <4>5 DEF Refuses
        <3> QED
            BY <3>1, <3>2 DEF Sends
    <2> QED
        BY <2>3, <2>4 DEF UnknownNeverBlocks
<1> QED
    BY <1>1, MessagesArrive, PTL

\* Whatever frames the echo of an id, its own value is read, and only with all three
\* numbers behind it.
THEOREM EchoIsRead == Spec => []EchoedValueIsRead
<1>1. Arrived => EchoedValueIsRead
    <2> SUFFICES ASSUME Arrived, message.kind = "echo" PROVE EchoedValueIsRead
        BY DEF EchoedValueIsRead
    <2> DEFINE framing == message.framing
               id == message.id
               value == message.value
               lost == message.lost
               at == Len(framing)
               digits == Echoed(framing, id, value, lost)
    <2>1. /\ framing \in Seq(Digit) /\ id \in PfIds /\ id \in Seq(Digit) /\ Len(id) = 4
          /\ value \in Seq(Digit) /\ Len(value) = 8 /\ lost \in 0..16
        BY EchoAssumption, PfAssumption DEF Arrived
    <2> HIDE DEF framing, id, value, lost
    <2>2. /\ digits \in Seq(Digit) /\ Len(digits) = at + 28 - lost
          /\ \A j \in 1..4 : digits[at + j] = id[j]
          /\ \A j \in 1..8 : digits[at + 4 + j] = value[j]
        BY <2>1, EchoDigits
    <2> HIDE DEF digits
    <2>3. at \in Nat /\ Len(digits) \in Nat
        BY <2>1, <2>2, LenProperties
    <2> HIDE DEF at
    <2>4. ASSUME ~ \E i \in Hits(digits, id, 0) : i < at /\ i % 2 = 0
          PROVE  ParsePfValue(digits, id) = IF lost = 0 /\ at % 2 = 0 THEN value ELSE None
        <3>1. CASE Len(digits) % 2 = 1
            <4>1. ~ (lost = 0 /\ at % 2 = 0)
                <5> SUFFICES ASSUME lost = 0, at % 2 = 0 PROVE FALSE
                    OBVIOUS
                <5>1. Len(digits) = at + 28
                    BY <2>2, <2>3
                <5>2. (at + 28) % 2 = 0
                    BY <2>3
                <5> QED
                    BY <3>1, <5>1, <5>2
            <4> QED
                BY <3>1, <4>1 DEF ParsePfValue
        <3>2. CASE Len(digits) % 2 # 1 /\ lost = 0
            <4>1. Len(digits) = at + 28 /\ at % 2 = 0
                <5>1. Len(digits) = at + 28
                    BY <2>2, <2>3, <3>2
                <5>2. (at + 28) % 2 # 1 => at % 2 = 0
                    BY <2>3
                <5> QED
                    BY <3>2, <5>1, <5>2
            <4>2. at \in Hits(digits, id, 0)
                <5>1. at >= 0 /\ at + 4 <= Len(digits)
                    BY <2>3, <4>1
                <5> QED
                    BY <2>1, <2>2, <2>3, <5>1, HitDigits
            <4>3. Search(digits, id)[0] = SubSeq(digits, at + 5, at + 12)
                <5>1. 0 \in 0..at
                    BY <2>3
                <5> QED
                    BY <2>1, <2>2, <2>3, <2>4, <4>1, <4>2, <5>1, WholeEcho
            <4>4. SubSeq(digits, at + 5, at + 12) = value
                <5> DEFINE off == at + 4
                           s == SubSeq(digits, off + 1, off + 8)
                <5>1. off \in Nat /\ off + 8 <= Len(digits) /\ off + 1 = at + 5 /\ off + 8 = at + 12
                    BY <2>3, <4>1
                <5>2. s \in Seq(Digit) /\ Len(s) = 8 /\ \A j \in 1..8 : s[j] = digits[off + j]
                    <6> HIDE DEF off
                    <6> QED
                        BY <2>2, <5>1, Slice
                <5>3. \A j \in 1..8 : s[j] = value[j]
                    BY <2>2, <5>2
                <5>4. s = SubSeq(digits, at + 5, at + 12)
                    BY <5>1
                <5> HIDE DEF s, off
                <5>5. s = value
                    BY <2>1, <5>2, <5>3, SeqEqual
                <5> QED
                    BY <5>4, <5>5
            <4> QED
                BY <3>2, <4>1, <4>3, <4>4 DEF ParsePfValue
        <3>3. CASE lost # 0
            <4>1. \A i \in Hits(digits, id, 0) : ~ Counts(digits, i)
                <5> SUFFICES ASSUME NEW i \in Hits(digits, id, 0), i % 2 = 0, i + 28 <= Len(digits)
                             PROVE  FALSE
                    BY DEF Counts
                <5>1. i \in Nat
                    BY <2>3 DEF Hits
                <5>2. i < at
                    BY <2>1, <2>2, <2>3, <3>3, <5>1
                <5> QED
                    BY <2>4, <5>2
            <4>2. Search(digits, id)[0] = None
                BY <2>2, <4>1, NoEcho
            <4> QED
                BY <3>3, <4>2 DEF ParsePfValue
        <3> QED
            BY <3>1, <3>2, <3>3
    <2>5. digits = message.framing \o message.id \o message.value
                    \o [i \in 1..(16 - message.lost) |-> 0]
        BY DEF digits, Echoed, framing, id, value, lost
    <2> QED
        BY <2>4, <2>5 DEF EchoedValueIsRead, at, framing, id, value, lost
<1> QED
    BY <1>1, MessagesArrive, PTL
-----------------------------------------------------------------------------
(* Recursion over what nests.                                              *)

\* The value at x is made from the values at points of less rank.
Founded(D, V, step, rank) ==
    /\ step \in [D -> [[D -> V] -> V]]
    /\ rank \in [D -> Nat]
    /\ \A x \in D : \A g, h \in [D -> V] :
            (\A y \in D : rank[y] < rank[x] => g[y] = h[y]) => step[x][g] = step[x][h]

\* So there is such a function.
LEMMA DeepRecursion ==
    ASSUME NEW D, NEW V, NEW v0 \in V, NEW step, NEW rank, Founded(D, V, step, rank)
    PROVE  \E f \in [D -> V] : \A x \in D : f[x] = step[x][f]
<1>0. /\ step \in [D -> [[D -> V] -> V]]
      /\ rank \in [D -> Nat]
      /\ \A x \in D : \A g, h \in [D -> V] :
            (\A y \in D : rank[y] < rank[x] => g[y] = h[y]) => step[x][g] = step[x][h]
    BY DEF Founded
<1> USE <1>0
<1> DEFINE Below(f, n) == \A x \in D : rank[x] < n => f[x] = step[x][f]
<1>1. \A n \in Nat : \E f \in [D -> V] : Below(f, n)
    <2> DEFINE S == {n \in Nat : \E f \in [D -> V] : Below(f, n)}
    <2>1. ASSUME NEW n \in Nat, \A m \in Nat : m < n => m \in S
          PROVE  n \in S
        <3>1. CASE n = 0
            <4> DEFINE g == [x \in D |-> v0]
            <4>1. g \in [D -> V] /\ Below(g, n)
                BY <3>1
            <4> QED
                BY <4>1
        <3>2. CASE n > 0
            <4>1. n - 1 \in S
                <5>1. n - 1 \in Nat /\ n - 1 < n
                    BY <3>2
                <5> HIDE DEF S
                <5> QED
                    BY <2>1, <5>1
            <4>2. PICK f \in [D -> V] : Below(f, n - 1)
                BY <4>1
            <4> DEFINE g == [x \in D |-> step[x][f]]
            <4>3. g \in [D -> V]
                OBVIOUS
            <4>4. ASSUME NEW x \in D, rank[x] < n
                  PROVE  g[x] = step[x][g]
                <5>1. \A y \in D : rank[y] < rank[x] => g[y] = f[y]
                    <6> TAKE y \in D
                    <6> HAVE rank[y] < rank[x]
                    <6>1. rank[y] < n - 1
                        BY <4>4
                    <6> QED
                        BY <4>2, <6>1
                <5>2. step[x][g] = step[x][f]
                    BY <4>3, <5>1
                <5> QED
                    BY <5>2
            <4> HIDE DEF g
            <4> QED
                BY <4>3, <4>4
        <3> QED
            BY <3>1, <3>2
    <2> HIDE DEF S
    <2>2. Nat \subseteq S
        BY <2>1, Induction
    <2> QED
        BY <2>2 DEF S
<1> DEFINE pick == [n \in Nat |-> CHOOSE f \in [D -> V] : Below(f, n)]
<1>2. \A n \in Nat : pick[n] \in [D -> V] /\ Below(pick[n], n)
    BY <1>1
<1> HIDE DEF pick
<1>3. \A n, m \in Nat : m <= n => \A x \in D : rank[x] < m => pick[n][x] = pick[m][x]
    <2> SUFFICES ASSUME NEW n \in Nat, NEW m \in Nat, m <= n
                 PROVE  \A x \in D : rank[x] < m => pick[n][x] = pick[m][x]
        OBVIOUS
    <2> DEFINE S == {k \in Nat : \A x \in D : rank[x] = k /\ k < m => pick[n][x] = pick[m][x]}
    <2>1. ASSUME NEW k \in Nat, \A j \in Nat : j < k => j \in S
          PROVE  k \in S
        <3> SUFFICES ASSUME NEW x \in D, rank[x] = k, k < m PROVE pick[n][x] = pick[m][x]
            OBVIOUS
        <3>1. \A y \in D : rank[y] < rank[x] => pick[n][y] = pick[m][y]
            BY <2>1
        <3>2. step[x][pick[n]] = step[x][pick[m]]
            BY <1>2, <3>1
        <3>3. pick[n][x] = step[x][pick[n]] /\ pick[m][x] = step[x][pick[m]]
            BY <1>2
        <3> QED
            BY <3>2, <3>3
    <2> HIDE DEF S
    <2>2. Nat \subseteq S
        BY <2>1, Induction
    <2> QED
        BY <2>2 DEF S
<1> DEFINE F == [x \in D |-> pick[rank[x] + 1][x]]
<1>4. F \in [D -> V]
    BY <1>2
<1>5. ASSUME NEW x \in D
      PROVE  F[x] = step[x][F]
    <2> DEFINE p == pick[rank[x] + 1]
    <2>1. p \in [D -> V] /\ p[x] = step[x][p]
        BY <1>2
    <2>2. \A y \in D : rank[y] < rank[x] => F[y] = p[y]
        <3> TAKE y \in D
        <3> HAVE rank[y] < rank[x]
        <3>1. rank[y] + 1 <= rank[x] + 1 /\ rank[y] + 1 \in Nat /\ rank[x] + 1 \in Nat
            OBVIOUS
        <3>2. pick[rank[x] + 1][y] = pick[rank[y] + 1][y]
            BY <1>3, <3>1
        <3> QED
            BY <3>2
    <2> HIDE DEF F, p
    <2>3. step[x][F] = step[x][p]
        BY <1>4, <2>1, <2>2
    <2> QED
        BY <2>1, <2>3 DEF F, p
<1> QED
    BY <1>4, <1>5

-----------------------------------------------------------------------------
(* Bytes that stand in a buffer.                                           *)

Held(buf, off, bytes) ==
    /\ off + Len(bytes) <= Len(buf)
    /\ \A j \in 1..Len(bytes) : buf[off + j] = bytes[j]

\* Of two sequences end to end, each stands in its place.
LEMMA HeldBoth ==
    ASSUME NEW buf \in Seq(Byte), NEW off \in Nat, NEW s \in Seq(Byte), NEW t \in Seq(Byte),
           Held(buf, off, s \o t)
    PROVE  Held(buf, off, s) /\ Held(buf, off + Len(s), t)
<1>1. /\ Len(s) \in Nat /\ Len(t) \in Nat /\ Len(buf) \in Nat /\ Len(s \o t) = Len(s) + Len(t)
      /\ \A j \in 1..(Len(s) + Len(t)) : (s \o t)[j] = IF j <= Len(s) THEN s[j] ELSE t[j - Len(s)]
    BY ConcatProperties, LenProperties
<1>2. /\ off + (Len(s) + Len(t)) <= Len(buf)
      /\ \A j \in 1..(Len(s) + Len(t)) : buf[off + j] = (s \o t)[j]
    BY <1>1 DEF Held
<1>3. Held(buf, off, s)
    <2>1. \A j \in 1..Len(s) : buf[off + j] = s[j]
        <3> TAKE j \in 1..Len(s)
        <3>1. j \in 1..(Len(s) + Len(t)) /\ j <= Len(s)
            BY <1>1
        <3> QED
            BY <1>1, <1>2, <3>1
    <2>2. off + Len(s) <= Len(buf)
        BY <1>1, <1>2
    <2> QED
        BY <2>1, <2>2 DEF Held
<1>4. Held(buf, off + Len(s), t)
    <2>1. \A j \in 1..Len(t) : buf[off + Len(s) + j] = t[j]
        <3> TAKE j \in 1..Len(t)
        <3> DEFINE k == Len(s) + j
        <3>1. /\ k \in 1..(Len(s) + Len(t)) /\ ~ (k <= Len(s)) /\ k - Len(s) = j
              /\ off + k = off + Len(s) + j
            BY <1>1
        <3> HIDE DEF k
        <3>2. buf[off + k] = t[k - Len(s)]
            BY <1>1, <1>2, <3>1
        <3> QED
            BY <3>1, <3>2
    <2>2. off + Len(s) + Len(t) <= Len(buf)
        BY <1>1, <1>2
    <2> QED
        BY <2>1, <2>2 DEF Held
<1> QED
    BY <1>3, <1>4

\* They are what is read there.
LEMMA HeldBytes ==
    ASSUME NEW buf \in Seq(Byte), NEW off \in Nat, NEW s \in Seq(Byte), Held(buf, off, s)
    PROVE  Fits(buf, off, Len(s)) /\ Bytes(buf, off, Len(s)) = s
<1>1. Len(s) \in Nat /\ off + Len(s) <= Len(buf) /\ \A j \in 1..Len(s) : buf[off + j] = s[j]
    BY LenProperties DEF Held
<1> DEFINE b == Bytes(buf, off, Len(s))
<1>2. b \in Seq(Byte) /\ Len(b) = Len(s) /\ \A j \in 1..Len(s) : b[j] = buf[off + j]
    BY <1>1, BytesThere
<1> HIDE DEF b
<1>3. b = s
    BY <1>1, <1>2, SeqEqual
<1> QED
    BY <1>1, <1>3 DEF b, Fits

\* So is a number of two bytes.
LEMMA TwoType ==
    ASSUME NEW n \in Nat, n < 65536
    PROVE  Two(n) \in Seq(Byte) /\ Len(Two(n)) = 2
<1>1. n \div 256 \in Byte /\ n % 256 \in Byte
    BY DEF Byte
<1> QED
    BY <1>1 DEF Two

\* Two bytes that are held are the number they stand for.
LEMMA HeldTwo ==
    ASSUME NEW buf \in Seq(Byte), NEW off \in Nat, NEW n \in Nat, n < 65536,
           Held(buf, off, Two(n))
    PROVE  Fits(buf, off, 2) /\ U16(buf, off) = n
<1>1. Len(Two(n)) = 2 /\ Two(n)[1] = n \div 256 /\ Two(n)[2] = n % 256
    BY DEF Two
<1>2. off + 2 <= Len(buf) /\ buf[off + 1] = n \div 256 /\ buf[off + 2] = n % 256
    BY <1>1 DEF Held
<1>3. 256 * (n \div 256) + (n % 256) = n
    OBVIOUS
<1> QED
    BY <1>2, <1>3 DEF Fits, U16

\* FlattenSeq joins the parts one after the other.
LEMMA Flattened ==
    ASSUME NEW parts \in Seq(Seq(Byte))
    PROVE  /\ FlattenSeq(parts) \in Seq(Byte)
           /\ \E first \in [0..Len(parts) -> Seq(Byte)] :
                /\ first[0] = << >> /\ first[Len(parts)] = FlattenSeq(parts)
                /\ \A i \in 1..Len(parts) : first[i] = first[i - 1] \o parts[i]
<1> DEFINE D == 0..Len(parts)
           V == Seq(Byte)
           stop == {0}
           val == [n \in D |-> << >>]
           jump == [n \in D |-> IF n = 0 THEN 0 ELSE n - 1]
           join == [n \in D |-> [s \in V |-> IF n = 0 THEN s ELSE s \o parts[n]]]
           rank == [n \in D |-> n]
<1>0. Len(parts) \in Nat /\ \A n \in 1..Len(parts) : parts[n] \in V
    BY LenProperties, ElementOfSeq
<1>1. \E f \in [D -> V] : \A n \in D : Obeys(f, n, stop, val, jump, join)
    <2>1. /\ stop \in SUBSET D /\ jump \in [D -> D]
          /\ rank \in [D -> Nat] /\ \A n \in D \ stop : rank[jump[n]] < rank[n]
        BY <1>0
    <2>2. val \in [D -> V]
        BY EmptySeq
    <2>3. join \in [D -> [V -> V]]
        <3>1. ASSUME NEW n \in D, NEW s \in V, n # 0
              PROVE  s \o parts[n] \in V
            <4>1. n \in 1..Len(parts)
                BY <1>0, <3>1
            <4> QED
                BY <1>0, <4>1, ConcatProperties
        <3> QED
            BY <3>1
    <2> HIDE DEF D, V, stop, val, jump, join, rank
    <2> QED
        BY <2>1, <2>2, <2>3, Recursion
<1>2. PICK first \in [D -> V] : \A n \in D : Obeys(first, n, stop, val, jump, join)
    BY <1>1
<1>3. first[0] = << >> /\ \A i \in 1..Len(parts) : first[i] = first[i - 1] \o parts[i]
    <2>1. first[0] = << >>
        <3>1. 0 \in D /\ 0 \in stop
            BY <1>0
        <3>2. first[0] = val[0]
            BY <1>2, <3>1 DEF Obeys
        <3> QED
            BY <3>1, <3>2
    <2>2. ASSUME NEW i \in 1..Len(parts)
          PROVE  first[i] = first[i - 1] \o parts[i]
        <3>0. i \in D /\ i - 1 \in D /\ i # 0
            BY <1>0
        <3>1. i \in D /\ i - 1 \in D /\ i # 0 /\ first[i - 1] \in V
            <4> HIDE DEF D, V
            <4> QED
                BY <1>2, <3>0
        <3>2. first[i] = join[i][first[i - 1]]
            BY <1>2, <3>1 DEF Obeys
        <3> QED
            BY <3>1, <3>2
    <2> QED
        BY <2>1, <2>2
<1>4. CASE Len(parts) = 0
    <2>1. parts = << >> /\ FlattenSeq(parts) = parts
        BY <1>4, EmptySeq DEF FlattenSeq
    <2>2. FlattenSeq(parts) \in Seq(Byte) /\ first[Len(parts)] = FlattenSeq(parts)
        BY <1>3, <1>4, <2>1, EmptySeq
    <2> QED
        BY <1>2, <1>3, <2>2
<1>5. CASE Len(parts) # 0
    <2> DEFINE N == 1..Len(parts)
               Flat(f) == f = [i \in N |-> IF i = 1 THEN parts[i] ELSE f[i - 1] \o parts[i]]
               g == [i \in N |-> first[i]]
    <2>1. Flat(g)
        <3>1. \A i \in N : g[i] = IF i = 1 THEN parts[i] ELSE g[i - 1] \o parts[i]
            <4> TAKE i \in N
            <4>1. CASE i = 1
                <5>1. first[1] = << >> \o parts[1]
                    <6>1. 1 \in 1..Len(parts) /\ 1 - 1 = 0
                        BY <4>1
                    <6>2. first[1] = first[1 - 1] \o parts[1]
                        BY <1>3, <6>1
                    <6> QED
                        BY <1>3, <6>1, <6>2
                <5>2. parts[1] \in Seq(Byte)
                    BY <1>0, <4>1
                <5>3. << >> \o parts[1] = parts[1]
                    BY <5>2, ConcatEmptySeq
                <5> QED
                    BY <4>1, <5>1, <5>3
            <4>2. CASE i # 1
                <5>1. i - 1 \in N
                    BY <1>0, <4>2
                <5> QED
                    BY <1>3, <4>2, <5>1
            <4> QED
                BY <4>1, <4>2
        <3> QED
            BY <3>1
    <2> DEFINE h == CHOOSE f : Flat(f)
    <2>2. Flat(h)
        BY <2>1
    <2>3. FlattenSeq(parts) = h[Len(parts)]
        BY <1>5 DEF FlattenSeq
    <2> HIDE DEF h
    <2>4. \A i \in N : h[i] = first[i]
        <3> DEFINE S == {i \in Nat : i \in N => h[i] = first[i]}
        <3>1. ASSUME NEW i \in Nat, \A m \in Nat : m < i => m \in S
              PROVE  i \in S
            <4> SUFFICES ASSUME i \in N PROVE h[i] = first[i]
                OBVIOUS
            <4>1. h[i] = IF i = 1 THEN parts[i] ELSE h[i - 1] \o parts[i]
                BY <2>2
            <4>2. CASE i = 1
                BY <2>1, <4>1, <4>2
            <4>3. CASE i # 1
                <5>1. i - 1 \in Nat /\ i - 1 < i /\ i - 1 \in N
                    BY <1>0, <4>3
                <5>2. i - 1 \in S
                    BY <3>1, <5>1
                <5>3. h[i - 1] = first[i - 1]
                    BY <5>1, <5>2
                <5> QED
                    BY <1>3, <4>1, <4>3, <5>3
            <4> QED
                BY <4>2, <4>3
        <3> HIDE DEF S
        <3>2. Nat \subseteq S
            BY <3>1, Induction
        <3> QED
            BY <1>0, <3>2 DEF S
    <2>5. Len(parts) \in N /\ Len(parts) \in D
        BY <1>0, <1>5
    <2>6. FlattenSeq(parts) = first[Len(parts)]
        BY <2>3, <2>4, <2>5
    <2>7. FlattenSeq(parts) \in Seq(Byte)
        BY <1>2, <2>5, <2>6
    <2> QED
        BY <1>2, <1>3, <2>6, <2>7
<1> QED
    BY <1>4, <1>5

\* Of parts end to end, each stands in its place.
LEMMA HeldParts ==
    ASSUME NEW buf \in Seq(Byte), NEW off \in Nat, NEW parts \in Seq(Seq(Byte)),
           Held(buf, off, FlattenSeq(parts))
    PROVE  \E start \in [0..Len(parts) -> Nat] :
                /\ start[0] = off /\ start[Len(parts)] = off + Len(FlattenSeq(parts))
                /\ \A i \in 1..Len(parts) : /\ start[i] = start[i - 1] + Len(parts[i])
                                            /\ Held(buf, start[i - 1], parts[i])
<1> DEFINE n == Len(parts)
<1>1. n \in Nat /\ \A i \in 1..n : parts[i] \in Seq(Byte)
    BY LenProperties, ElementOfSeq
<1>2. PICK first \in [0..n -> Seq(Byte)] :
            /\ first[0] = << >> /\ first[n] = FlattenSeq(parts)
            /\ \A i \in 1..n : first[i] = first[i - 1] \o parts[i]
    BY Flattened
<1> HIDE DEF n
<1>3. \A i \in 0..n : Held(buf, off, first[i])
    <2> DEFINE S == {k \in Nat : k <= n => Held(buf, off, first[n - k])}
    <2>1. ASSUME NEW k \in Nat, \A m \in Nat : m < k => m \in S
          PROVE  k \in S
        <3> SUFFICES ASSUME k <= n PROVE Held(buf, off, first[n - k])
            OBVIOUS
        <3>1. CASE k = 0
            <4>1. n - k = n
                BY <1>1, <3>1
            <4> QED
                BY <1>2, <4>1 DEF n
        <3>2. CASE k > 0
            <4> DEFINE i == n - k + 1
            <4>1. /\ k - 1 \in Nat /\ k - 1 < k /\ k - 1 <= n /\ n - (k - 1) = i
                  /\ i \in 1..n /\ i - 1 = n - k /\ i - 1 \in 0..n
                BY <1>1, <3>2
            <4>2. k - 1 \in S
                BY <2>1, <4>1
            <4>3. Held(buf, off, first[i])
                BY <4>1, <4>2
            <4> HIDE DEF i
            <4>4. first[i] = first[i - 1] \o parts[i] /\ first[i - 1] \in Seq(Byte)
                BY <1>2, <4>1
            <4>5. parts[i] \in Seq(Byte)
                BY <1>1, <4>1
            <4>6. Held(buf, off, first[i - 1])
                BY <4>3, <4>4, <4>5, HeldBoth
            <4> QED
                BY <4>1, <4>6
        <3> QED
            BY <3>1, <3>2
    <2> HIDE DEF S
    <2>2. Nat \subseteq S
        BY <2>1, Induction
    <2> TAKE i \in 0..n
    <2>3. n - i \in Nat /\ n - i <= n /\ n - (n - i) = i
        BY <1>1
    <2>4. n - i \in S
        BY <2>2, <2>3
    <2> QED
        BY <2>3, <2>4 DEF S
<1> DEFINE start == [i \in 0..n |-> off + Len(first[i])]
<1>4. start \in [0..n -> Nat]
    BY <1>2, LenProperties
<1>5. 0 \in 0..n /\ n \in 0..n
    BY <1>1
<1>6. start[0] = off /\ start[n] = off + Len(FlattenSeq(parts))
    <2>1. Len(first[0]) = 0
        BY <1>2, EmptySeq
    <2> QED
        BY <1>2, <1>5, <2>1
<1>7. ASSUME NEW i \in 1..n
      PROVE  start[i] = start[i - 1] + Len(parts[i]) /\ Held(buf, start[i - 1], parts[i])
    <2>1. i \in 0..n /\ i - 1 \in 0..n /\ parts[i] \in Seq(Byte)
        BY <1>1
    <2>2. first[i - 1] \in Seq(Byte) /\ first[i] = first[i - 1] \o parts[i]
        BY <1>2, <2>1
    <2>3. Len(first[i]) = Len(first[i - 1]) + Len(parts[i])
        BY <2>1, <2>2, ConcatProperties
    <2>4. Held(buf, off, first[i - 1] \o parts[i])
        BY <1>3, <2>1, <2>2
    <2>5. Held(buf, off + Len(first[i - 1]), parts[i])
        BY <2>1, <2>2, <2>4, HeldBoth
    <2>6. Len(first[i - 1]) \in Nat /\ Len(parts[i]) \in Nat
        BY <2>1, <2>2, LenProperties
    <2>7. start[i] = off + Len(first[i]) /\ start[i - 1] = off + Len(first[i - 1])
        BY <2>1
    <2> HIDE DEF start
    <2>8. start[i] = start[i - 1] + Len(parts[i])
        <3> DEFINE a == Len(first[i - 1])
                   b == Len(parts[i])
        <3>1. a \in Nat /\ b \in Nat /\ start[i] = off + (a + b) /\ start[i - 1] = off + a
            BY <2>3, <2>6, <2>7
        <3> HIDE DEF a, b
        <3>2. start[i] = start[i - 1] + b
            BY <3>1
        <3> QED
            BY <3>2 DEF b
    <2> QED
        BY <2>5, <2>7, <2>8
<1> HIDE DEF start
<1> QED
    BY <1>4, <1>6, <1>7 DEF n

-----------------------------------------------------------------------------
(* The bytes of a body.                                                    *)

\* What there is of a field of each kind.
LEMMA FieldType ==
    ASSUME NEW f \in Fields
    PROVE  /\ f.type \in Byte /\ f = [type |-> f.type, value |-> f.value]
           /\ f.type \in DOMAIN Width =>
                f.value \in Seq(Byte) /\ Len(f.value) = Width[f.type]
           /\ f.type \in DOMAIN ArrayWidth =>
                /\ f.value \in Seq(Seq(Byte)) /\ Countable(f.value)
                /\ \A i \in 1..Len(f.value) : Len(f.value[i]) = ArrayWidth[f.type]
           /\ f.type = MString => f.value \in Seq(Byte) /\ Countable(f.value)
           /\ f.type = MStruct => f.value \in Seq(Fields) /\ Countable(f.value)
           /\ f.type = AStruct =>
                /\ f.value \in Seq(Seq(Fields)) /\ Countable(f.value)
                /\ \A i \in 1..Len(f.value) : Countable(f.value[i])
           /\ f.type \notin Known => f.value \in Seq(Byte)
<1>0. WellFormed(f)
    BY FieldsAssumption
<1>w. DOMAIN Width = 1..13 /\ DOMAIN ArrayWidth = (17..29) \ {28}
    BY DEF Width, ArrayWidth
<1> DEFINE t == f.type
           scalar == t \in DOMAIN Width
           array == t \in DOMAIN ArrayWidth
           string == t = MString
           struct == t = MStruct
           list == t = AStruct
<1>k. t \in Known <=> scalar \/ array \/ string \/ struct \/ list
    BY DEF Known
<1>d. /\ scalar => ~ array /\ ~ string /\ ~ struct /\ ~ list
      /\ array => ~ string /\ ~ struct /\ ~ list
      /\ string => ~ struct /\ ~ list
      /\ struct => ~ list
    BY <1>w DEF MString, MStruct, AStruct
<1>b. /\ 1..13 \subseteq Byte /\ (17..29) \ {28} \subseteq Byte
      /\ MString \in Byte /\ MStruct \in Byte /\ AStruct \in Byte
    BY DEF Byte, MString, MStruct, AStruct
<1>1. CASE scalar
    <2>1. f \in Scalar
        BY <1>0, <1>1, <1>d, <1>k DEF WellFormed
    <2>2. f \in [type : 1..13, value : Seq(Byte)] /\ Len(f.value) = Width[f.type]
        BY <2>1 DEF Scalar
    <2>3. f.type \in Byte /\ f = [type |-> f.type, value |-> f.value] /\ f.value \in Seq(Byte)
        BY <1>b, <2>2
    <2> HIDE DEF scalar, array, string, struct, list
    <2> QED
        BY <1>1, <1>d, <1>k, <2>2, <2>3 DEF scalar, array, string, struct, list
<1>2. CASE array
    <2>1. f \in Array /\ Countable(f.value)
        BY <1>0, <1>2, <1>d, <1>k DEF WellFormed
    <2>2. /\ f \in [type : (17..29) \ {28}, value : Seq(Seq(Byte))]
          /\ \A i \in DOMAIN f.value : Len(f.value[i]) = ArrayWidth[f.type]
        BY <2>1, <1>w DEF Array
    <2>3. /\ f.type \in Byte /\ f = [type |-> f.type, value |-> f.value]
          /\ f.value \in Seq(Seq(Byte)) /\ DOMAIN f.value = 1..Len(f.value)
        BY <1>b, <2>2, LenProperties
    <2> QED
        BY <1>2, <1>d, <1>k, <2>1, <2>2, <2>3
<1>3. CASE string
    <2>1. f \in [type : {MString}, value : Seq(Byte)] /\ Countable(f.value)
        BY <1>0, <1>3, <1>d, <1>k DEF WellFormed
    <2>2. f.type \in Byte /\ f = [type |-> f.type, value |-> f.value] /\ f.value \in Seq(Byte)
        BY <1>b, <2>1
    <2> QED
        BY <1>3, <1>d, <1>k, <2>1, <2>2
<1>4. CASE struct
    <2>1. f \in [type : {MStruct}, value : Seq(Fields)] /\ Countable(f.value)
        BY <1>0, <1>4, <1>d, <1>k DEF WellFormed
    <2>2. f.type \in Byte /\ f = [type |-> f.type, value |-> f.value] /\ f.value \in Seq(Fields)
        BY <1>b, <2>1
    <2> QED
        BY <1>4, <1>d, <1>k, <2>1, <2>2
<1>5. CASE list
    <2>1. /\ f \in [type : {AStruct}, value : Seq(Seq(Fields))] /\ Countable(f.value)
          /\ \A i \in DOMAIN f.value : Countable(f.value[i])
        BY <1>0, <1>5, <1>d, <1>k DEF WellFormed
    <2>2. /\ f.type \in Byte /\ f = [type |-> f.type, value |-> f.value]
          /\ f.value \in Seq(Seq(Fields)) /\ DOMAIN f.value = 1..Len(f.value)
        BY <1>b, <2>1, LenProperties
    <2>3. \A i \in 1..Len(f.value) : Countable(f.value[i])
        <3>1. \A i \in DOMAIN f.value : Countable(f.value[i])
            BY <2>1
        <3>2. DOMAIN f.value = 1..Len(f.value)
            BY <2>2
        <3> TAKE i \in 1..Len(f.value)
        <3>3. i \in DOMAIN f.value
            BY <3>2
        <3> QED
            BY <3>1, <3>3
    <2> QED
        BY <1>5, <1>d, <1>k, <2>1, <2>2, <2>3
<1>6. CASE t \notin Known
    <2>1. f \in [type : Byte \ Known, value : Seq(Byte)]
        BY <1>0, <1>6, <1>k DEF WellFormed
    <2>2. f.type \in Byte /\ f = [type |-> f.type, value |-> f.value] /\ f.value \in Seq(Byte)
        BY <2>1
    <2> QED
        BY <1>6, <1>k, <2>2
<1>7. scalar \/ array \/ string \/ struct \/ list \/ t \notin Known
    BY DEF Known
<1> HIDE DEF t, scalar, array, string, struct, list
<1> QED
    BY <1>1, <1>2, <1>3, <1>4, <1>5, <1>6, <1>7

\* What a field holds are fields.
LEMMA InsideFields ==
    ASSUME NEW f \in Fields
    PROVE  \A g \in Inside(f) : g \in Fields
<1>1. CASE f.type = MStruct
    <2>1. f.value \in Seq(Fields) /\ DOMAIN f.value = 1..Len(f.value)
        BY <1>1, FieldType, LenProperties
    <2>2. Inside(f) = {f.value[i] : i \in DOMAIN f.value}
        BY <1>1 DEF Inside, MStruct, AStruct, Range
    <2> QED
        BY <2>1, <2>2, ElementOfSeq
<1>2. CASE f.type = AStruct
    <2>1. f.value \in Seq(Seq(Fields)) /\ DOMAIN f.value = 1..Len(f.value)
        BY <1>2, FieldType, LenProperties
    <2>2. Inside(f) = UNION {Range(f.value[i]) : i \in DOMAIN f.value}
        BY <1>2 DEF Inside, MStruct, AStruct
    <2>3. ASSUME NEW i \in DOMAIN f.value, NEW g \in Range(f.value[i])
          PROVE  g \in Fields
        <3>1. f.value[i] \in Seq(Fields)
            BY <2>1, ElementOfSeq
        <3>2. PICK j \in DOMAIN f.value[i] : g = f.value[i][j]
            BY DEF Range
        <3>3. j \in 1..Len(f.value[i])
            BY <3>1, <3>2, LenProperties
        <3> QED
            BY <3>1, <3>2, <3>3, ElementOfSeq
    <2> QED
        BY <2>2, <2>3
<1>3. CASE f.type \notin {MStruct, AStruct}
    BY <1>3 DEF Inside
<1> QED
    BY <1>1, <1>2, <1>3

\* A field is its tag and the bytes of its value.
LEMMA TagType ==
    ASSUME NEW i \in Nat, i < 65536, NEW t \in Byte
    PROVE  Tag(i, t) \in Seq(Byte) /\ Len(Tag(i, t)) = 3
<1>1. Two(i) \in Seq(Byte)
    BY TwoType
<1>2. Append(Two(i), t) \in Seq(Byte) /\ Len(Append(Two(i), t)) = Len(Two(i)) + 1
    BY <1>1, AppendProperties
<1>3. Len(Two(i)) = 2
    BY TwoType
<1> QED
    BY <1>2, <1>3 DEF Tag

\* The bytes of a tag.
LEMMA TagBytes ==
    ASSUME NEW i \in Nat, i < 65536, NEW t \in Byte
    PROVE  Tag(i, t)[1] = Two(i)[1] /\ Tag(i, t)[2] = Two(i)[2] /\ Tag(i, t)[3] = t
<1>1. Two(i) \in Seq(Byte)
    BY TwoType
<1>2. /\ \A j \in 1..Len(Two(i)) : Append(Two(i), t)[j] = Two(i)[j]
      /\ Append(Two(i), t)[Len(Two(i)) + 1] = t
    BY <1>1, AppendProperties
<1>3. Len(Two(i)) = 2
    BY TwoType
<1> QED
    BY <1>2, <1>3 DEF Tag

\* A function on 1..n is a sequence.
LEMMA AsSequence ==
    ASSUME NEW T, NEW n \in Nat, NEW p, p = [i \in 1..n |-> p[i]], \A i \in 1..n : p[i] \in T
    PROVE  p \in Seq(T) /\ Len(p) = n
<1>1. p \in [1..n -> T]
    OBVIOUS
<1> QED
    BY <1>1

\* Two strings of bytes make one.
LEMMA Together ==
    ASSUME NEW s \in Seq(Byte), NEW v \in Seq(Byte)
    PROVE  s \o v \in Seq(Byte) /\ Len(s \o v) = Len(s) + Len(v)
BY ConcatProperties

\* What is read where a tagged value is held.
LEMMA HeldField ==
    ASSUME NEW buf \in Seq(Byte), NEW off \in Nat, NEW i \in Nat, i < 65536,
           NEW t \in Byte, NEW v \in Seq(Byte), Held(buf, off, Tag(i, t) \o v)
    PROVE  /\ Fits(buf, off, 3) /\ U16(buf, off) = i /\ buf[off + 3] = t
           /\ Held(buf, off + 3, v)
<1> DEFINE h == Tag(i, t)
<1>0. h \in Seq(Byte)
    BY TagType
<1>1. Len(h) = 3
    BY TagType
<1>2. Held(buf, off, h) /\ Held(buf, off + Len(h), v)
    BY <1>0, HeldBoth
<1>3. h[1] = Two(i)[1] /\ h[2] = Two(i)[2] /\ h[3] = t
    BY TagBytes
<1> HIDE DEF h
<1>4. /\ off + 3 <= Len(buf)
      /\ buf[off + 1] = h[1] /\ buf[off + 2] = h[2] /\ buf[off + 3] = h[3]
    BY <1>1, <1>2 DEF Held
<1>5. U16(buf, off) = i
    <2>1. 256 * (i \div 256) + (i % 256) = i
        OBVIOUS
    <2>2. Two(i)[1] = i \div 256 /\ Two(i)[2] = i % 256
        BY DEF Two
    <2> QED
        BY <1>3, <1>4, <2>1, <2>2 DEF U16
<1> QED
    BY <1>1, <1>2, <1>3, <1>4, <1>5 DEF Fits

\* Of every field there are bytes.
Bytewise(of) == \A f \in Fields : of[f] \in Seq(Byte)

FieldParts(fields, of) ==
    [i \in 1..Len(fields) |-> Tag(i, fields[i].type) \o of[fields[i]]]

\* The parts of a body are a function of their numbers.
LEMMA PartsAre ==
    ASSUME NEW fields, NEW of
    PROVE  FieldParts(fields, of) = [i \in 1..Len(fields) |-> FieldParts(fields, of)[i]]
BY DEF FieldParts

\* A part of a body is a tag and a value.
LEMMA PartIs ==
    ASSUME NEW fields, NEW of
    PROVE  \A i \in 1..Len(fields) :
                FieldParts(fields, of)[i] = Tag(i, fields[i].type) \o of[fields[i]]
BY DEF FieldParts

\* A body is its count and its parts.
LEMMA BodyBytesAre ==
    ASSUME NEW fields, NEW of
    PROVE  BodyBytes(fields, of) = Two(Len(fields)) \o FlattenSeq(FieldParts(fields, of))
BY DEF FieldParts, BodyBytes

\* A part of a body is bytes, three more than its value.
LEMMA PartType ==
    ASSUME NEW fields \in Seq(Fields), Countable(fields),
           NEW of, Bytewise(of), NEW i \in 1..Len(fields)
    PROVE  /\ fields[i] \in Fields /\ fields[i].type \in Byte /\ of[fields[i]] \in Seq(Byte)
           /\ FieldParts(fields, of)[i] \in Seq(Byte)
           /\ Len(FieldParts(fields, of)[i]) = 3 + Len(of[fields[i]])
<1>1. i \in Nat /\ i < 65536 /\ fields[i] \in Fields
    BY LenProperties, ElementOfSeq DEF Countable
<1>2. fields[i].type \in Byte
    BY <1>1, FieldType
<1>3. of[fields[i]] \in Seq(Byte)
    BY <1>1 DEF Bytewise
<1>4. Tag(i, fields[i].type) \in Seq(Byte)
    BY <1>1, <1>2, TagType
<1>5. Len(Tag(i, fields[i].type)) = 3
    BY <1>1, <1>2, TagType
<1>6. /\ Tag(i, fields[i].type) \o of[fields[i]] \in Seq(Byte)
      /\ Len(Tag(i, fields[i].type) \o of[fields[i]])
            = Len(Tag(i, fields[i].type)) + Len(of[fields[i]])
    BY <1>3, <1>4, Together
<1>7. FieldParts(fields, of)[i] = Tag(i, fields[i].type) \o of[fields[i]]
    BY PartIs
<1>8. Len(FieldParts(fields, of)[i]) = 3 + Len(of[fields[i]])
    BY <1>5, <1>6, <1>7
<1>9. FieldParts(fields, of)[i] \in Seq(Byte)
    BY <1>6, <1>7
<1> QED
    BY <1>1, <1>2, <1>3, <1>8, <1>9

\* Strings of bytes, joined, are bytes.
LEMMA FlattenedType ==
    ASSUME NEW parts \in Seq(Seq(Byte))
    PROVE  FlattenSeq(parts) \in Seq(Byte)
BY Flattened

\* The fields of a body, in bytes.
LEMMA BodyParts ==
    ASSUME NEW fields \in Seq(Fields), Countable(fields), NEW of, Bytewise(of)
    PROVE  /\ FieldParts(fields, of) \in Seq(Seq(Byte))
           /\ Len(FieldParts(fields, of)) = Len(fields)
           /\ FlattenSeq(FieldParts(fields, of)) \in Seq(Byte)
           /\ BodyBytes(fields, of) \in Seq(Byte)
<1> DEFINE parts == FieldParts(fields, of)
<1>1. Len(fields) \in Nat
    BY LenProperties
<1>2. \A i \in 1..Len(fields) : parts[i] \in Seq(Byte)
    BY PartType
<1>3. parts = [i \in 1..Len(fields) |-> parts[i]]
    BY PartsAre
<1>4. BodyBytes(fields, of) = Two(Len(fields)) \o FlattenSeq(parts)
    BY BodyBytesAre
<1> HIDE DEF parts
<1>5. parts \in Seq(Seq(Byte)) /\ Len(parts) = Len(fields)
    BY <1>1, <1>2, <1>3, AsSequence
<1>6. FlattenSeq(parts) \in Seq(Byte)
    BY <1>5, FlattenedType
<1>7. Two(Len(fields)) \in Seq(Byte)
    BY <1>1, TwoType DEF Countable
<1>8. BodyBytes(fields, of) \in Seq(Byte)
    BY <1>4, <1>6, <1>7, Together
<1> QED
    BY <1>5, <1>6, <1>8 DEF parts

StructParts(list, of) == [i \in 1..Len(list) |-> BodyBytes(list[i], of)]

\* The parts of an array of structs are bodies.
LEMMA StructPartsAre ==
    ASSUME NEW list, NEW of
    PROVE  /\ StructParts(list, of) = [i \in 1..Len(list) |-> StructParts(list, of)[i]]
           /\ \A i \in 1..Len(list) : StructParts(list, of)[i] = BodyBytes(list[i], of)
BY DEF StructParts

\* They are bytes.
LEMMA StructPartType ==
    ASSUME NEW list \in Seq(Seq(Fields)), \A i \in 1..Len(list) : Countable(list[i]),
           NEW of, Bytewise(of), NEW i \in 1..Len(list)
    PROVE  list[i] \in Seq(Fields) /\ StructParts(list, of)[i] \in Seq(Byte)
<1>1. list[i] \in Seq(Fields)
    BY ElementOfSeq
<1>2. Countable(list[i])
    OBVIOUS
<1>3. BodyBytes(list[i], of) \in Seq(Byte)
    BY <1>1, <1>2, BodyParts
<1> QED
    BY <1>1, <1>3, StructPartsAre

\* There is one for each struct.
LEMMA ListParts ==
    ASSUME NEW list \in Seq(Seq(Fields)), \A i \in 1..Len(list) : Countable(list[i]),
           NEW of, Bytewise(of)
    PROVE  /\ StructParts(list, of) \in Seq(Seq(Byte))
           /\ Len(StructParts(list, of)) = Len(list)
<1>1. Len(list) \in Nat
    BY LenProperties
<1>2. \A i \in 1..Len(list) : StructParts(list, of)[i] \in Seq(Byte)
    BY StructPartType
<1>3. StructParts(list, of) = [i \in 1..Len(list) |-> StructParts(list, of)[i]]
    BY StructPartsAre
<1> QED
    BY <1>1, <1>2, <1>3, AsSequence

\* What the bytes of a value are, by its type.
LEMMA BytesByType ==
    ASSUME NEW f, NEW of
    PROVE  /\ f.type = MStruct => ValueBytes(f, of) = BodyBytes(f.value, of)
           /\ f.type = AStruct =>
                ValueBytes(f, of) = Two(Len(f.value)) \o FlattenSeq(StructParts(f.value, of))
           /\ f.type \in DOMAIN ArrayWidth =>
                ValueBytes(f, of) = Two(Len(f.value)) \o FlattenSeq(f.value)
           /\ f.type = MString => ValueBytes(f, of) = Two(Len(f.value)) \o f.value
           /\ f.type \notin {MStruct, AStruct, MString} \cup DOMAIN ArrayWidth =>
                ValueBytes(f, of) = f.value
<1>w. DOMAIN ArrayWidth = (17..29) \ {28}
    BY DEF ArrayWidth
<1> DEFINE t == f.type
           body == BodyBytes(f.value, of)
           list == Two(Len(f.value)) \o FlattenSeq(StructParts(f.value, of))
           array == Two(Len(f.value)) \o FlattenSeq(f.value)
           string == Two(Len(f.value)) \o f.value
           v == f.value
           A == DOMAIN ArrayWidth
<1>1. ValueBytes(f, of) = CASE t = MStruct -> body
                            [] t = AStruct -> list
                            [] t \in A -> array
                            [] t = MString -> string
                            [] t \notin {MStruct, AStruct, MString} \cup A -> v
    BY DEF ValueBytes, StructParts
<1> HIDE DEF t, body, list, array, string, v
<1>2. /\ t = MStruct => ValueBytes(f, of) = body
      /\ t = AStruct => ValueBytes(f, of) = list
      /\ t \in A => ValueBytes(f, of) = array
      /\ t = MString => ValueBytes(f, of) = string
      /\ t \notin {MStruct, AStruct, MString} \cup A => ValueBytes(f, of) = v
    BY <1>1, <1>w DEF MStruct, AStruct, MString
<1> QED
    BY <1>2 DEF t, body, list, array, string, v

\* A count and bytes are bytes.
LEMMA CountedBytes ==
    ASSUME NEW list, Len(list) \in Nat, Countable(list), NEW s \in Seq(Byte)
    PROVE  Two(Len(list)) \o s \in Seq(Byte)
<1>1. Two(Len(list)) \in Seq(Byte)
    BY TwoType DEF Countable
<1> QED
    BY <1>1, Together

\* The bytes of a value, from those of the values in it.
LEMMA ValueBytesType ==
    ASSUME NEW f \in Fields, NEW of, Bytewise(of)
    PROVE  ValueBytes(f, of) \in Seq(Byte)
<1>1. CASE f.type = MStruct
    <2>1. f.value \in Seq(Fields) /\ Countable(f.value)
        BY <1>1, FieldType
    <2>2. BodyBytes(f.value, of) \in Seq(Byte)
        BY <2>1, BodyParts
    <2> QED
        BY <1>1, <2>2, BytesByType
<1>2. CASE f.type = AStruct
    <2>1. /\ f.value \in Seq(Seq(Fields)) /\ Countable(f.value)
          /\ \A i \in 1..Len(f.value) : Countable(f.value[i])
        BY <1>2, FieldType
    <2>2. StructParts(f.value, of) \in Seq(Seq(Byte))
        BY <2>1, ListParts
    <2>3. FlattenSeq(StructParts(f.value, of)) \in Seq(Byte) /\ Len(f.value) \in Nat
        BY <2>1, <2>2, FlattenedType, LenProperties
    <2>4. Two(Len(f.value)) \o FlattenSeq(StructParts(f.value, of)) \in Seq(Byte)
        BY <2>1, <2>3, CountedBytes
    <2> QED
        BY <1>2, <2>4, BytesByType
<1>3. CASE f.type \in DOMAIN ArrayWidth
    <2>1. f.value \in Seq(Seq(Byte)) /\ Countable(f.value)
        BY <1>3, FieldType
    <2>2. FlattenSeq(f.value) \in Seq(Byte) /\ Len(f.value) \in Nat
        BY <2>1, FlattenedType, LenProperties
    <2>3. Two(Len(f.value)) \o FlattenSeq(f.value) \in Seq(Byte)
        BY <2>1, <2>2, CountedBytes
    <2> QED
        BY <1>3, <2>3, BytesByType
<1>4. CASE f.type = MString
    <2>1. f.value \in Seq(Byte) /\ Countable(f.value)
        BY <1>4, FieldType
    <2>2. Len(f.value) \in Nat
        BY <2>1, LenProperties
    <2>3. Two(Len(f.value)) \o f.value \in Seq(Byte)
        BY <2>1, <2>2, CountedBytes
    <2> QED
        BY <1>4, <2>3, BytesByType
<1>5. CASE f.type \notin {MStruct, AStruct, MString} \cup DOMAIN ArrayWidth
    <2>1. ValueBytes(f, of) = f.value
        BY <1>5, BytesByType
    <2>2. f.type \in DOMAIN Width \/ f.type \notin Known
        BY <1>5 DEF Known
    <2> QED
        BY <2>1, <2>2, FieldType
<1> QED
    BY <1>1, <1>2, <1>3, <1>4, <1>5

\* The bytes of a body depend on the values of its own fields only.
LEMMA BodyLocal ==
    ASSUME NEW fields \in Seq(Fields), NEW of, NEW also,
           \A f \in Range(fields) : of[f] = also[f]
    PROVE  BodyBytes(fields, of) = BodyBytes(fields, also)
<1>1. Len(fields) \in Nat /\ DOMAIN fields = 1..Len(fields)
    BY LenProperties
<1>2. \A i \in 1..Len(fields) : of[fields[i]] = also[fields[i]]
    BY <1>1 DEF Range
<1>3. FieldParts(fields, of) = FieldParts(fields, also)
    BY <1>2 DEF FieldParts
<1>4. BodyBytes(fields, of) = Two(Len(fields)) \o FlattenSeq(FieldParts(fields, of))
    BY DEF BodyBytes, FieldParts
<1>5. BodyBytes(fields, also) = Two(Len(fields)) \o FlattenSeq(FieldParts(fields, also))
    BY DEF BodyBytes, FieldParts
<1> QED
    BY <1>3, <1>4, <1>5

\* The bytes of a value depend on the values in it only.
LEMMA ValueBytesLocal ==
    ASSUME NEW f \in Fields, NEW of, NEW also, \A g \in Inside(f) : of[g] = also[g]
    PROVE  ValueBytes(f, of) = ValueBytes(f, also)
<1>w. DOMAIN Width = 1..13 /\ DOMAIN ArrayWidth = (17..29) \ {28}
    BY DEF Width, ArrayWidth
<1>1. CASE f.type = MStruct
    <2>1. \A o : ValueBytes(f, o) = BodyBytes(f.value, o)
        BY <1>1, <1>w DEF ValueBytes, MStruct, AStruct, MString
    <2>2. Inside(f) = Range(f.value)
        BY <1>1 DEF Inside, MStruct, AStruct
    <2>3. f.value \in Seq(Fields)
        BY <1>1, FieldType
    <2>4. BodyBytes(f.value, of) = BodyBytes(f.value, also)
        BY <2>2, <2>3, BodyLocal
    <2> QED
        BY <2>1, <2>4
<1>2. CASE f.type = AStruct
    <2>1. \A o : ValueBytes(f, o) = Two(Len(f.value)) \o FlattenSeq(StructParts(f.value, o))
        BY <1>2, <1>w DEF ValueBytes, MStruct, AStruct, MString, StructParts
    <2>2. Inside(f) = UNION {Range(f.value[i]) : i \in DOMAIN f.value}
        BY <1>2 DEF Inside, MStruct, AStruct
    <2>3. /\ f.value \in Seq(Seq(Fields)) /\ DOMAIN f.value = 1..Len(f.value)
          /\ \A i \in 1..Len(f.value) : f.value[i] \in Seq(Fields)
        BY <1>2, FieldType, LenProperties, ElementOfSeq
    <2>4. \A i \in 1..Len(f.value) : BodyBytes(f.value[i], of) = BodyBytes(f.value[i], also)
        <3> TAKE i \in 1..Len(f.value)
        <3>1. Range(f.value[i]) \subseteq Inside(f)
            BY <2>2, <2>3
        <3>2. \A g \in Range(f.value[i]) : of[g] = also[g]
            BY <3>1
        <3> QED
            BY <2>3, <3>2, BodyLocal
    <2>5. StructParts(f.value, of) = StructParts(f.value, also)
        BY <2>4 DEF StructParts
    <2> QED
        BY <2>1, <2>5
<1>3. CASE f.type \notin {MStruct, AStruct}
    <2> QED
        BY <1>3 DEF ValueBytes
<1> QED
    BY <1>1, <1>2, <1>3

\* The bytes of every value are what the encoder says they are.
LEMMA EncodedValueIs ==
    /\ EncodedValue \in [Fields -> Seq(Byte)]
    /\ \A f \in Fields : EncodedValue[f] = ValueBytes(f, EncodedValue)
<1> DEFINE V == Seq(Byte)
           step == [f \in Fields |-> [g \in [Fields -> V] |-> ValueBytes(f, g)]]
           Is(h) == h = [f \in Fields |-> ValueBytes(f, h)]
<1>1. \E h \in [Fields -> V] : \A f \in Fields : h[f] = step[f][h]
    <2>1. << >> \in V
        BY EmptySeq
    <2>2. step \in [Fields -> [[Fields -> V] -> V]]
        <3>1. \A g \in [Fields -> V] : Bytewise(g)
            BY DEF Bytewise
        <3> QED
            BY <3>1, ValueBytesType
    <2>3. Depth \in [Fields -> Nat]
        BY FieldsAssumption
    <2>4. \A f \in Fields : \A g, h \in [Fields -> V] :
            (\A y \in Fields : Depth[y] < Depth[f] => g[y] = h[y]) => step[f][g] = step[f][h]
        <3> TAKE f \in Fields
        <3> TAKE g, h \in [Fields -> V]
        <3> HAVE \A y \in Fields : Depth[y] < Depth[f] => g[y] = h[y]
        <3>1. \A y \in Inside(f) : y \in Fields /\ Depth[y] < Depth[f]
            BY FieldsAssumption, InsideFields
        <3>2. \A y \in Inside(f) : g[y] = h[y]
            BY <3>1
        <3>3. ValueBytes(f, g) = ValueBytes(f, h)
            BY <3>2, ValueBytesLocal
        <3> QED
            BY <3>3
    <2> HIDE DEF V, step
    <2>5. Founded(Fields, V, step, Depth)
        BY <2>2, <2>3, <2>4 DEF Founded
    <2> QED
        BY <2>1, <2>5, DeepRecursion
<1>2. PICK h \in [Fields -> V] : \A f \in Fields : h[f] = step[f][h]
    BY <1>1
<1>3. Is(h)
    <2>1. \A f \in Fields : h[f] = ValueBytes(f, h)
        BY <1>2
    <2> QED
        BY <1>2, <2>1
<1>4. EncodedValue = CHOOSE g : Is(g)
    BY DEF EncodedValue
<1>5. Is(EncodedValue)
    BY <1>3, <1>4
<1>6. \A f \in Fields : EncodedValue[f] = ValueBytes(f, EncodedValue)
    BY <1>5
<1>7. DOMAIN EncodedValue = Fields /\ EncodedValue = [f \in Fields |-> EncodedValue[f]]
    BY <1>5
<1>8. \A f \in Fields : EncodedValue[f] = h[f]
    <2> DEFINE S == {n \in Nat : \A f \in Fields : Depth[f] = n => EncodedValue[f] = h[f]}
    <2>1. ASSUME NEW n \in Nat, \A m \in Nat : m < n => m \in S
          PROVE  n \in S
        <3> SUFFICES ASSUME NEW f \in Fields, Depth[f] = n PROVE EncodedValue[f] = h[f]
            OBVIOUS
        <3>1. \A y \in Inside(f) : y \in Fields /\ Depth[y] < Depth[f] /\ Depth[y] \in Nat
            BY FieldsAssumption, InsideFields
        <3>2. \A y \in Inside(f) : EncodedValue[y] = h[y]
            BY <2>1, <3>1
        <3>3. ValueBytes(f, EncodedValue) = ValueBytes(f, h)
            BY <3>2, ValueBytesLocal
        <3>4. h[f] = ValueBytes(f, h)
            BY <1>2
        <3> QED
            BY <1>6, <3>3, <3>4
    <2> HIDE DEF S
    <2>2. Nat \subseteq S
        BY <2>1, Induction
    <2> QED
        BY <2>2, FieldsAssumption DEF S
<1>9. \A f \in Fields : EncodedValue[f] \in V
    BY <1>2, <1>8
<1> QED
    BY <1>6, <1>7, <1>9

\* What it is to hold an unknown field.
LEMMA HoldsUnknownIs ==
    \A f \in Fields :
        HoldsUnknown[f] <=> f.type \notin Known \/ \E g \in Inside(f) : HoldsUnknown[g]
<1> DEFINE Holds(f, h) == f.type \notin Known \/ \E g \in Inside(f) : h[g]
           step == [f \in Fields |-> [h \in [Fields -> BOOLEAN] |-> Holds(f, h)]]
           Is(h) == h = [f \in Fields |-> Holds(f, h)]
<1>1. Founded(Fields, BOOLEAN, step, Depth)
    <2>1. step \in [Fields -> [[Fields -> BOOLEAN] -> BOOLEAN]]
        OBVIOUS
    <2>2. Depth \in [Fields -> Nat]
        BY FieldsAssumption
    <2>3. \A f \in Fields : \A g, h \in [Fields -> BOOLEAN] :
            (\A y \in Fields : Depth[y] < Depth[f] => g[y] = h[y]) => step[f][g] = step[f][h]
        <3> TAKE f \in Fields
        <3> TAKE g, h \in [Fields -> BOOLEAN]
        <3> HAVE \A y \in Fields : Depth[y] < Depth[f] => g[y] = h[y]
        <3>1. \A y \in Inside(f) : y \in Fields /\ Depth[y] < Depth[f]
            BY FieldsAssumption, InsideFields
        <3>2. \A y \in Inside(f) : g[y] = h[y]
            BY <3>1
        <3>3. Holds(f, g) = Holds(f, h)
            BY <3>2
        <3> HIDE DEF Holds
        <3> QED
            BY <3>3
    <2> HIDE DEF step
    <2> QED
        BY <2>1, <2>2, <2>3 DEF Founded
<1>2. \E h \in [Fields -> BOOLEAN] : \A f \in Fields : h[f] = step[f][h]
    <2> DEFINE V == BOOLEAN
    <2>0. \E v : v \in V
        BY TRUE \in V
    <2>1. Founded(Fields, V, step, Depth)
        BY <1>1
    <2> HIDE DEF V, step
    <2>v. PICK v \in V : TRUE
        BY <2>0
    <2>2. \E h \in [Fields -> V] : \A f \in Fields : h[f] = step[f][h]
        BY <2>1, DeepRecursion
    <2> QED
        BY <2>2 DEF V
<1>3. PICK h \in [Fields -> BOOLEAN] : \A f \in Fields : h[f] = step[f][h]
    BY <1>2
<1>4. Is(h)
    <2> HIDE DEF Holds
    <2>1. \A f \in Fields : h[f] = Holds(f, h)
        BY <1>3
    <2> QED
        BY <1>3, <2>1
<1>5. HoldsUnknown = CHOOSE g : Is(g)
    BY DEF HoldsUnknown
<1>6. Is(HoldsUnknown)
    BY <1>4, <1>5
<1> QED
    BY <1>6

-----------------------------------------------------------------------------
(* The walker.                                                             *)

NoCalls == [fields |-> [p \in Nat \X Nat |-> [fields |-> << >>, off |-> p[1]]],
            elements |-> [p \in Nat \X Nat |-> [elements |-> << >>, off |-> p[1]]]]
MoreCalls(buf, below) ==
    [fields |-> [p \in Nat \X Nat |-> WalkFields(buf, p[1], p[2], below)],
     elements |-> [p \in Nat \X Nat |-> WalkElements(buf, p[1], p[2], below)]]

\* The calls of the walker, one below the other.
LEMMA WalkIs ==
    ASSUME NEW buf
    PROVE  \A n \in Nat :
                Walk(buf)[n] = IF n = 0 THEN NoCalls ELSE MoreCalls(buf, Walk(buf)[n - 1])
<1> DEFINE Level(g, n) == IF n = 0 THEN NoCalls ELSE MoreCalls(buf, g[n - 1])
           Upto(g, n) == \A m \in 0..n : g[m] = Level(g, m)
           Is(g) == g = [n \in Nat |-> Level(g, n)]
<1>1. \A n \in Nat : \E g : Upto(g, n)
    <2> DEFINE S == {n \in Nat : \E g : Upto(g, n)}
    <2>1. ASSUME NEW n \in Nat, \A m \in Nat : m < n => m \in S
          PROVE  n \in S
        <3>1. CASE n = 0
            <4> DEFINE g == [m \in {0} |-> NoCalls]
            <4>1. Upto(g, n)
                BY <3>1
            <4> QED
                BY <4>1
        <3>2. CASE n > 0
            <4>1. n - 1 \in S
                <5>1. n - 1 \in Nat /\ n - 1 < n
                    BY <3>2
                <5> HIDE DEF S
                <5> QED
                    BY <2>1, <5>1
            <4>2. PICK f : Upto(f, n - 1)
                BY <4>1
            <4> DEFINE g == [m \in 0..n |-> IF m < n THEN f[m] ELSE MoreCalls(buf, f[n - 1])]
            <4>3. Upto(g, n)
                <5> TAKE m \in 0..n
                <5>1. CASE m = 0
                    BY <3>2, <4>2, <5>1
                <5>2. CASE m > 0 /\ m < n
                    <6>1. f[m] = MoreCalls(buf, f[m - 1])
                        BY <4>2, <5>2
                    <6>2. g[m] = f[m] /\ g[m - 1] = f[m - 1]
                        BY <5>2
                    <6> QED
                        BY <5>2, <6>1, <6>2
                <5>3. CASE m = n
                    <6>1. g[m] = MoreCalls(buf, f[n - 1]) /\ g[n - 1] = f[n - 1]
                        BY <3>2, <5>3
                    <6> QED
                        BY <3>2, <5>3, <6>1
                <5> QED
                    BY <5>1, <5>2, <5>3
            <4> HIDE DEF g
            <4> QED
                BY <4>3
        <3> QED
            BY <3>1, <3>2
    <2> HIDE DEF S
    <2>2. Nat \subseteq S
        BY <2>1, Induction
    <2> QED
        BY <2>2 DEF S
<1> DEFINE pick == [n \in Nat |-> CHOOSE g : Upto(g, n)]
<1>2. \A n \in Nat : Upto(pick[n], n)
    BY <1>1
<1> HIDE DEF pick
<1>3. \A n \in Nat : \A m \in Nat : m <= n => pick[n][m] = pick[m][m]
    <2> SUFFICES ASSUME NEW n \in Nat
                 PROVE  \A m \in Nat : m <= n => pick[n][m] = pick[m][m]
        OBVIOUS
    <2> DEFINE S == {k \in Nat : \A m \in k..n : pick[n][k] = pick[m][k]}
    <2>1. ASSUME NEW k \in Nat, \A j \in Nat : j < k => j \in S
          PROVE  k \in S
        <3> SUFFICES ASSUME NEW m \in k..n PROVE pick[n][k] = pick[m][k]
            OBVIOUS
        <3>0. m \in Nat /\ k \in 0..m /\ k \in 0..n
            OBVIOUS
        <3>1. pick[n][k] = Level(pick[n], k) /\ pick[m][k] = Level(pick[m], k)
            BY <1>2, <3>0
        <3>2. CASE k = 0
            BY <3>1, <3>2
        <3>3. CASE k > 0
            <4>1. k - 1 \in S
                <5>1. k - 1 \in Nat /\ k - 1 < k
                    BY <3>3
                <5> HIDE DEF S
                <5> QED
                    BY <2>1, <5>1
            <4>2. pick[n][k - 1] = pick[m][k - 1]
                BY <3>3, <4>1
            <4> QED
                BY <3>1, <3>3, <4>2
        <3> QED
            BY <3>2, <3>3
    <2> HIDE DEF S
    <2>2. Nat \subseteq S
        BY <2>1, Induction
    <2> QED
        BY <2>2 DEF S
<1> DEFINE h == [n \in Nat |-> pick[n][n]]
<1>4. \A n \in Nat : h[n] = Level(h, n)
    <2> TAKE n \in Nat
    <2>1. CASE n = 0
        BY <1>2, <2>1
    <2>2. CASE n > 0
        <3>1. n - 1 \in Nat /\ n - 1 <= n
            BY <2>2
        <3>2. pick[n][n - 1] = pick[n - 1][n - 1]
            BY <1>3, <3>1
        <3>3. pick[n][n] = MoreCalls(buf, pick[n][n - 1])
            BY <1>2, <2>2
        <3>4. h[n] = pick[n][n] /\ h[n - 1] = pick[n - 1][n - 1]
            BY <3>1
        <3> QED
            BY <2>2, <3>2, <3>3, <3>4
    <2> QED
        BY <2>1, <2>2
<1>5. Is(h)
    <2>1. h = [n \in Nat |-> h[n]]
        OBVIOUS
    <2> HIDE DEF h, Level
    <2> QED
        BY <1>4, <2>1
<1>6. Walk(buf) = CHOOSE g : Is(g)
    BY DEF Walk, NoCalls, MoreCalls
<1> HIDE DEF h
<1>7. Is(Walk(buf))
    BY <1>5, <1>6
<1> QED
    BY <1>7

\* What a call below returns.
FieldsOf(calls, off, count) == calls.fields[<<off, count>>]
ElementsOf(calls, off, count) == calls.elements[<<off, count>>]

Stopped(end) == [fields |-> << >>, off |-> end]
Kept(buf, off, value, rest) ==
    [fields |-> Stored(rest.fields, U16(buf, off), [type |-> buf[off + 3], value |-> value]),
     off |-> rest.off]

\* A round of the loop of _walk_fields, by the type of the field.
LEMMA RoundByType ==
    ASSUME NEW buf, NEW off, NEW count, NEW below, count # 0, Fits(buf, off, 3)
    PROVE  LET t == buf[off + 3]
               at == off + 3
               n == U16(buf, at)
               field == WalkFields(buf, off, count, below)
           IN /\ t \in DOMAIN Width /\ Fits(buf, at, Width[t]) =>
                    field = Kept(buf, off, Bytes(buf, at, Width[t]),
                                 FieldsOf(below, at + Width[t], count - 1))
              /\ t \notin Known => field = Kept(buf, off, Unknown, Stopped(at))
              /\ t = MStruct /\ Fits(buf, at, 2) =>
                    field = Kept(buf, off, FieldsOf(below, at + 2, n).fields,
                                 FieldsOf(below, FieldsOf(below, at + 2, n).off, count - 1))
              /\ t = AStruct /\ Fits(buf, at, 2) =>
                    field = Kept(buf, off, ElementsOf(below, at + 2, n).elements,
                                 FieldsOf(below, ElementsOf(below, at + 2, n).off, count - 1))
              /\ t \in DOMAIN ArrayWidth /\ Fits(buf, at, 2) /\ Fits(buf, at + 2, ArrayBytes(t, n)) =>
                    field = Kept(buf, off,
                                 [i \in 1..n |-> Bytes(buf, at + 2 + (i - 1) * ArrayWidth[t], ArrayWidth[t])],
                                 FieldsOf(below, at + 2 + ArrayBytes(t, n), count - 1))
              /\ t = MString /\ Fits(buf, at, 2) =>
                    field = Kept(buf, off, Bytes(buf, at + 2, n),
                                 FieldsOf(below, at + 2 + n, count - 1))
<1> DEFINE t == buf[off + 3]
           at == off + 3
           n == U16(buf, at)
           field == WalkFields(buf, off, count, below)
           W == DOMAIN Width
           A == DOMAIN ArrayWidth
           fits == Fits(buf, at, Width[t])
           fitsCount == Fits(buf, at, 2)
           fitsArray == Fits(buf, at + 2, ArrayBytes(t, n))
           scalar == Kept(buf, off, Bytes(buf, at, Width[t]), FieldsOf(below, at + Width[t], count - 1))
           unknown == Kept(buf, off, Unknown, Stopped(at))
           struct == Kept(buf, off, FieldsOf(below, at + 2, n).fields,
                          FieldsOf(below, FieldsOf(below, at + 2, n).off, count - 1))
           list == Kept(buf, off, ElementsOf(below, at + 2, n).elements,
                        FieldsOf(below, ElementsOf(below, at + 2, n).off, count - 1))
           array == Kept(buf, off,
                         [i \in 1..n |-> Bytes(buf, at + 2 + (i - 1) * ArrayWidth[t], ArrayWidth[t])],
                         FieldsOf(below, at + 2 + ArrayBytes(t, n), count - 1))
           string == Kept(buf, off, Bytes(buf, at + 2, n), FieldsOf(below, at + 2 + n, count - 1))
           stopped == Stopped(at)
           stoppedThere == Stopped(at + 2)
<1>1. field =
        IF t \in W THEN IF fits THEN scalar ELSE stopped
        ELSE IF t \notin Known THEN unknown
        ELSE IF ~ fitsCount THEN stopped
        ELSE CASE t = MStruct -> struct
               [] t = AStruct -> list
               [] t \in A -> IF fitsArray THEN array ELSE stoppedThere
               [] t = MString -> string
    BY DEF WalkFields, Kept, Stopped, FieldsOf, ElementsOf
<1>2. /\ W \subseteq Known /\ A \subseteq Known /\ MStruct \in Known /\ AStruct \in Known
      /\ MString \in Known
    BY DEF Known
<1>3. /\ W = 1..13 /\ A = (17..29) \ {28}
      /\ MStruct = 16 /\ AStruct = 33 /\ MString = 32
    BY DEF Width, ArrayWidth, MStruct, AStruct, MString
<1> HIDE DEF t, field, W, A, fits, fitsCount, fitsArray, scalar, unknown, struct, list, array,
        string, stopped, stoppedThere
<1>d. /\ t \in A => t \notin W /\ t # MStruct /\ t # AStruct /\ t # MString
      /\ t = MStruct => t \notin W /\ t \notin A /\ t # AStruct /\ t # MString
      /\ t = AStruct => t \notin W /\ t \notin A /\ t # MStruct /\ t # MString
      /\ t = MString => t \notin W /\ t \notin A /\ t # MStruct /\ t # AStruct
    BY <1>3
<1>4. /\ t \in W /\ fits => field = scalar
      /\ t \notin Known => field = unknown
      /\ t = MStruct /\ fitsCount => field = struct
      /\ t = AStruct /\ fitsCount => field = list
      /\ t \in A /\ fitsCount /\ fitsArray => field = array
      /\ t = MString /\ fitsCount => field = string
    BY <1>1, <1>2, <1>d
<1> QED
    BY <1>4 DEF t, field, W, A, fits, fitsCount, fitsArray, scalar, unknown, struct, list, array,
        string, stopped, stoppedThere

\* A round of the loop over the structs of an array.
LEMMA RoundOfElements ==
    ASSUME NEW buf, NEW off, NEW count, NEW below, count # 0, Fits(buf, off, 2)
    PROVE  LET inner == FieldsOf(below, off + 2, U16(buf, off))
               rest == ElementsOf(below, inner.off, count - 1)
           IN WalkElements(buf, off, count, below) =
                [elements |-> <<inner.fields>> \o rest.elements, off |-> rest.off]
BY DEF WalkElements, FieldsOf, ElementsOf

\* What a call returns.
LEMMA CallIs ==
    ASSUME NEW buf, NEW m \in Nat, NEW off \in Nat, NEW count \in Nat
    PROVE  /\ m > 0 =>
                /\ FieldsOf(Walk(buf)[m], off, count) =
                        WalkFields(buf, off, count, Walk(buf)[m - 1])
                /\ ElementsOf(Walk(buf)[m], off, count) =
                        WalkElements(buf, off, count, Walk(buf)[m - 1])
           /\ count = 0 => /\ FieldsOf(Walk(buf)[m], off, count) = Stopped(off)
                           /\ ElementsOf(Walk(buf)[m], off, count) =
                                    [elements |-> << >>, off |-> off]
<1> DEFINE p == <<off, count>>
<1>1. p \in Nat \X Nat /\ p[1] = off /\ p[2] = count
    OBVIOUS
<1> HIDE DEF p
<1>2. ASSUME NEW below
      PROVE  /\ MoreCalls(buf, below).fields[p] = WalkFields(buf, off, count, below)
             /\ MoreCalls(buf, below).elements[p] = WalkElements(buf, off, count, below)
    BY <1>1 DEF MoreCalls
<1>3. /\ NoCalls.fields[p] = Stopped(off)
      /\ NoCalls.elements[p] = [elements |-> << >>, off |-> off]
    BY <1>1 DEF NoCalls, Stopped
<1>4. ASSUME NEW below, count = 0
      PROVE  /\ WalkFields(buf, off, count, below) = Stopped(off)
             /\ WalkElements(buf, off, count, below) = [elements |-> << >>, off |-> off]
    BY <1>4 DEF WalkFields, WalkElements, Stopped
<1>5. CASE m = 0
    <2>1. Walk(buf)[m] = NoCalls
        BY <1>5, WalkIs
    <2> QED
        BY <1>5, <1>3, <2>1 DEF p, FieldsOf, ElementsOf
<1>6. CASE m > 0
    <2>1. Walk(buf)[m] = MoreCalls(buf, Walk(buf)[m - 1])
        BY <1>6, WalkIs
    <2> QED
        BY <1>6, <1>2, <1>4, <2>1 DEF p, FieldsOf, ElementsOf
<1> QED
    BY <1>5, <1>6

-----------------------------------------------------------------------------
(* A field that is held is read.                                           *)

There(buf, off, f) ==
    Fits(buf, off, 3) /\ buf[off + 3] = f.type /\ Held(buf, off + 3, EncodedValue[f])

Behind(off, f) == off + 3 + Len(EncodedValue[f])

\* With nothing left to read a call returns where it is.
LEMMA NothingLeft ==
    ASSUME NEW buf, NEW m \in Nat, NEW off \in Nat
    PROVE  /\ FieldsOf(Walk(buf)[m], off, 0) = Stopped(off)
           /\ ElementsOf(Walk(buf)[m], off, 0) = [elements |-> << >>, off |-> off]
BY CallIs

\* The offset behind a field.
LEMMA BehindIs ==
    ASSUME NEW f \in Fields, NEW off \in Nat
    PROVE  EncodedValue[f] \in Seq(Byte) /\ Behind(off, f) \in Nat /\ Behind(off, f) >= off + 3
<1>1. EncodedValue[f] \in Seq(Byte)
    BY EncodedValueIs
<1> DEFINE n == Len(EncodedValue[f])
<1>2. n \in Nat
    BY <1>1, LenProperties
<1>3. Behind(off, f) = off + 3 + n
    BY DEF Behind
<1> HIDE DEF n
<1> QED
    BY <1>1, <1>2, <1>3

\* The types, as numbers.
LEMMA TypesAre ==
    /\ DOMAIN Width = 1..13 /\ DOMAIN ArrayWidth = (17..29) \ {28}
    /\ MStruct = 16 /\ AStruct = 33 /\ MString = 32
BY DEF Width, ArrayWidth, MStruct, AStruct, MString

\* A scalar is nothing else.
LEMMA ScalarType ==
    \A t \in DOMAIN Width : t \notin {MStruct, AStruct, MString} \cup DOMAIN ArrayWidth
<1>1. \A t \in 1..13 : t \notin {16, 33, 32} \cup ((17..29) \ {28})
    OBVIOUS
<1> QED
    BY <1>1, TypesAre

\* A scalar that is held is kept.
LEMMA ScalarReads ==
    ASSUME NEW buf \in Seq(Byte), NEW off \in Nat, NEW count, count # 0, NEW below,
           NEW f \in Fields, f.type \in DOMAIN Width, There(buf, off, f)
    PROVE  WalkFields(buf, off, count, below) =
                Kept(buf, off, f.value, FieldsOf(below, Behind(off, f), count - 1))
<1> DEFINE at == off + 3
<1>1. f.type \notin {MStruct, AStruct, MString} \cup DOMAIN ArrayWidth
    BY ScalarType
<1>2. EncodedValue[f] = f.value
    BY <1>1, EncodedValueIs, BytesByType
<1>3. f.value \in Seq(Byte)
    BY FieldType
<1>4. Len(f.value) = Width[f.type]
    BY FieldType
<1>5. Held(buf, at, f.value) /\ buf[at] = f.type /\ Fits(buf, off, 3)
    BY <1>2 DEF There
<1>6. at \in Nat
    OBVIOUS
<1>7. Fits(buf, at, Len(f.value)) /\ Bytes(buf, at, Len(f.value)) = f.value
    BY <1>3, <1>5, <1>6, HeldBytes
<1>8. Behind(off, f) = at + Width[f.type]
    BY <1>2, <1>4 DEF Behind
<1>9. WalkFields(buf, off, count, below) =
            Kept(buf, off, Bytes(buf, at, Width[f.type]),
                 FieldsOf(below, at + Width[f.type], count - 1))
    BY <1>4, <1>5, <1>7, RoundByType
<1> HIDE DEF at
<1> QED
    BY <1>4, <1>7, <1>8, <1>9

\* So is a string.
LEMMA StringReads ==
    ASSUME NEW buf \in Seq(Byte), NEW off \in Nat, NEW count, count # 0, NEW below,
           NEW f \in Fields, f.type = MString, There(buf, off, f)
    PROVE  WalkFields(buf, off, count, below) =
                Kept(buf, off, f.value, FieldsOf(below, Behind(off, f), count - 1))
<1> DEFINE at == off + 3
           n == Len(f.value)
<1>1. f.value \in Seq(Byte) /\ Countable(f.value)
    BY FieldType
<1>2. n \in Nat /\ n < 65536
    BY <1>1, LenProperties DEF Countable
<1>3. Two(n) \in Seq(Byte)
    BY <1>2, TwoType
<1>4. Len(Two(n)) = 2
    BY <1>2, TwoType
<1>5. EncodedValue[f] = Two(n) \o f.value
    BY EncodedValueIs, BytesByType
<1>6. at \in Nat /\ at + 2 \in Nat
    OBVIOUS
<1>7. Held(buf, at, Two(n) \o f.value) /\ buf[at] = f.type /\ Fits(buf, off, 3)
    BY <1>5 DEF There
<1>8. Held(buf, at, Two(n)) /\ Held(buf, at + Len(Two(n)), f.value)
    BY <1>1, <1>3, <1>6, <1>7, HeldBoth
<1>9. Held(buf, at + 2, f.value)
    BY <1>4, <1>8
<1>10. Fits(buf, at, 2) /\ U16(buf, at) = n
    BY <1>2, <1>6, <1>8, HeldTwo
<1>11. Bytes(buf, at + 2, n) = f.value
    BY <1>1, <1>6, <1>9, HeldBytes
<1>12. Behind(off, f) = at + 2 + n
    <2>1. Len(Two(n) \o f.value) = Len(Two(n)) + n
        BY <1>1, <1>3, Together
    <2>2. Behind(off, f) = at + Len(EncodedValue[f])
        BY DEF Behind
    <2>3. Len(EncodedValue[f]) = 2 + n
        BY <1>4, <1>5, <2>1
    <2> HIDE DEF n, at
    <2> QED
        BY <1>2, <1>6, <2>2, <2>3
<1> HIDE DEF n
<1> QED
    BY <1>7, <1>10, <1>11, <1>12, RoundByType

Spaced(start, n, w) == \A i \in 1..n : start[i] = start[i - 1] + w

\* Equal steps add up.
LEMMA EvenSteps ==
    ASSUME NEW n \in Nat, NEW w \in Nat, NEW start \in [0..n -> Nat], Spaced(start, n, w)
    PROVE  \A i \in 0..n : start[i] = start[0] + i * w
<1> DEFINE from == start[0]
<1>0. from \in Nat /\ \A i \in 1..n : start[i] = start[i - 1] + w
    BY DEF Spaced
<1> USE <1>0
<1> HIDE DEF from
<1> DEFINE S == {i \in Nat : i <= n => start[i] = from + i * w}
<1>1. ASSUME NEW i \in Nat, \A j \in Nat : j < i => j \in S
      PROVE  i \in S
    <2>1. CASE i = 0
        BY <2>1 DEF from
    <2>2. CASE i > 0 /\ i <= n
        <3>1. i - 1 \in S
            <4>1. i - 1 \in Nat /\ i - 1 < i
                BY <2>2
            <4> HIDE DEF S
            <4> QED
                BY <1>1, <4>1
        <3>2. start[i - 1] = from + (i - 1) * w
            BY <2>2, <3>1
        <3>3. start[i] = start[i - 1] + w
            BY <2>2
        <3>4. (i - 1) * w + w = i * w
            OBVIOUS
        <3>5. i * w \in Nat /\ (i - 1) * w \in Nat
            BY <2>2
        <3> QED
            BY <3>2, <3>3, <3>4, <3>5
    <2> QED
        BY <2>1, <2>2
<1> HIDE DEF S
<1>2. Nat \subseteq S
    BY <1>1, Induction
<1> QED
    BY <1>2 DEF S, from

\* So is an array of numbers.
LEMMA ArrayReads ==
    ASSUME NEW buf \in Seq(Byte), NEW off \in Nat, NEW count, count # 0, NEW below,
           NEW f \in Fields, f.type \in DOMAIN ArrayWidth, There(buf, off, f)
    PROVE  WalkFields(buf, off, count, below) =
                Kept(buf, off, f.value, FieldsOf(below, Behind(off, f), count - 1))
<1> DEFINE at == off + 3
           n == Len(f.value)
           w == ArrayWidth[f.type]
           flat == FlattenSeq(f.value)
<1>1. f.value \in Seq(Seq(Byte)) /\ Countable(f.value) /\ \A i \in 1..n : Len(f.value[i]) = w
    BY FieldType
<1>2. n \in Nat /\ n < 65536
    BY <1>1, LenProperties DEF Countable
<1>3. Two(n) \in Seq(Byte)
    BY <1>2, TwoType
<1>4. Len(Two(n)) = 2
    BY <1>2, TwoType
<1>5. EncodedValue[f] = Two(n) \o flat
    BY EncodedValueIs, BytesByType
<1>6. at \in Nat /\ at + 2 \in Nat
    OBVIOUS
<1>7. Held(buf, at, Two(n) \o flat) /\ buf[at] = f.type /\ Fits(buf, off, 3)
    BY <1>5 DEF There
<1>8. flat \in Seq(Byte)
    BY <1>1, FlattenedType
<1>9. Held(buf, at, Two(n)) /\ Held(buf, at + Len(Two(n)), flat)
    BY <1>3, <1>6, <1>7, <1>8, HeldBoth
<1>10. Held(buf, at + 2, flat)
    BY <1>4, <1>9
<1>11. Fits(buf, at, 2) /\ U16(buf, at) = n
    BY <1>2, <1>6, <1>9, HeldTwo
<1>12. w \in Nat
    <2>1. \A t \in DOMAIN ArrayWidth : ArrayWidth[t] \in Nat
        BY DEF ArrayWidth, Width
    <2> QED
        BY <2>1
<1>13. PICK start \in [0..n -> Nat] :
            /\ start[0] = at + 2 /\ start[n] = at + 2 + Len(flat)
            /\ \A i \in 1..n : /\ start[i] = start[i - 1] + Len(f.value[i])
                                /\ Held(buf, start[i - 1], f.value[i])
    BY <1>1, <1>6, <1>10, HeldParts
<1>14. \A i \in 0..n : start[i] = at + 2 + i * w
    <2> HIDE DEF n, w, flat, at
    <2>1. Spaced(start, n, w)
        BY <1>1, <1>13 DEF Spaced
    <2>2. start \in [0..n -> Nat]
        BY <1>13
    <2>3. n \in Nat
        BY <1>2
    <2>4. \A i \in 0..n : start[i] = start[0] + i * w
        BY <1>12, <2>1, <2>2, <2>3, EvenSteps
    <2> QED
        BY <1>13, <2>4
<1>15. Len(flat) = n * w
    <2> HIDE DEF n, w, flat, at
    <2>1. at + 2 + Len(flat) = at + 2 + n * w
        BY <1>2, <1>13, <1>14
    <2>2. Len(flat) \in Nat /\ n * w \in Nat
        BY <1>2, <1>8, <1>12, LenProperties
    <2> QED
        BY <1>6, <2>1, <2>2
<1>16. \A i \in 1..n : Bytes(buf, at + 2 + (i - 1) * w, w) = f.value[i]
    <2> TAKE i \in 1..n
    <2>1. f.value[i] \in Seq(Byte) /\ Len(f.value[i]) = w
        BY <1>1, ElementOfSeq
    <2>2. i - 1 \in 0..n
        BY <1>2
    <2>3. start[i - 1] = at + 2 + (i - 1) * w
        BY <1>14, <2>2
    <2>4. start[i - 1] \in Nat /\ Held(buf, start[i - 1], f.value[i])
        BY <1>13, <2>2
    <2> HIDE DEF n, w, at
    <2>5. Bytes(buf, start[i - 1], Len(f.value[i])) = f.value[i]
        BY <2>1, <2>4, HeldBytes
    <2> QED
        BY <2>1, <2>3, <2>5
<1>17. [i \in 1..n |-> Bytes(buf, at + 2 + (i - 1) * w, w)] = f.value
    <2> DEFINE v == f.value
               b == [i \in 1..n |-> Bytes(buf, at + 2 + (i - 1) * w, w)]
    <2>1. v \in Seq(Seq(Byte)) /\ n = Len(v)
        BY <1>1
    <2>2. v = [i \in 1..n |-> v[i]]
        <3> HIDE DEF v, n
        <3> QED
            BY <2>1
    <2>3. \A i \in 1..n : b[i] = v[i]
        BY <1>16
    <2>4. b = [i \in 1..n |-> b[i]]
        OBVIOUS
    <2> HIDE DEF v, b, n
    <2>5. b = v
        BY <2>2, <2>3, <2>4
    <2> QED
        BY <2>5 DEF b, v, n
<1>18. Behind(off, f) = at + 2 + n * w
    <2>1. Len(Two(n) \o flat) = Len(Two(n)) + Len(flat)
        BY <1>3, <1>8, Together
    <2>2. Behind(off, f) = at + Len(EncodedValue[f])
        BY DEF Behind
    <2>3. Len(EncodedValue[f]) = 2 + n * w
        BY <1>4, <1>5, <1>15, <2>1
    <2>4. n * w \in Nat
        BY <1>2, <1>12
    <2> HIDE DEF n, at, w, flat
    <2> QED
        BY <1>2, <1>6, <2>2, <2>3, <2>4
<1>19. ArrayBytes(f.type, n) = n * w
    BY DEF ArrayBytes
<1>20. Fits(buf, at + 2, n * w)
    <2> HIDE DEF n, at, w, flat
    <2> QED
        BY <1>10, <1>15 DEF Held, Fits
<1>21. WalkFields(buf, off, count, below) =
            Kept(buf, off, [i \in 1..n |-> Bytes(buf, at + 2 + (i - 1) * w, w)],
                 FieldsOf(below, at + 2 + n * w, count - 1))
    <2> HIDE DEF n
    <2> QED
        BY <1>7, <1>11, <1>19, <1>20, RoundByType
<1> HIDE DEF n, at, w, flat
<1> QED
    BY <1>17, <1>18, <1>21

\* What is counted is its count and the rest.
LEMMA HeldCounted ==
    ASSUME NEW buf \in Seq(Byte), NEW off \in Nat, NEW list, Len(list) \in Nat, Countable(list),
           NEW flat \in Seq(Byte), Held(buf, off, Two(Len(list)) \o flat)
    PROVE  /\ Fits(buf, off, 2) /\ U16(buf, off) = Len(list)
           /\ Held(buf, off + 2, flat)
           /\ Len(Two(Len(list)) \o flat) = 2 + Len(flat)
<1> DEFINE n == Len(list)
<1>1. n < 65536
    BY DEF Countable
<1>2. Two(n) \in Seq(Byte)
    BY <1>1, TwoType
<1>3. Len(Two(n)) = 2
    BY <1>1, TwoType
<1>4. Held(buf, off, Two(n)) /\ Held(buf, off + Len(Two(n)), flat)
    BY <1>2, HeldBoth
<1>5. Fits(buf, off, 2) /\ U16(buf, off) = n
    BY <1>1, <1>4, HeldTwo
<1>6. Len(Two(n) \o flat) = Len(Two(n)) + Len(flat)
    BY <1>2, Together
<1> QED
    BY <1>3, <1>4, <1>5, <1>6

\* So is a struct, if the call for its fields returns them.
LEMMA StructReads ==
    ASSUME NEW buf \in Seq(Byte), NEW off \in Nat, NEW count, count # 0, NEW below,
           NEW f \in Fields, f.type = MStruct, There(buf, off, f),
           FieldsOf(below, off + 3 + 2, Len(f.value)) =
                [fields |-> f.value, off |-> Behind(off, f)]
    PROVE  WalkFields(buf, off, count, below) =
                Kept(buf, off, f.value, FieldsOf(below, Behind(off, f), count - 1))
<1> DEFINE at == off + 3
           v == f.value
           flat == FlattenSeq(FieldParts(v, EncodedValue))
           inner == FieldsOf(below, at + 2, Len(v))
<1>1. v \in Seq(Fields) /\ Countable(v)
    BY FieldType
<1>2. Len(v) \in Nat
    BY <1>1, LenProperties
<1>3. Bytewise(EncodedValue)
    BY EncodedValueIs DEF Bytewise
<1>4. flat \in Seq(Byte)
    BY <1>1, <1>3, BodyParts
<1>5. EncodedValue[f] = Two(Len(v)) \o flat
    BY EncodedValueIs, BytesByType, BodyBytesAre
<1>6. at \in Nat
    OBVIOUS
<1>7. Held(buf, at, Two(Len(v)) \o flat) /\ buf[at] = f.type /\ Fits(buf, off, 3)
    BY <1>5 DEF There
<1>8. inner = [fields |-> v, off |-> Behind(off, f)]
    OBVIOUS
<1>9. inner.fields = v /\ inner.off = Behind(off, f)
    BY <1>8
<1> HIDE DEF v, flat
<1>10. Fits(buf, at, 2) /\ U16(buf, at) = Len(v)
    BY <1>1, <1>2, <1>4, <1>6, <1>7, HeldCounted
<1>11. WalkFields(buf, off, count, below) =
            Kept(buf, off, inner.fields, FieldsOf(below, inner.off, count - 1))
    BY <1>7, <1>10, RoundByType
<1> HIDE DEF inner
<1> QED
    BY <1>9, <1>11 DEF v

\* So is an array of structs, if the call for its elements returns them.
LEMMA StructsRead ==
    ASSUME NEW buf \in Seq(Byte), NEW off \in Nat, NEW count, count # 0, NEW below,
           NEW f \in Fields, f.type = AStruct, There(buf, off, f),
           ElementsOf(below, off + 3 + 2, Len(f.value)) =
                [elements |-> f.value, off |-> Behind(off, f)]
    PROVE  WalkFields(buf, off, count, below) =
                Kept(buf, off, f.value, FieldsOf(below, Behind(off, f), count - 1))
<1> DEFINE at == off + 3
           v == f.value
           flat == FlattenSeq(StructParts(v, EncodedValue))
           inner == ElementsOf(below, at + 2, Len(v))
<1>1. v \in Seq(Seq(Fields)) /\ Countable(v) /\ \A i \in 1..Len(v) : Countable(v[i])
    BY FieldType
<1>2. Len(v) \in Nat
    BY <1>1, LenProperties
<1>3. Bytewise(EncodedValue)
    BY EncodedValueIs DEF Bytewise
<1>4. flat \in Seq(Byte)
    <2>1. StructParts(v, EncodedValue) \in Seq(Seq(Byte))
        BY <1>1, <1>3, ListParts
    <2> QED
        BY <2>1, FlattenedType
<1>5. EncodedValue[f] = Two(Len(v)) \o flat
    BY EncodedValueIs, BytesByType
<1>6. at \in Nat
    OBVIOUS
<1>7. Held(buf, at, Two(Len(v)) \o flat) /\ buf[at] = f.type /\ Fits(buf, off, 3)
    BY <1>5 DEF There
<1>8. inner = [elements |-> v, off |-> Behind(off, f)]
    OBVIOUS
<1>9. inner.elements = v /\ inner.off = Behind(off, f)
    BY <1>8
<1> HIDE DEF v, flat
<1>10. Fits(buf, at, 2) /\ U16(buf, at) = Len(v)
    BY <1>1, <1>2, <1>4, <1>6, <1>7, HeldCounted
<1>11. WalkFields(buf, off, count, below) =
            Kept(buf, off, inner.elements, FieldsOf(below, inner.off, count - 1))
    BY <1>7, <1>10, RoundByType
<1> HIDE DEF inner
<1> QED
    BY <1>9, <1>11 DEF v

-----------------------------------------------------------------------------
(* What is held is read, however deep.                                     *)

FieldReads(buf, f) ==
    \A off, m, count \in Nat :
        count > 0 /\ m > Len(buf) - off /\ There(buf, off, f) =>
            FieldsOf(Walk(buf)[m], off, count) =
                Kept(buf, off, f.value, FieldsOf(Walk(buf)[m - 1], Behind(off, f), count - 1))

BodyReads(buf, fields) ==
    \A off, m \in Nat :
        m > Len(buf) - (off + 2) /\ Held(buf, off, BodyBytes(fields, EncodedValue)) =>
            FieldsOf(Walk(buf)[m], off + 2, Len(fields)) =
                [fields |-> fields, off |-> off + Len(BodyBytes(fields, EncodedValue))]

ListBytes(list) == FlattenSeq(StructParts(list, EncodedValue))
ListReads(buf, list) ==
    \A off, m \in Nat :
        m > Len(buf) - off /\ Held(buf, off, ListBytes(list)) =>
            ElementsOf(Walk(buf)[m], off, Len(list)) =
                [elements |-> list, off |-> off + Len(ListBytes(list))]

InsideRead(below, off, f) ==
    /\ f.type = MStruct => FieldsOf(below, off + 3 + 2, Len(f.value)) =
                                [fields |-> f.value, off |-> Behind(off, f)]
    /\ f.type = AStruct => ElementsOf(below, off + 3 + 2, Len(f.value)) =
                                [elements |-> f.value, off |-> Behind(off, f)]

Ahead(buf, off, count, below, f) ==
    /\ buf \in Seq(Byte) /\ off \in Nat /\ count # 0 /\ f \in Fields /\ f.type \in Known
    /\ There(buf, off, f) /\ InsideRead(below, off, f)

\* So is any field of a known type.
LEMMA ValueReads ==
    ASSUME NEW buf, NEW off, NEW count, NEW below, NEW f, Ahead(buf, off, count, below, f)
    PROVE  WalkFields(buf, off, count, below) =
                Kept(buf, off, f.value, FieldsOf(below, Behind(off, f), count - 1))
<1>0. /\ buf \in Seq(Byte) /\ off \in Nat /\ count # 0 /\ f \in Fields /\ f.type \in Known
      /\ There(buf, off, f) /\ InsideRead(below, off, f)
    BY DEF Ahead
<1> USE <1>0
<1>1. CASE f.type \in DOMAIN Width
    BY <1>1, ScalarReads
<1>2. CASE f.type \in DOMAIN ArrayWidth
    BY <1>2, ArrayReads
<1>3. CASE f.type = MString
    BY <1>3, StringReads
<1>4. CASE f.type = MStruct
    BY <1>4, StructReads DEF InsideRead
<1>5. CASE f.type = AStruct
    BY <1>5, StructsRead DEF InsideRead
<1> QED
    BY <1>1, <1>2, <1>3, <1>4, <1>5 DEF Known

\* A field is read if what it holds is.
LEMMA FieldFromInside ==
    ASSUME NEW buf \in Seq(Byte), NEW f \in Fields, f.type \in Known,
           f.type = MStruct => BodyReads(buf, f.value),
           f.type = AStruct => ListReads(buf, f.value)
    PROVE  FieldReads(buf, f)
<1> SUFFICES ASSUME NEW off \in Nat, NEW m \in Nat, NEW count \in Nat,
                    count > 0, m > Len(buf) - off, There(buf, off, f)
             PROVE  FieldsOf(Walk(buf)[m], off, count) =
                        Kept(buf, off, f.value,
                             FieldsOf(Walk(buf)[m - 1], Behind(off, f), count - 1))
    BY DEF FieldReads
<1> DEFINE below == Walk(buf)[m - 1]
           at == off + 3
<1>1. /\ Len(buf) \in Nat /\ m - 1 \in Nat /\ at \in Nat /\ at + 2 \in Nat
      /\ m > 0 /\ m - 1 > Len(buf) - (at + 2) /\ count # 0
    <2>1. off + 3 <= Len(buf)
        BY DEF There, Fits
    <2>2. Len(buf) \in Nat
        BY LenProperties
    <2> QED
        BY <2>1, <2>2
<1>2. FieldsOf(Walk(buf)[m], off, count) = WalkFields(buf, off, count, below)
    <2>1. m > 0
        BY <1>1
    <2> QED
        BY <2>1, CallIs
<1> SUFFICES WalkFields(buf, off, count, below) =
                Kept(buf, off, f.value, FieldsOf(below, Behind(off, f), count - 1))
    BY <1>2
<1> HIDE DEF below
<1>t. count # 0
    BY <1>1
<1>3. Held(buf, at, EncodedValue[f])
    BY DEF There
<1>4. Behind(off, f) = at + Len(EncodedValue[f])
    BY DEF Behind
<1>5. ASSUME f.type = MStruct
      PROVE  FieldsOf(below, at + 2, Len(f.value)) = [fields |-> f.value, off |-> Behind(off, f)]
    <2>1. EncodedValue[f] = BodyBytes(f.value, EncodedValue)
        BY <1>5, EncodedValueIs, BytesByType
    <2> QED
        BY <1>1, <1>3, <1>4, <1>5, <2>1 DEF BodyReads, below
<1>6. ASSUME f.type = AStruct
      PROVE  ElementsOf(below, at + 2, Len(f.value)) =
                [elements |-> f.value, off |-> Behind(off, f)]
    <2> DEFINE v == f.value
    <2>1. v \in Seq(Seq(Fields)) /\ Countable(v) /\ \A i \in 1..Len(v) : Countable(v[i])
        BY <1>6, FieldType
    <2>2. Len(v) \in Nat
        BY <2>1, LenProperties
    <2>3. Bytewise(EncodedValue)
        BY EncodedValueIs DEF Bytewise
    <2>4. ListBytes(v) \in Seq(Byte)
        <3>1. StructParts(v, EncodedValue) \in Seq(Seq(Byte))
            BY <2>1, <2>3, ListParts
        <3> QED
            BY <3>1, FlattenedType DEF ListBytes
    <2>5. EncodedValue[f] = Two(Len(v)) \o ListBytes(v)
        BY <1>6, EncodedValueIs, BytesByType DEF ListBytes
    <2> HIDE DEF v
    <2>6. Held(buf, at + 2, ListBytes(v)) /\ Len(EncodedValue[f]) = 2 + Len(ListBytes(v))
        BY <1>1, <1>3, <2>1, <2>2, <2>4, <2>5, HeldCounted
    <2>7. ElementsOf(below, at + 2, Len(v)) =
                [elements |-> v, off |-> at + 2 + Len(ListBytes(v))]
        <3>1. ListReads(buf, v)
            BY <1>6 DEF v
        <3> QED
            BY <1>1, <2>6, <3>1 DEF ListReads, below
    <2>8. at + 2 + Len(ListBytes(v)) = Behind(off, f)
        <3>1. Len(ListBytes(v)) \in Nat
            BY <2>4, LenProperties
        <3> QED
            BY <1>1, <1>4, <2>6, <3>1
    <2> QED
        BY <2>7, <2>8 DEF v
<1>7. InsideRead(below, off, f)
    BY <1>5, <1>6 DEF InsideRead
<1>8. Ahead(buf, off, count, below, f)
    BY <1>t, <1>7 DEF Ahead
<1> QED
    BY <1>8, ValueReads

Starts(buf, parts, start, from, to) ==
    /\ start \in [0..Len(parts) -> Nat] /\ start[0] = from /\ start[Len(parts)] = to
    /\ \A i \in 1..Len(parts) : /\ start[i] = start[i - 1] + Len(parts[i])
                                /\ Held(buf, start[i - 1], parts[i])

\* Where the parts of what is held start.
LEMMA PartsStart ==
    ASSUME NEW buf \in Seq(Byte), NEW off \in Nat, NEW parts \in Seq(Seq(Byte)),
           Held(buf, off, FlattenSeq(parts))
    PROVE  \E start : Starts(buf, parts, start, off, off + Len(FlattenSeq(parts)))
BY HeldParts DEF Starts

Index(i) == i \in Nat /\ i < 65536

\* A tagged value that is held is there to be read.
LEMMA TaggedHeld ==
    ASSUME NEW buf \in Seq(Byte), NEW off \in Nat, NEW i, Index(i), NEW f \in Fields,
           Held(buf, off, Tag(i, f.type) \o EncodedValue[f])
    PROVE  There(buf, off, f) /\ U16(buf, off) = i
<1>1. f.type \in Byte
    BY FieldType
<1>2. EncodedValue[f] \in Seq(Byte)
    BY EncodedValueIs
<1>3. i \in Nat /\ i < 65536
    BY DEF Index
<1>4. /\ Fits(buf, off, 3) /\ U16(buf, off) = i /\ buf[off + 3] = f.type
      /\ Held(buf, off + 3, EncodedValue[f])
    BY <1>1, <1>2, <1>3, HeldField
<1> QED
    BY <1>4 DEF There

\* Where a field of a body starts.
LEMMA PartHeld ==
    ASSUME NEW buf \in Seq(Byte), NEW fields \in Seq(Fields), Countable(fields), NEW start,
           NEW from, NEW to,
           Starts(buf, FieldParts(fields, EncodedValue), start, from, to),
           NEW i \in 1..Len(fields)
    PROVE  /\ fields[i] \in Fields
           /\ start[i] = Behind(start[i - 1], fields[i])
           /\ There(buf, start[i - 1], fields[i])
           /\ U16(buf, start[i - 1]) = i
<1> DEFINE n == Len(fields)
           parts == FieldParts(fields, EncodedValue)
           f == fields[i]
           v == EncodedValue[f]
           o == start[i - 1]
<1>1. n \in Nat
    BY LenProperties
<1>2. Bytewise(EncodedValue)
    BY EncodedValueIs DEF Bytewise
<1>3. parts \in Seq(Seq(Byte)) /\ Len(parts) = n
    BY <1>2, BodyParts
<1>4. f \in Fields /\ v \in Seq(Byte) /\ Len(parts[i]) = 3 + Len(v)
    BY <1>2, PartType
<1>5. parts[i] = Tag(i, f.type) \o v
    BY PartIs
<1>6. Index(i)
    BY <1>1 DEF Countable, Index
<1> HIDE DEF parts
<1>7. o \in Nat /\ start[i] = o + Len(parts[i]) /\ Held(buf, o, parts[i])
    <2>1. i - 1 \in 0..n
        BY <1>1
    <2> HIDE DEF n
    <2>2. start \in [0..n -> Nat]
        BY <1>3 DEF Starts, parts
    <2>3. \A j \in 1..n : start[j] = start[j - 1] + Len(parts[j]) /\ Held(buf, start[j - 1], parts[j])
        BY <1>3 DEF Starts, parts
    <2>4. i \in 1..n
        BY DEF n
    <2> QED
        BY <2>1, <2>2, <2>3, <2>4
<1>8. Len(v) \in Nat
    BY <1>4, LenProperties
<1> HIDE DEF f, o
<1>9. There(buf, o, f) /\ U16(buf, o) = i
    BY <1>4, <1>5, <1>6, <1>7, TaggedHeld
<1>10. start[i] = Behind(o, f)
    <2> HIDE DEF v
    <2>1. start[i] = o + 3 + Len(v)
        BY <1>4, <1>7, <1>8
    <2> QED
        BY <2>1 DEF v, Behind
<1> QED
    BY <1>4, <1>9, <1>10 DEF f, o

\* The offsets of the fields of a body, and the one behind it.
Offsets(buf, fields, start) ==
    /\ start \in [0..Len(fields) -> Nat]
    /\ \A i \in 1..Len(fields) : /\ fields[i] \in Fields
                                 /\ start[i] = Behind(start[i - 1], fields[i])
                                 /\ There(buf, start[i - 1], fields[i])
                                 /\ U16(buf, start[i - 1]) = i

\* Where the fields of a body that is held start.
LEMMA BodyHeld ==
    ASSUME NEW buf \in Seq(Byte), NEW off \in Nat, NEW fields \in Seq(Fields),
           Countable(fields), Held(buf, off, BodyBytes(fields, EncodedValue))
    PROVE  /\ Fits(buf, off, 2) /\ U16(buf, off) = Len(fields)
           /\ \E start : /\ Offsets(buf, fields, start) /\ start[0] = off + 2
                         /\ start[Len(fields)] = off + Len(BodyBytes(fields, EncodedValue))
<1> DEFINE n == Len(fields)
           parts == FieldParts(fields, EncodedValue)
           flat == FlattenSeq(parts)
<1>1. n \in Nat
    BY LenProperties
<1>2. Bytewise(EncodedValue)
    BY EncodedValueIs DEF Bytewise
<1>3. parts \in Seq(Seq(Byte)) /\ Len(parts) = n /\ flat \in Seq(Byte)
    BY <1>2, BodyParts
<1>4. BodyBytes(fields, EncodedValue) = Two(n) \o flat
    BY BodyBytesAre
<1>5. /\ Fits(buf, off, 2) /\ U16(buf, off) = n
      /\ Held(buf, off + 2, flat) /\ Len(BodyBytes(fields, EncodedValue)) = 2 + Len(flat)
    <2> HIDE DEF parts, flat
    <2> QED
        BY <1>1, <1>3, <1>4, HeldCounted
<1>6. PICK start : Starts(buf, parts, start, off + 2, off + 2 + Len(flat))
    <2>1. off + 2 \in Nat
        OBVIOUS
    <2> HIDE DEF parts
    <2> QED
        BY <1>3, <1>5, <2>1, PartsStart
<1>7. Offsets(buf, fields, start)
    <2>1. start \in [0..n -> Nat]
        <3> HIDE DEF parts, n
        <3> QED
            BY <1>3, <1>6 DEF Starts
    <2>2. \A i \in 1..n : /\ fields[i] \in Fields
                         /\ start[i] = Behind(start[i - 1], fields[i])
                         /\ There(buf, start[i - 1], fields[i])
                         /\ U16(buf, start[i - 1]) = i
        BY <1>6, PartHeld
    <2> QED
        BY <2>1, <2>2 DEF Offsets
<1>8. start[0] = off + 2 /\ start[n] = off + Len(BodyBytes(fields, EncodedValue))
    <2>1. Len(flat) \in Nat
        BY <1>3, LenProperties
    <2> HIDE DEF flat, n, parts
    <2>2. start[0] = off + 2 /\ start[n] = off + 2 + Len(flat)
        BY <1>3, <1>6 DEF Starts
    <2> QED
        BY <1>5, <2>1, <2>2
<1> HIDE DEF n
<1> QED
    BY <1>5, <1>7, <1>8 DEF n

Part(value, k, last) == [i \in k..last |-> value[i]]

\* Storing the field before a part makes the part that starts with it.
LEMMA Grown ==
    ASSUME NEW value, NEW k \in Nat, NEW last \in Nat, k <= last
    PROVE  Stored(Part(value, k + 1, last), k, value[k]) = Part(value, k, last)
<1>1. DOMAIN Part(value, k + 1, last) = (k + 1)..last
    BY DEF Part
<1>2. ((k + 1)..last) \cup {k} = k..last /\ k \notin (k + 1)..last
    OBVIOUS
<1>3. \A i \in (k + 1)..last : Part(value, k + 1, last)[i] = value[i]
    BY DEF Part
<1>4. Stored(Part(value, k + 1, last), k, value[k]) =
        [i \in k..last |-> IF i \in (k + 1)..last THEN Part(value, k + 1, last)[i] ELSE value[k]]
    BY <1>1, <1>2 DEF Stored
<1>5. \A i \in k..last :
        (IF i \in (k + 1)..last THEN Part(value, k + 1, last)[i] ELSE value[k]) = value[i]
    BY <1>2, <1>3
<1> QED
    BY <1>4, <1>5 DEF Part

\* A part behind the last is empty.
LEMMA NoneOf ==
    ASSUME NEW value, NEW last \in Nat
    PROVE  Part(value, last + 1, last) = << >>
<1>1. (last + 1)..last = {}
    OBVIOUS
<1>2. << >> = [i \in {} |-> value[i]]
    OBVIOUS
<1> QED
    BY <1>1, <1>2 DEF Part

\* From `from` on, the walker returns what it should.
Returns(buf, from, count, value, k, last, end) ==
    \A m \in Nat : m > Len(buf) - from =>
        FieldsOf(Walk(buf)[m], from, count) = [fields |-> Part(value, k, last), off |-> end]

\* A field that is read goes before what the walker returns behind it.
LEMMA OneMore ==
    ASSUME NEW buf \in Seq(Byte), NEW f \in Fields, FieldReads(buf, f),
           NEW from \in Nat, There(buf, from, f),
           NEW count \in Nat, count > 0,
           NEW value, NEW last \in Nat, NEW k \in Nat, k <= last, NEW end,
           U16(buf, from) = k, value[k] = f,
           Returns(buf, Behind(from, f), count - 1, value, k + 1, last, end)
    PROVE  Returns(buf, from, count, value, k, last, end)
<1> SUFFICES ASSUME NEW m \in Nat, m > Len(buf) - from
             PROVE  FieldsOf(Walk(buf)[m], from, count) =
                        [fields |-> Part(value, k, last), off |-> end]
    BY DEF Returns
<1> DEFINE rest == FieldsOf(Walk(buf)[m - 1], Behind(from, f), count - 1)
<1>1. m - 1 \in Nat /\ m - 1 > Len(buf) - Behind(from, f)
    <2>1. from + 3 <= Len(buf) /\ Len(buf) \in Nat
        BY LenProperties DEF There, Fits
    <2>2. Behind(from, f) \in Nat /\ Behind(from, f) >= from + 3
        BY BehindIs
    <2> QED
        BY <2>1, <2>2
<1>2. FieldsOf(Walk(buf)[m], from, count) = Kept(buf, from, f.value, rest)
    BY DEF FieldReads
<1>3. rest = [fields |-> Part(value, k + 1, last), off |-> end]
    BY <1>1 DEF Returns
<1>4. [type |-> buf[from + 3], value |-> f.value] = f
    BY FieldType DEF There
<1> HIDE DEF rest
<1>5. Kept(buf, from, f.value, rest) =
        [fields |-> Stored(Part(value, k + 1, last), k, f), off |-> end]
    BY <1>3, <1>4 DEF Kept
<1>6. Stored(Part(value, k + 1, last), k, value[k]) = Part(value, k, last)
    BY Grown
<1> QED
    BY <1>2, <1>5, <1>6

\* If it does behind the first e fields, and these are read, it does from the first on.
LEMMA BodyUpTo ==
    ASSUME NEW buf \in Seq(Byte), NEW fields \in Seq(Fields), NEW start,
           Offsets(buf, fields, start),
           NEW e \in 0..Len(fields), NEW last \in Nat, e <= last, NEW value, NEW end,
           \A i \in 1..e : value[i] = fields[i] /\ FieldReads(buf, fields[i]),
           Returns(buf, start[e], Len(fields) - e, value, e + 1, last, end)
    PROVE  Returns(buf, start[0], Len(fields), value, 1, last, end)
<1> DEFINE n == Len(fields)
           Claim(k) == Returns(buf, start[k], n - k, value, k + 1, last, end)
           S == {j \in Nat : j <= e => Claim(e - j)}
<1>1. n \in Nat
    BY LenProperties
<1>2. ASSUME NEW j \in Nat, \A i \in Nat : i < j => i \in S
      PROVE  j \in S
    <2>1. CASE j = 0
        <3>1. e - j = e
            BY <2>1
        <3> QED
            BY <3>1
    <2>2. CASE j > 0 /\ j <= e
        <3> DEFINE k == e - j
                   f == fields[k + 1]
        <3>1. /\ k \in Nat /\ k + 1 \in 1..n /\ k + 1 \in 1..e /\ k + 1 <= last
              /\ n - k \in Nat /\ n - k > 0 /\ (n - k) - 1 = n - (k + 1)
              /\ (k + 1) - 1 = k /\ k + 1 \in Nat /\ k \in 0..n
            BY <1>1, <2>2
        <3>2. Claim(k + 1)
            <4>1. j - 1 \in Nat /\ j - 1 < j /\ j - 1 <= e /\ e - (j - 1) = k + 1
                BY <2>2
            <4>2. j - 1 \in S
                <5> HIDE DEF S
                <5> QED
                    BY <1>2, <4>1
            <4> HIDE DEF Claim, k
            <4> QED
                BY <4>1, <4>2
        <3>3. /\ f \in Fields /\ start[k + 1] = Behind(start[k], f)
              /\ There(buf, start[k], f) /\ U16(buf, start[k]) = k + 1
              /\ start[k] \in Nat
            <4> HIDE DEF k, n
            <4>1. \A i \in 1..n : /\ fields[i] \in Fields
                                 /\ start[i] = Behind(start[i - 1], fields[i])
                                 /\ There(buf, start[i - 1], fields[i])
                                 /\ U16(buf, start[i - 1]) = i
                BY DEF Offsets, n
            <4>2. start \in [0..n -> Nat]
                BY DEF Offsets, n
            <4> QED
                BY <3>1, <4>1, <4>2
        <3>4. value[k + 1] = f /\ FieldReads(buf, f)
            <4> HIDE DEF k
            <4> QED
                BY <3>1
        <3>5. Returns(buf, Behind(start[k], f), (n - k) - 1, value, (k + 1) + 1, last, end)
            <4> HIDE DEF k, f, n
            <4> QED
                BY <3>1, <3>2, <3>3
        <3>6. Claim(k)
            <4> DEFINE from == start[k]
                       count == n - k
                       l == k + 1
            <4>1. /\ from \in Nat /\ count \in Nat /\ count > 0 /\ l \in Nat /\ l <= last
                  /\ f \in Fields
                BY <3>1, <3>3
            <4>2. /\ There(buf, from, f) /\ U16(buf, from) = l /\ value[l] = f
                  /\ FieldReads(buf, f)
                BY <3>3, <3>4
            <4>3. Returns(buf, Behind(from, f), count - 1, value, l + 1, last, end)
                BY <3>5
            <4> HIDE DEF from, count, l, f
            <4>4. Returns(buf, from, count, value, l, last, end)
                BY <4>1, <4>2, <4>3, OneMore
            <4> QED
                BY <4>4 DEF from, count, l
        <3> HIDE DEF Claim
        <3> QED
            BY <3>6 DEF k
    <2> QED
        BY <2>1, <2>2
<1> HIDE DEF S
<1>3. Nat \subseteq S
    BY <1>2, Induction
<1>4. e \in S
    BY <1>3
<1>5. Claim(0)
    <2>1. e - e = 0
        OBVIOUS
    <2> HIDE DEF Claim
    <2> QED
        BY <1>4, <2>1 DEF S
<1> QED
    BY <1>1, <1>5

\* The part from the first to the last is the whole.
LEMMA WholePart ==
    ASSUME NEW T, NEW s \in Seq(T)
    PROVE  Part(s, 1, Len(s)) = s
<1>1. Part(s, 1, Len(s)) = [i \in 1..Len(s) |-> s[i]]
    BY DEF Part
<1>2. s = [i \in 1..Len(s) |-> s[i]]
    OBVIOUS
<1> QED
    BY <1>1, <1>2

\* A body is read if its fields are.
LEMMA BodyFromFields ==
    ASSUME NEW buf \in Seq(Byte), NEW fields \in Seq(Fields), Countable(fields),
           \A i \in 1..Len(fields) : FieldReads(buf, fields[i])
    PROVE  BodyReads(buf, fields)
<1> SUFFICES ASSUME NEW off \in Nat, NEW m \in Nat, m > Len(buf) - (off + 2),
                    Held(buf, off, BodyBytes(fields, EncodedValue))
             PROVE  FieldsOf(Walk(buf)[m], off + 2, Len(fields)) =
                        [fields |-> fields, off |-> off + Len(BodyBytes(fields, EncodedValue))]
    BY DEF BodyReads
<1> DEFINE n == Len(fields)
           end == off + Len(BodyBytes(fields, EncodedValue))
<1>1. n \in Nat
    BY LenProperties
<1>2. PICK start : /\ Offsets(buf, fields, start) /\ start[0] = off + 2
                   /\ start[n] = end
    BY BodyHeld
<1>3. start[n] \in Nat
    BY <1>1, <1>2 DEF Offsets
<1>4. Returns(buf, start[n], n - n, fields, n + 1, n, end)
    <2> SUFFICES ASSUME NEW k \in Nat
                 PROVE  FieldsOf(Walk(buf)[k], start[n], n - n) =
                            [fields |-> Part(fields, n + 1, n), off |-> end]
        BY DEF Returns
    <2>1. Part(fields, n + 1, n) = << >>
        BY <1>1, NoneOf
    <2>2. n - n = 0
        BY <1>1
    <2> DEFINE from == start[n]
    <2>3. from \in Nat /\ from = end
        BY <1>2, <1>3
    <2> HIDE DEF from, end, n
    <2>4. FieldsOf(Walk(buf)[k], from, 0) = Stopped(from)
        BY <2>3, NothingLeft
    <2>5. FieldsOf(Walk(buf)[k], from, 0) = [fields |-> << >>, off |-> end]
        BY <2>3, <2>4 DEF Stopped
    <2> QED
        BY <2>1, <2>2, <2>5 DEF from
<1>5. Returns(buf, start[0], n, fields, 1, n, end)
    <2>1. n \in 0..n /\ n <= n
        BY <1>1
    <2>2. \A i \in 1..n : fields[i] = fields[i] /\ FieldReads(buf, fields[i])
        OBVIOUS
    <2> HIDE DEF end
    <2> QED
        BY <1>1, <1>2, <1>4, <2>1, <2>2, BodyUpTo
<1>6. Part(fields, 1, n) = fields
    BY WholePart
<1> HIDE DEF n, end
<1>7. FieldsOf(Walk(buf)[m], start[0], n) = [fields |-> Part(fields, 1, n), off |-> end]
    BY <1>2, <1>5 DEF Returns
<1> QED
    BY <1>2, <1>6, <1>7 DEF n, end

\* The fields up to one that is kept without its value.
Until(fields, last) ==
    [i \in 1..last |-> IF i = last THEN [fields[i] EXCEPT !.value = Unknown] ELSE fields[i]]

\* A field of an unknown type behind others that are read.
LEMMA BodyToUnknown ==
    ASSUME NEW buf \in Seq(Byte), NEW fields \in Seq(Fields), Countable(fields),
           NEW last \in 1..Len(fields), fields[last].type \notin Known,
           \A i \in 1..(last - 1) : FieldReads(buf, fields[i]),
           NEW off \in Nat, Held(buf, off, BodyBytes(fields, EncodedValue)),
           NEW m \in Nat, m > Len(buf) - (off + 2)
    PROVE  FieldsOf(Walk(buf)[m], off + 2, Len(fields)).fields = Until(fields, last)
<1> DEFINE n == Len(fields)
           e == last - 1
           f == fields[last]
           value == [i \in 1..last |-> IF i = last THEN [fields[i] EXCEPT !.value = Unknown]
                                      ELSE fields[i]]
<1>1. n \in Nat /\ last \in Nat /\ e \in 0..n /\ e \in Nat /\ e + 1 = last /\ e <= last
    BY LenProperties
<1>2. PICK start : Offsets(buf, fields, start) /\ start[0] = off + 2
    BY BodyHeld
<1> DEFINE from == start[e]
           end == from + 3
           count == n - e
<1>3. /\ f \in Fields /\ There(buf, from, f) /\ U16(buf, from) = last /\ from \in Nat
      /\ count \in Nat /\ count # 0
    <2>1. last \in 1..n /\ count \in Nat /\ count # 0
        BY <1>1
    <2>2. /\ fields[last] \in Fields /\ There(buf, start[last - 1], fields[last])
          /\ U16(buf, start[last - 1]) = last
        BY <1>2, <2>1 DEF Offsets
    <2>3. start[e] \in Nat
        BY <1>1, <1>2 DEF Offsets
    <2> QED
        BY <2>1, <2>2, <2>3
<1>4. Returns(buf, from, count, value, last, last, end)
    <2> SUFFICES ASSUME NEW k \in Nat, k > Len(buf) - from
                 PROVE  FieldsOf(Walk(buf)[k], from, count) =
                            [fields |-> Part(value, last, last), off |-> end]
        BY DEF Returns
    <2>1. k > 0 /\ Fits(buf, from, 3) /\ buf[from + 3] = f.type
        <3>1. Fits(buf, from, 3) /\ buf[from + 3] = f.type
            BY <1>3 DEF There
        <3>2. Len(buf) \in Nat
            BY LenProperties
        <3> HIDE DEF from, f
        <3> QED
            BY <1>3, <3>1, <3>2 DEF Fits
    <2>2. FieldsOf(Walk(buf)[k], from, count) = WalkFields(buf, from, count, Walk(buf)[k - 1])
        <3>1. k > 0
            BY <2>1
        <3> HIDE DEF from, count
        <3> QED
            BY <1>3, <3>1, CallIs
    <2>3. WalkFields(buf, from, count, Walk(buf)[k - 1]) =
                Kept(buf, from, Unknown, Stopped(from + 3))
        <3>1. buf[from + 3] \notin Known
            BY <2>1
        <3>2. Fits(buf, from, 3)
            BY <2>1
        <3> HIDE DEF from, count, f
        <3> QED
            BY <1>3, <3>1, <3>2, RoundByType
    <2>4. [type |-> buf[from + 3], value |-> Unknown] = value[last]
        <3>1. f = [type |-> f.type, value |-> f.value]
            BY <1>3, FieldType
        <3>2. value[last] = [f EXCEPT !.value = Unknown]
            BY <1>1
        <3> HIDE DEF f, value
        <3>3. [f EXCEPT !.value = Unknown] = [type |-> f.type, value |-> Unknown]
            BY <3>1
        <3> QED
            BY <2>1, <3>2, <3>3
    <2>5. Kept(buf, from, Unknown, Stopped(from + 3)) =
                [fields |-> Stored(<< >>, last, value[last]), off |-> end]
        <3> HIDE DEF from, value
        <3> QED
            BY <1>3, <2>4 DEF Kept, Stopped
    <2>6. Stored(<< >>, last, value[last]) = Part(value, last, last)
        <3> HIDE DEF value
        <3>1. Part(value, last + 1, last) = << >>
            BY <1>1, NoneOf
        <3>2. Stored(Part(value, last + 1, last), last, value[last]) = Part(value, last, last)
            BY <1>1, Grown
        <3> QED
            BY <3>1, <3>2
    <2> HIDE DEF from, value, count, end
    <2> QED
        BY <2>2, <2>3, <2>5, <2>6
<1>5. Returns(buf, start[0], n, value, 1, last, end)
    <2>1. \A i \in 1..e : value[i] = fields[i] /\ FieldReads(buf, fields[i])
        BY <1>1
    <2>2. Returns(buf, start[e], n - e, value, e + 1, last, end)
        BY <1>1, <1>4
    <2>3. last \in Nat
        BY <1>1
    <2>4. e \in 0..n /\ e <= last
        BY <1>1
    <2>5. Offsets(buf, fields, start)
        BY <1>2
    <2> HIDE DEF value, end, e
    <2> QED
        BY <2>1, <2>2, <2>3, <2>4, <2>5, BodyUpTo
<1>6. Part(value, 1, last) = value
    BY DEF Part
<1> HIDE DEF n, value, end
<1>7. FieldsOf(Walk(buf)[m], start[0], n) = [fields |-> Part(value, 1, last), off |-> end]
    BY <1>2, <1>5 DEF Returns
<1>8. FieldsOf(Walk(buf)[m], off + 2, n).fields = value
    BY <1>2, <1>6, <1>7
<1> QED
    BY <1>8 DEF n, value, Until

\* What is left of an array of structs.
After(list, k) == [i \in 1..(Len(list) - k) |-> list[k + i]]

\* What is left is a sequence, from the whole list down to nothing.
LEMMA AfterType ==
    ASSUME NEW T, NEW list \in Seq(T), NEW k \in 0..Len(list)
    PROVE  /\ After(list, k) \in Seq(T) /\ Len(After(list, k)) = Len(list) - k
           /\ k = 0 => After(list, k) = list
           /\ k = Len(list) => After(list, k) = << >>
           /\ k < Len(list) => After(list, k) = <<list[k + 1]>> \o After(list, k + 1)
<1> DEFINE n == Len(list)
<1>1. n \in Nat /\ k \in Nat /\ \A i \in 1..n : list[i] \in T
    BY LenProperties, ElementOfSeq
<1>t. \A j \in 0..n : After(list, j) \in Seq(T) /\ Len(After(list, j)) = n - j
    <2> TAKE j \in 0..n
    <2>1. n - j \in Nat /\ \A i \in 1..(n - j) : j + i \in 1..n
        BY <1>1
    <2>2. \A i \in 1..(n - j) : After(list, j)[i] \in T
        BY <1>1, <2>1 DEF After
    <2>3. After(list, j) = [i \in 1..(n - j) |-> After(list, j)[i]]
        BY DEF After
    <2> HIDE DEF n
    <2> QED
        BY <2>1, <2>2, <2>3, AsSequence
<1>2. ASSUME k = 0
      PROVE  After(list, k) = list
    <2>1. list = [i \in 1..n |-> list[i]]
        OBVIOUS
    <2>2. After(list, k) = [i \in 1..n |-> list[i]]
        BY <1>1, <1>2 DEF After
    <2> QED
        BY <2>1, <2>2
<1>3. ASSUME k = n
      PROVE  After(list, k) = << >>
    <2>1. Len(After(list, k)) = 0 /\ After(list, k) \in Seq(T)
        BY <1>1, <1>3, <1>t
    <2> QED
        BY <2>1, EmptySeq
<1>4. ASSUME k < n
      PROVE  After(list, k) = <<list[k + 1]>> \o After(list, k + 1)
    <2> DEFINE one == <<list[k + 1]>>
               rest == After(list, k + 1)
               both == one \o rest
               all == After(list, k)
    <2>1. k + 1 \in 0..n /\ k + 1 \in 1..n
        BY <1>1, <1>4
    <2>2. /\ rest \in Seq(T) /\ Len(rest) = n - (k + 1)
          /\ all \in Seq(T) /\ Len(all) = n - k
        BY <1>t, <2>1
    <2>3. one \in Seq(T) /\ Len(one) = 1 /\ one[1] = list[k + 1]
        BY <1>1, <2>1
    <2>4. \A i \in 1..(n - k) : all[i] = list[k + i]
        BY DEF After
    <2>5. \A i \in 1..(n - (k + 1)) : rest[i] = list[k + 1 + i]
        BY <1>1 DEF After
    <2> HIDE DEF one, rest, all
    <2>6. /\ both \in Seq(T) /\ Len(both) = Len(one) + Len(rest)
          /\ \A i \in 1..(Len(one) + Len(rest)) :
                both[i] = IF i <= Len(one) THEN one[i] ELSE rest[i - Len(one)]
        BY <2>2, <2>3, ConcatProperties
    <2> HIDE DEF both, n
    <2>7. Len(both) = Len(all)
        BY <1>1, <2>2, <2>3, <2>6
    <2>8. \A i \in 1..Len(all) : both[i] = all[i]
        <3> TAKE i \in 1..Len(all)
        <3>0. i \in 1..(n - k) /\ i \in Nat /\ n - k \in Nat
            BY <1>1, <1>4, <2>2
        <3>1. CASE i = 1
            <4>1. 1 <= Len(one) /\ 1 \in 1..(Len(one) + Len(rest)) /\ 1 \in 1..(n - k)
                BY <1>1, <1>4, <2>2, <2>3
            <4>2. both[1] = one[1]
                BY <2>6, <4>1
            <4>3. all[1] = list[k + 1]
                BY <2>4, <4>1
            <4> QED
                BY <2>3, <3>1, <4>2, <4>3
        <3>2. CASE i > 1
            <4>1. both[i] = rest[i - 1]
                BY <1>1, <2>2, <2>3, <2>6, <3>0, <3>2
            <4>2. i - 1 \in 1..(n - (k + 1)) /\ k + 1 + (i - 1) = k + i
                BY <1>1, <3>0, <3>2
            <4> QED
                BY <2>4, <2>5, <3>0, <4>1, <4>2
        <3> QED
            BY <3>0, <3>1, <3>2
    <2>9. both = all
        BY <2>2, <2>6, <2>7, <2>8, SeqEqual
    <2> QED
        BY <2>9 DEF both, one, all, rest
<1> QED
    BY <1>2, <1>3, <1>4, <1>t

\* Nothing is left at the end, everything at the start.
LEMMA AfterNone ==
    ASSUME NEW T, NEW list \in Seq(T)
    PROVE  After(list, Len(list)) = << >> /\ After(list, 0) = list
<1>1. Len(list) \in 0..Len(list) /\ 0 \in 0..Len(list)
    BY LenProperties
<1> QED
    BY <1>1, AfterType

\* One struct and what is left behind it are what is left before it.
LEMMA AfterOne ==
    ASSUME NEW T, NEW list \in Seq(T), NEW k \in Nat, k + 1 \in 1..Len(list)
    PROVE  <<list[k + 1]>> \o After(list, k + 1) = After(list, k)
<1>1. k \in 0..Len(list) /\ k < Len(list)
    BY LenProperties
<1> QED
    BY <1>1, AfterType

\* A body has its count at least.
LEMMA BodyLength ==
    ASSUME NEW fields \in Seq(Fields), Countable(fields)
    PROVE  /\ BodyBytes(fields, EncodedValue) \in Seq(Byte)
           /\ Len(BodyBytes(fields, EncodedValue)) \in Nat
           /\ Len(BodyBytes(fields, EncodedValue)) >= 2
<1> DEFINE flat == FlattenSeq(FieldParts(fields, EncodedValue))
           n == Len(fields)
           bytes == BodyBytes(fields, EncodedValue)
<1>1. Bytewise(EncodedValue)
    BY EncodedValueIs DEF Bytewise
<1>2. flat \in Seq(Byte) /\ bytes \in Seq(Byte)
    BY <1>1, BodyParts
<1>3. bytes = Two(n) \o flat
    BY BodyBytesAre
<1>4. Index(n)
    BY LenProperties DEF Countable, Index
<1>5. Two(n) \in Seq(Byte) /\ Len(Two(n)) = 2
    BY <1>4, TwoType DEF Index
<1> HIDE DEF flat, n, bytes
<1>6. Len(Two(n) \o flat) = Len(Two(n)) + Len(flat)
    BY <1>2, <1>5, Together
<1>7. Len(flat) \in Nat /\ Len(bytes) \in Nat
    BY <1>2, LenProperties
<1>8. Len(bytes) >= 2
    BY <1>3, <1>5, <1>6, <1>7
<1> QED
    BY <1>2, <1>7, <1>8 DEF bytes

\* The elements from the offset on are what is left of the list.
Elements(buf, from, list, k, end) ==
    \A m \in Nat : m > Len(buf) - from =>
        ElementsOf(Walk(buf)[m], from, Len(list) - k) =
            [elements |-> After(list, k), off |-> end]

\* A struct that is read goes before the elements behind it.
LEMMA OneStructMore ==
    ASSUME NEW buf \in Seq(Byte), NEW list \in Seq(Seq(Fields)),
           NEW k \in Nat, k + 1 \in 1..Len(list), Countable(list[k + 1]),
           BodyReads(buf, list[k + 1]),
           NEW from \in Nat, NEW next, NEW end,
           Held(buf, from, BodyBytes(list[k + 1], EncodedValue)),
           next = from + Len(BodyBytes(list[k + 1], EncodedValue)),
           Elements(buf, next, list, k + 1, end)
    PROVE  Elements(buf, from, list, k, end)
<1> SUFFICES ASSUME NEW m \in Nat, m > Len(buf) - from
             PROVE  ElementsOf(Walk(buf)[m], from, Len(list) - k) =
                        [elements |-> After(list, k), off |-> end]
    BY DEF Elements
<1> DEFINE body == list[k + 1]
           n == Len(list)
           size == Len(BodyBytes(body, EncodedValue))
           below == Walk(buf)[m - 1]
           inner == FieldsOf(below, from + 2, U16(buf, from))
           rest == ElementsOf(below, inner.off, (n - k) - 1)
<1>1. body \in Seq(Fields) /\ n \in Nat /\ n - k \in Nat /\ n - k # 0 /\ (n - k) - 1 = n - (k + 1)
    BY LenProperties, ElementOfSeq
<1>2. Fits(buf, from, 2) /\ U16(buf, from) = Len(body)
    BY <1>1, BodyHeld
<1>3. size \in Nat /\ size >= 2
    BY <1>1, BodyLength
<1>4. /\ m > 0 /\ m - 1 \in Nat /\ m - 1 > Len(buf) - (from + 2) /\ m - 1 > Len(buf) - next
      /\ next \in Nat
    <2>1. Len(buf) \in Nat /\ from + 2 <= Len(buf)
        BY <1>2, LenProperties DEF Fits
    <2>2. next = from + size
        OBVIOUS
    <2> HIDE DEF size
    <2> QED
        BY <1>3, <2>1, <2>2
<1>5. ElementsOf(Walk(buf)[m], from, n - k) = WalkElements(buf, from, n - k, below)
    <2>1. m > 0 /\ n - k \in Nat
        BY <1>1, <1>4
    <2> DEFINE count == n - k
    <2>2. count \in Nat
        BY <2>1
    <2> HIDE DEF count
    <2>3. ElementsOf(Walk(buf)[m], from, count) = WalkElements(buf, from, count, below)
        BY <2>1, <2>2, CallIs
    <2> QED
        BY <2>3 DEF count
<1>6. WalkElements(buf, from, n - k, below) =
            [elements |-> <<inner.fields>> \o rest.elements, off |-> rest.off]
    <2>1. n - k # 0
        BY <1>1
    <2> DEFINE count == n - k
    <2>2. count # 0
        BY <2>1
    <2> HIDE DEF count, below
    <2>3. WalkElements(buf, from, count, below) =
            [elements |-> <<inner.fields>> \o ElementsOf(below, inner.off, count - 1).elements,
             off |-> ElementsOf(below, inner.off, count - 1).off]
        BY <1>2, <2>2, RoundOfElements
    <2> QED
        BY <2>3 DEF count
<1>7. inner = [fields |-> body, off |-> next]
    <2>1. FieldsOf(below, from + 2, Len(body)) = [fields |-> body, off |-> from + size]
        BY <1>4 DEF BodyReads
    <2> QED
        BY <1>2, <2>1
<1>8. rest = [elements |-> After(list, k + 1), off |-> end]
    <2>1. ElementsOf(below, next, n - (k + 1)) = [elements |-> After(list, k + 1), off |-> end]
        BY <1>4 DEF Elements
    <2>2. inner.off = next
        BY <1>7
    <2> HIDE DEF inner, n, below
    <2> QED
        BY <1>1, <2>1, <2>2
<1> HIDE DEF inner, rest, body, n, below
<1>9. ElementsOf(Walk(buf)[m], from, n - k) =
            [elements |-> <<body>> \o After(list, k + 1), off |-> end]
    BY <1>5, <1>6, <1>7, <1>8
<1>10. <<body>> \o After(list, k + 1) = After(list, k)
    BY AfterOne DEF body
<1> QED
    BY <1>9, <1>10 DEF n

\* An array of structs is read if its structs are.
LEMMA ListFromBodies ==
    ASSUME NEW buf \in Seq(Byte), NEW list \in Seq(Seq(Fields)),
           \A i \in 1..Len(list) : Countable(list[i]) /\ BodyReads(buf, list[i])
    PROVE  ListReads(buf, list)
<1> SUFFICES ASSUME NEW off \in Nat, NEW m \in Nat, m > Len(buf) - off,
                    Held(buf, off, ListBytes(list))
             PROVE  ElementsOf(Walk(buf)[m], off, Len(list)) =
                        [elements |-> list, off |-> off + Len(ListBytes(list))]
    BY DEF ListReads
<1> DEFINE n == Len(list)
           parts == StructParts(list, EncodedValue)
           end == off + Len(ListBytes(list))
<1>1. n \in Nat /\ \A i \in 1..n : list[i] \in Seq(Fields)
    BY LenProperties, ElementOfSeq
<1>2. Bytewise(EncodedValue)
    BY EncodedValueIs DEF Bytewise
<1>3. parts \in Seq(Seq(Byte)) /\ Len(parts) = n
    BY <1>2, ListParts
<1>4. \A i \in 1..n : parts[i] = BodyBytes(list[i], EncodedValue)
    BY StructPartsAre
<1>5. PICK start : Starts(buf, parts, start, off, end)
    <2>1. Held(buf, off, FlattenSeq(parts)) /\ end = off + Len(FlattenSeq(parts))
        BY DEF ListBytes
    <2> HIDE DEF parts, end
    <2> QED
        BY <1>3, <2>1, PartsStart
<1> HIDE DEF parts, end
<1>6. /\ start \in [0..n -> Nat] /\ start[0] = off /\ start[n] = end
      /\ \A i \in 1..n : /\ start[i] = start[i - 1] + Len(parts[i])
                          /\ Held(buf, start[i - 1], parts[i])
    BY <1>3, <1>5 DEF Starts
<1> DEFINE Claim(k) == Elements(buf, start[k], list, k, end)
           S == {j \in Nat : j <= n => Claim(n - j)}
<1>7. ASSUME NEW j \in Nat, \A i \in Nat : i < j => i \in S
      PROVE  j \in S
    <2>1. CASE j = 0
        <3>1. n - j = n /\ n - n = 0 /\ n \in 0..n
            BY <1>1, <2>1
        <3>2. start[n] \in Nat /\ start[n] = end
            BY <1>6, <3>1
        <3>3. After(list, n) = << >>
            BY AfterNone
        <3> DEFINE from == start[n]
        <3>4. \A k \in Nat : ElementsOf(Walk(buf)[k], from, 0) = [elements |-> << >>, off |-> from]
            <4>1. from \in Nat
                BY <3>2
            <4> HIDE DEF from
            <4> QED
                BY <4>1, NothingLeft
        <3>5. Claim(n)
            <4> HIDE DEF from
            <4>1. from = end
                BY <3>2 DEF from
            <4>2. Elements(buf, from, list, n, end)
                BY <3>1, <3>3, <3>4, <4>1 DEF Elements
            <4> QED
                BY <4>2 DEF from
        <3> HIDE DEF Claim
        <3> QED
            BY <3>1, <3>5
    <2>2. CASE j > 0 /\ j <= n
        <3> DEFINE k == n - j
        <3>1. k \in Nat /\ k + 1 \in 1..n /\ k \in 0..n /\ (k + 1) - 1 = k
            BY <1>1, <2>2
        <3>2. Claim(k + 1)
            <4>1. j - 1 \in Nat /\ j - 1 < j /\ j - 1 <= n /\ n - (j - 1) = k + 1
                BY <1>1, <2>2
            <4>2. j - 1 \in S
                <5> HIDE DEF S
                <5> QED
                    BY <1>7, <4>1
            <4> HIDE DEF Claim, k
            <4> QED
                BY <4>1, <4>2
        <3> DEFINE i == k + 1
        <3>3. i \in 1..n /\ i - 1 = k
            BY <3>1
        <3> HIDE DEF k, n
        <3>4. /\ start[i] = start[k] + Len(BodyBytes(list[i], EncodedValue))
              /\ Held(buf, start[k], BodyBytes(list[i], EncodedValue))
              /\ start[k] \in Nat
            <4> HIDE DEF i
            <4> QED
                BY <1>4, <1>6, <3>1, <3>3
        <3>5. Countable(list[i]) /\ BodyReads(buf, list[i])
            BY <3>1 DEF n
        <3>6. Claim(k)
            <4> DEFINE from == start[k]
                       next == start[k + 1]
            <4>1. /\ from \in Nat /\ Held(buf, from, BodyBytes(list[k + 1], EncodedValue))
                  /\ next = from + Len(BodyBytes(list[k + 1], EncodedValue))
                  /\ Elements(buf, next, list, k + 1, end)
                BY <3>2, <3>4
            <4> HIDE DEF from, next
            <4>2. Elements(buf, from, list, k, end)
                BY <3>1, <3>5, <4>1, OneStructMore DEF n
            <4> QED
                BY <4>2 DEF from
        <3> HIDE DEF Claim
        <3> QED
            BY <3>6 DEF k, n
    <2> QED
        BY <2>1, <2>2
<1> HIDE DEF S
<1>8. Nat \subseteq S
    BY <1>7, Induction
<1>9. Claim(0)
    <2>1. n \in S /\ n - n = 0
        BY <1>1, <1>8
    <2> HIDE DEF Claim, n
    <2> QED
        BY <1>1, <2>1 DEF S
<1>10. After(list, 0) = list /\ n - 0 = n
    BY <1>1, AfterNone
<1> QED
    BY <1>6, <1>9, <1>10 DEF Elements, end

\* A field that is or holds none of an unknown type is read, however deep it nests.
LEMMA AllFieldsRead ==
    ASSUME NEW buf \in Seq(Byte)
    PROVE  \A f \in Fields : ~ HoldsUnknown[f] => FieldReads(buf, f)
<1> DEFINE S == {n \in Nat : \A f \in Fields :
                    Depth[f] = n /\ ~ HoldsUnknown[f] => FieldReads(buf, f)}
<1>1. ASSUME NEW n \in Nat, \A m \in Nat : m < n => m \in S
      PROVE  n \in S
    <2> SUFFICES ASSUME NEW f \in Fields, Depth[f] = n, ~ HoldsUnknown[f]
                 PROVE  FieldReads(buf, f)
        OBVIOUS
    <2>1. f.type \in Known /\ \A g \in Inside(f) : g \in Fields /\ ~ HoldsUnknown[g]
        BY HoldsUnknownIs, InsideFields
    <2>2. \A g \in Inside(f) : FieldReads(buf, g)
        <3> TAKE g \in Inside(f)
        <3>1. g \in Fields /\ Depth[g] \in Nat /\ Depth[g] < n
            BY <2>1, FieldsAssumption
        <3>2. Depth[g] \in S
            <4> HIDE DEF S
            <4> QED
                BY <1>1, <3>1
        <3> QED
            BY <2>1, <3>1, <3>2
    <2> HIDE DEF S
    <2>3. ASSUME f.type = MStruct
          PROVE  BodyReads(buf, f.value)
        <3>1. f.value \in Seq(Fields) /\ Countable(f.value)
            BY <2>3, FieldType
        <3>2. DOMAIN f.value = 1..Len(f.value) /\ Inside(f) = Range(f.value)
            BY <2>3, <3>1, LenProperties DEF Inside, MStruct, AStruct
        <3>3. \A i \in 1..Len(f.value) : FieldReads(buf, f.value[i])
            BY <2>2, <3>2 DEF Range
        <3> QED
            BY <3>1, <3>3, BodyFromFields
    <2>4. ASSUME f.type = AStruct
          PROVE  ListReads(buf, f.value)
        <3> DEFINE list == f.value
        <3>1. list \in Seq(Seq(Fields)) /\ \A i \in 1..Len(list) : Countable(list[i])
            BY <2>4, FieldType
        <3>2. DOMAIN list = 1..Len(list)
            BY <3>1, LenProperties
        <3>3. Inside(f) = UNION {Range(list[i]) : i \in DOMAIN list}
            BY <2>4 DEF Inside, MStruct, AStruct
        <3> HIDE DEF list
        <3>4. \A i \in 1..Len(list) : BodyReads(buf, list[i])
            <4> TAKE i \in 1..Len(list)
            <4> DEFINE body == list[i]
            <4>1. body \in Seq(Fields) /\ Countable(body)
                BY <3>1, ElementOfSeq
            <4>2. Range(body) \subseteq Inside(f)
                BY <3>2, <3>3
            <4> HIDE DEF body
            <4>3. \A j \in 1..Len(body) : FieldReads(buf, body[j])
                <5>1. DOMAIN body = 1..Len(body)
                    BY <4>1, LenProperties
                <5> QED
                    BY <2>2, <4>2, <5>1 DEF Range
            <4>4. BodyReads(buf, body)
                BY <4>1, <4>3, BodyFromFields
            <4> QED
                BY <4>4 DEF body
        <3>5. ListReads(buf, list)
            BY <3>1, <3>4, ListFromBodies
        <3> QED
            BY <3>5 DEF list
    <2> QED
        BY <2>1, <2>3, <2>4, FieldFromInside
<1> HIDE DEF S
<1>2. Nat \subseteq S
    BY <1>1, Induction
<1> QED
    BY <1>2, FieldsAssumption DEF S

\* What the walker makes of the bytes of a body.
LEMMA DecodedIs ==
    ASSUME NEW fields \in Seq(Fields), Countable(fields)
    PROVE  LET buf == EncodedBody(fields)
               m == Len(buf)
           IN /\ buf \in Seq(Byte) /\ m \in Nat /\ m > Len(buf) - (0 + 2)
              /\ Held(buf, 0, BodyBytes(fields, EncodedValue))
              /\ Decoded(fields) = FieldsOf(Walk(buf)[m], 0 + 2, Len(fields)).fields
<1> DEFINE buf == EncodedBody(fields)
           m == Len(buf)
           bytes == BodyBytes(fields, EncodedValue)
<1>1. buf = bytes
    BY DEF EncodedBody
<1>2. bytes \in Seq(Byte) /\ m \in Nat /\ m >= 2
    BY <1>1, BodyLength
<1> HIDE DEF buf, bytes
<1>3. buf \in Seq(Byte)
    BY <1>1, <1>2
<1>4. Held(buf, 0, bytes)
    BY <1>1, <1>2 DEF Held
<1>5. Fits(buf, 0, 2) /\ U16(buf, 0) = Len(fields)
    BY <1>3, <1>4, BodyHeld DEF bytes
<1>6. Decoded(fields) = ParseStruct(buf, 0)
    BY DEF Decoded, buf
<1>7. ParseStruct(buf, 0) = FieldsOf(Walk(buf)[m], 0 + 2, U16(buf, 0)).fields
    BY <1>5 DEF ParseStruct, FieldsOf
<1>8. m > Len(buf) - (0 + 2)
    BY <1>2
<1> QED
    BY <1>2, <1>3, <1>4, <1>5, <1>6, <1>7, <1>8 DEF buf, bytes

\* A body without fields of an unknown type is decoded whole.
LEMMA WholeBody ==
    ASSUME NEW fields \in Seq(Fields), Countable(fields),
           \A i \in 1..Len(fields) : ~ HoldsUnknown[fields[i]]
    PROVE  Decoded(fields) = fields
<1> DEFINE buf == EncodedBody(fields)
           m == Len(buf)
<1>1. /\ buf \in Seq(Byte) /\ m \in Nat /\ m > Len(buf) - (0 + 2)
      /\ Held(buf, 0, BodyBytes(fields, EncodedValue))
      /\ Decoded(fields) = FieldsOf(Walk(buf)[m], 0 + 2, Len(fields)).fields
    BY DecodedIs
<1> HIDE DEF buf
<1>2. \A i \in 1..Len(fields) : FieldReads(buf, fields[i])
    BY <1>1, AllFieldsRead, ElementOfSeq
<1>3. BodyReads(buf, fields)
    BY <1>1, <1>2, BodyFromFields
<1>4. FieldsOf(Walk(buf)[m], 0 + 2, Len(fields)) =
            [fields |-> fields, off |-> 0 + Len(BodyBytes(fields, EncodedValue))]
    BY <1>1, <1>3 DEF BodyReads
<1> QED
    BY <1>1, <1>4

\* One with such a field is decoded up to it.
LEMMA BodyUntilUnknown ==
    ASSUME NEW fields \in Seq(Fields), Countable(fields),
           NEW last \in 1..Len(fields), fields[last].type \notin Known,
           \A i \in 1..(last - 1) : ~ HoldsUnknown[fields[i]]
    PROVE  Decoded(fields) = Until(fields, last)
<1> DEFINE buf == EncodedBody(fields)
           m == Len(buf)
<1>1. /\ buf \in Seq(Byte) /\ m \in Nat /\ m > Len(buf) - (0 + 2)
      /\ Held(buf, 0, BodyBytes(fields, EncodedValue))
      /\ Decoded(fields) = FieldsOf(Walk(buf)[m], 0 + 2, Len(fields)).fields
    BY DecodedIs
<1> HIDE DEF buf, m
<1>2. \A i \in 1..(last - 1) : FieldReads(buf, fields[i])
    <2> TAKE i \in 1..(last - 1)
    <2>1. i \in 1..Len(fields)
        BY LenProperties
    <2>2. fields[i] \in Fields
        BY <2>1, ElementOfSeq
    <2> QED
        BY <1>1, <2>2, AllFieldsRead
<1>3. FieldsOf(Walk(buf)[m], 0 + 2, Len(fields)).fields = Until(fields, last)
    <2>1. 0 \in Nat
        OBVIOUS
    <2> QED
        BY <1>1, <1>2, <2>1, BodyToUnknown
<1> QED
    BY <1>1, <1>3

\* The walker returns what was encoded, of any number of fields, however structs, arrays
\* and strings nest; the first field of an unknown type is kept without a value and ends
\* it.
THEOREM BodiesAreDecoded == Spec => []BodiesDecode
<1>1. Arrived => BodiesDecode
    <2> SUFFICES ASSUME Arrived, message.kind = "body"
                 PROVE  LET fields == message.tree
                            end == Min(Ends(fields))
                        IN /\ Ends(fields) = {} => Decoded(fields) = fields
                           /\ Ends(fields) # {} /\ fields[end].type \notin Known =>
                                Decoded(fields) =
                                    [i \in 1..end |->
                                        IF i = end THEN [fields[i] EXCEPT !.value = Unknown]
                                        ELSE fields[i]]
        BY DEF BodiesDecode
    <2> DEFINE fields == message.tree
               end == Min(Ends(fields))
    <2>1. fields \in Seq(Fields) /\ Countable(fields)
        BY TreesAssumption DEF Arrived
    <2> HIDE DEF fields
    <2>2. ASSUME Ends(fields) = {}
          PROVE  Decoded(fields) = fields
        <3>1. \A i \in 1..Len(fields) : ~ HoldsUnknown[fields[i]]
            BY <2>2 DEF Ends
        <3> QED
            BY <2>1, <3>1, WholeBody
    <2>3. ASSUME Ends(fields) # {}, fields[end].type \notin Known
          PROVE  Decoded(fields) =
                    [i \in 1..end |-> IF i = end THEN [fields[i] EXCEPT !.value = Unknown]
                                      ELSE fields[i]]
        <3>1. Len(fields) \in Nat
            BY <2>1, LenProperties
        <3>2. Ends(fields) \subseteq Nat
            BY <3>1 DEF Ends
        <3>3. end \in Ends(fields) /\ \A i \in Ends(fields) : end <= i
            BY <2>3, <3>2, MinOf
        <3> HIDE DEF end
        <3>4. end \in 1..Len(fields)
            BY <3>3 DEF Ends
        <3>5. \A i \in 1..(end - 1) : ~ HoldsUnknown[fields[i]]
            <4> TAKE i \in 1..(end - 1)
            <4>1. i \in 1..Len(fields) /\ ~ (end <= i)
                BY <3>1, <3>4
            <4>2. i \notin Ends(fields)
                BY <3>3, <4>1
            <4> QED
                BY <4>1, <4>2 DEF Ends
        <3> QED
            BY <2>1, <2>3, <3>4, <3>5, BodyUntilUnknown DEF Until
    <2> QED
        BY <2>2, <2>3 DEF fields
<1> QED
    BY <1>1, MessagesArrive, PTL

=============================================================================
