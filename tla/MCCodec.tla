------------------------------ MODULE MCCodec ------------------------------
(* Bodies of up to three fields, among them structs and arrays of structs, *)
(* with bytes that look like lengths and types.                            *)
EXTENDS Codec

Scalars == {[type |-> 1, value |-> <<1>>], [type |-> 5, value |-> <<0, 16>>],
            [type |-> 8, value |-> <<0, 1, 5, 0>>]}
Flat == Scalars \cup
    {[type |-> 17, value |-> << >>], [type |-> 21, value |-> << <<0, 2>>, <<1, 0>> >>],
     [type |-> 32, value |-> <<0, 3, 1>>]}
\* An array of floats, which the table leaves out.
Floats == {[type |-> 30, value |-> <<0, 1, 0, 3, 1, 1, 0>>]}
UpTo(S, n) == UNION {[1..k -> S] : k \in 0..n}
Inner == UpTo(Flat \cup Floats, 1) \cup [1..2 -> Scalars]
Nested == {[type |-> 16, value |-> fields] : fields \in Inner}
            \cup {[type |-> 33, value |-> list] : list \in UpTo(Inner, 2)}
\* A struct or an array of structs in a struct, and in an array of them.
Small == {f \in Nested : Len(f.value) <= 1}
Deeper == {[type |-> 16, value |-> <<f, g>>] : f \in Small, g \in Scalars}
            \cup {[type |-> 33, value |-> << <<f>>, <<g>> >>] : f \in Small, g \in Scalars}
TheFields == Flat \cup Floats \cup Nested \cup Deeper
TheDepth == [f \in TheFields |-> IF Inside(f) = {} THEN 0
                                 ELSE IF \A g \in Inside(f) : Inside(g) = {} THEN 1 ELSE 2]
TheTrees == UpTo(Flat \cup Floats, 3) \cup UpTo(Nested \cup Deeper, 1)
                \cup {<<a, b>> : a \in Nested, b \in Scalars}
                \cup {<<b, a>> : a \in Nested, b \in Flat}
TheLeaves == UpTo(Scalars, 3)
Ids == {<<0, 1, 0, 1>>, <<0, 0, 1, 1>>, <<0, 0, 0, 1>>}
Frames == UpTo({0, 1}, 7)
TheValues == {<<0, 0, 1, 1, 0, 1, 0, 1>>, <<1, 1, 1, 1, 1, 1, 1, 1>>}
=============================================================================
