-------------------------------- MODULE Wire --------------------------------
(***************************************************************************)
(* What the integration reads off the wire and puts on it, but for nested  *)
(* bodies (Codec): flat DOP2 leaves (src/custom_components/miele_lan/      *)
(* dop2.py), the padding of bodies, the echo of a hood setting and the gate*)
(* of a process action (api.py).                                           *)
(*                                                                         *)
(* `message` is what is being handled; an offset counts from 0 as in the   *)
(* code.  A number stays the bytes it has on the wire.  A loop is a        *)
(* function of what it has come to, so that CodecProofs can reason on it.  *)
(***************************************************************************)
EXTENDS Integers, SequencesExt

CONSTANTS
    Trees,      \* DOP2 bodies with structs, for Codec
    Leaves,     \* flat ones, which may arrive cut
    PfIds,      \* ids of hood settings, as four hex digits
    Framings,   \* what a response has before the echo of the id
    Values,     \* values of a setting, as eight hex digits
    MaxLength,  \* bound: of a body to be padded
    None,       \* no value
    Unknown     \* what is stored for a field of an unknown type

VARIABLE message

-----------------------------------------------------------------------------
(* Flat DOP2 leaves.                                                       *)

\* _FIXED_SIZE_TYPES.
Width == [t \in 1..13 |-> IF t <= 4 THEN 1 ELSE IF t <= 7 THEN 2 ELSE IF t <= 10 THEN 4 ELSE 8]

Byte == 0..255
Digit == 0..15
Scalar == {f \in [type : 1..13, value : Seq(Byte)] : Len(f.value) = Width[f.type]}

\* The count of a leaf is of 16 bits.  The search for an echo steps over two digits, so
\* an id of one digit repeated could hide itself.
ASSUME LeavesAssumption == \A leaf \in Leaves : leaf \in Seq(Scalar) /\ Len(leaf) < 65536
ASSUME PfAssumption ==
    \A id \in PfIds : id \in Seq(Digit) /\ Len(id) = 4 /\ \E i \in 2..4 : id[i] # id[1]
ASSUME EchoAssumption ==
    /\ \A framing \in Framings : framing \in Seq(Digit)
    /\ \A value \in Values : value \in Seq(Digit) /\ Len(value) = 8
ASSUME LengthAssumption == MaxLength \in Nat
ASSUME NoneAssumption == None \notin Nat

Bytes(buf, off, n) == SubSeq(buf, off + 1, IF off + n <= Len(buf) THEN off + n ELSE Len(buf))
Fits(buf, off, n) == off + n <= Len(buf)
U16(buf, off) == 256 * buf[off + 1] + buf[off + 2]

CompleteToTheEdge(payload, off, t) == off + Width[t] <= Len(payload) + 1
Complete(payload, off, t) == Fits(payload, off, Width[t])

\* The body of parse_simple_leaf's loop; a break leaves `more` FALSE.
NextAttribute(payload, loop) ==
    LET t == payload[loop.off + 3]
        at == loop.off + 3
        Attribute(v) == [index |-> U16(payload, loop.off), value |-> v]
    IN IF ~ loop.more THEN loop
       ELSE IF ~ Fits(payload, loop.off, 3) THEN [loop EXCEPT !.more = FALSE]
       ELSE IF t \notin DOMAIN Width
            THEN [loop EXCEPT !.more = FALSE, !.attributes = Append(@, Attribute(Unknown))]
       ELSE IF ~ Complete(payload, at, t) THEN [loop EXCEPT !.more = FALSE]
       ELSE [off |-> at + Width[t], more |-> TRUE,
             attributes |-> Append(loop.attributes, Attribute(Bytes(payload, at, Width[t])))]

Start == [off |-> 12, more |-> TRUE, attributes |-> << >>]

\* The loop of parse_simple_leaf after i rounds.
Scan(payload) ==
    LET after[i \in Nat] == IF i = 0 THEN Start ELSE NextAttribute(payload, after[i - 1])
    IN after

\* parse_simple_leaf: scalars up to the first of another type, None for its ValueError.
ParseSimpleLeaf(payload) ==
    IF Len(payload) < 12 THEN None ELSE Scan(payload)[U16(payload, 10)].attributes

-----------------------------------------------------------------------------
(* Requests.                                                               *)

Blocks(n) == IF n % 16 = 0 THEN n ELSE n + 16 - (n % 16)

PadTo(body, size) == [before |-> IF body.json THEN size - body.len ELSE 0,
                      after |-> IF body.json THEN 0 ELSE size - body.len]

\* _pad_request_body: spaces before the closing brace of JSON, or after the body.
PadRequestBody(body) ==
    IF body.len = 0 THEN PadTo(body, 0)
    ELSE PadTo(body, Blocks(IF body.json THEN Max({64, body.len}) ELSE body.len))

MielePadBehindJson(body) ==
    CASE body.len = 0 -> PadTo(body, 0)
      [] body.len # 0 /\ body.json -> PadTo(body, Max({64, body.len}))
      [] body.len # 0 /\ ~ body.json -> PadTo(body, Blocks(Max({64, body.len})))

\* _miele_pad: as short JSON, else after the body.
MielePad(body) ==
    CASE body.len = 0 -> PadTo(body, 0)
      [] body.len # 0 /\ body.json /\ body.len < 64 -> PadTo(body, 64)
      [] body.len # 0 /\ ~ (body.json /\ body.len < 64) ->
            LET missing == Max({64 - body.len, 0})
                rest == body.len % 16
            IN [before |-> 0,
                after |-> CASE missing > 0 -> missing
                            [] missing = 0 /\ rest = 0 -> 0
                            [] missing = 0 /\ rest # 0 -> 16 - rest]

\* build_user_request_payload and build_appliance_state_payload: one attribute of one
\* or two bytes in a block of 32.
UserRequest(opcode) ==
    <<0, 16, 0, 1, 6, 47, 0, 0, 0, 0, 0, 1, 0, 1, 7, 0, opcode>> \o [i \in 1..15 |-> 32]

ApplianceState(on) ==
    <<0, 14, 0, 2, 6, 50, 0, 0, 0, 0, 0, 1, 0, 1, 4, IF on THEN 4 ELSE 1>>
        \o [i \in 1..16 |-> 32]

-----------------------------------------------------------------------------
(* The echo of a hood setting, as hex digits.                              *)

\* Where the needle is found from `start` on.
Hits(digits, needle, start) ==
    {i \in start..(Len(digits) - 4) : SubSeq(digits, i + 1, i + 4) = needle}

CountsAnywhere(digits, i) == i + 28 <= Len(digits)
\* On a byte boundary, with Wert, Min and Max behind it.
Counts(digits, i) == i % 2 = 0 /\ i + 28 <= Len(digits)

\* The value read by the loop of parse_dop1_setting_pf_value from `start` on.
Search(digits, needle) ==
    LET from[start \in Nat] ==
            LET hits == Hits(digits, needle, start)
            IN IF hits = {} THEN None
               ELSE IF Counts(digits, Min(hits))
                    THEN SubSeq(digits, Min(hits) + 5, Min(hits) + 12)
                    ELSE from[Min(hits) + 2]
    IN from

\* parse_dop1_setting_pf_value
ParsePfValue(digits, needle) ==
    IF Len(digits) % 2 = 1 THEN None ELSE Search(digits, needle)[0]

-----------------------------------------------------------------------------
(* The gate of a process action.                                           *)

Programmed == 3
WaitingToStart == 4
InUse == 5

Off(bits) == bits # None /\ bits % 2 = 0

DishwasherRefuses(state, action) == action # "stop" /\ state.remote = 0

LaundryRefusesUnknown(state, action) ==
    CASE action = "stop" -> state.status \notin {WaitingToStart, InUse}
      [] action = "start" ->
            \/ Off(state.remote)
            \/ /\ state.status # None /\ state.status # WaitingToStart
               /\ \/ state.status # Programmed
                  \/ state.mobile = None \/ Off(state.mobile)
                  \/ state.delay # None /\ state.delay > 0
      [] action \notin {"start", "stop"} -> FALSE

\* _check_laundry_precondition, with RemoteEnable[0] and [2] and the delayed start.
LaundryRefuses(state, action) ==
    CASE action = "stop" -> state.status # None /\ state.status \notin {WaitingToStart, InUse}
      [] action = "start" ->
            \/ Off(state.remote)
            \/ /\ state.status # None /\ state.status # WaitingToStart
               /\ \/ state.status # Programmed
                  \/ Off(state.mobile)
                  \/ state.delay # None /\ state.delay > 0
      [] action \notin {"start", "stop"} -> FALSE

\* check_process_action_precondition; no other family has a button of a process action.
Refuses(family, state, action) ==
    \/ family = "dishwasher" /\ DishwasherRefuses(state, action)
    \/ family = "laundry" /\ LaundryRefuses(state, action)

\* BUTTONS.  Resume sends what start sends.
Buttons == [laundry |-> {"start", "stop"}, dishwasher |-> {"start", "stop", "pause"}]

\* send_process_action asks the appliance unless the cached state, if there is one,
\* rules the action out.
Sends(press) == press.state = None \/ ~ Refuses(press.family, press.state, press.action)

-----------------------------------------------------------------------------
(* What arrives and what is sent.                                          *)

\* The wire format, from the module comment of dop2.py: the first n fields of a leaf.
Two(n) == <<n \div 256, n % 256>>

Field(leaf, i) == Two(i) \o <<leaf[i].type>> \o leaf[i].value
Encoded(leaf) ==
    LET first[n \in 0..Len(leaf)] ==
            IF n = 0 THEN << >> ELSE first[n - 1] \o Field(leaf, n)
    IN first

Payload(leaf) ==
    <<0, 10, 0, 2, 0, 119, 0, 0, 0, 0>> \o Two(Len(leaf)) \o Encoded(leaf)[Len(leaf)]

Statuses == {None} \cup 1..6
Bits == {None} \cup {0, 1, 2, 15}
States == [status : Statuses, remote : Bits, mobile : Bits, delay : {None, 0, 30}]

Init == message = [kind |-> "nothing"]

Idle == message.kind = "nothing"

Body == Idle /\ \E tree \in Trees : message' = [kind |-> "body", tree |-> tree]
Leaf == Idle /\ \E leaf \in Leaves : \E lost \in 0..Len(Payload(leaf)) :
                    message' = [kind |-> "leaf", leaf |-> leaf, lost |-> lost]
Echo == Idle /\ \E framing \in Framings, id \in PfIds, value \in Values, lost \in 0..16 :
                    message' = [kind |-> "echo", framing |-> framing, id |-> id,
                                value |-> value, lost |-> lost]
Send == Idle /\ \E json \in BOOLEAN, len \in 0..MaxLength :
                    /\ json => len >= 2
                    /\ message' = [kind |-> "send", json |-> json, len |-> len]
Press == Idle /\ \E family \in DOMAIN Buttons, state \in States \cup {None} :
                    \E action \in Buttons[family] :
                        message' = [kind |-> "press", family |-> family, state |-> state,
                                    action |-> action]
Write == Idle /\ \E opcode \in Byte : message' = [kind |-> "write", opcode |-> opcode]
Handled == ~ Idle /\ message' = [kind |-> "nothing"]

Next == Body \/ Leaf \/ Echo \/ Send \/ Press \/ Write \/ Handled

Spec == Init /\ [][Next]_message

-----------------------------------------------------------------------------
(* Properties.                                                             *)

\* The attributes of the first k fields of a leaf.
Attributes(leaf, k) == [i \in 1..k |-> [index |-> i, value |-> leaf[i].value]]

\* A leaf that arrives cut gives the attributes that are there in full and no other, or
\* the error of a short header; one the integration writes gives the value it was to
\* carry, whatever fills its block (dop2.py:87-117, api.py:112-139).
LeavesReadBack ==
    /\ message.kind = "leaf" =>
        LET payload == Payload(message.leaf)
            cut == SubSeq(payload, 1, Len(payload) - message.lost)
            Whole(k) == 12 + Len(Encoded(message.leaf)[k]) <= Len(cut)
        IN IF Len(cut) < 12 THEN ParseSimpleLeaf(cut) = None
           ELSE \E k \in 0..Len(message.leaf) :
                    /\ Whole(k) /\ (k < Len(message.leaf) => ~ Whole(k + 1))
                    /\ ParseSimpleLeaf(cut) = Attributes(message.leaf, k)
    /\ message.kind = "write" =>
        /\ ParseSimpleLeaf(UserRequest(message.opcode)) =
                <<[index |-> 1, value |-> <<0, message.opcode>>]>>
        /\ \A on \in BOOLEAN :
                ParseSimpleLeaf(ApplianceState(on)) =
                    <<[index |-> 1, value |-> <<IF on THEN 4 ELSE 1>>]>>

\* Whole cipher blocks of 16 bytes that hold n bytes, of which one less would not.
FewestBlocks(size, n) == size % 16 = 0 /\ size >= n /\ size - 16 < n

\* A padded body is whole cipher blocks, the fewest that its form allows, and never
\* less than the body (api.py:89, enrollment.py:62, push_listener.py:104).
PaddingIsLeast ==
    message.kind = "send" /\ message.len > 0 =>
        /\ LET pad == PadRequestBody(message)
               least == IF message.json THEN 64 ELSE 16
           IN /\ pad.before >= 0 /\ pad.after >= 0
              /\ FewestBlocks(message.len + pad.before + pad.after, Max({least, message.len}))
        /\ LET pad == MielePad(message)
           IN /\ pad.before >= 0 /\ pad.after >= 0
              /\ FewestBlocks(message.len + pad.before + pad.after, Max({64, message.len}))

\* Whatever frames the echo of an id, its own value is read, and only with all three
\* numbers behind it (api.py:309-331).
EchoedValueIsRead ==
    message.kind = "echo" =>
        LET digits == message.framing \o message.id \o message.value
                        \o [i \in 1..(16 - message.lost) |-> 0]
            earlier == \E i \in Hits(digits, message.id, 0) :
                            i < Len(message.framing) /\ i % 2 = 0
        IN ~ earlier =>
            ParsePfValue(digits, message.id) =
                IF message.lost = 0 /\ Len(message.framing) % 2 = 0 THEN message.value
                ELSE None

\* Only positive evidence blocks a write (api.py:224-226): what is sent would be sent
\* too if any part of the cached state, or all of it, were not known.
UnknownNeverBlocks ==
    message.kind = "press" /\ message.state # None /\ Sends(message) =>
        /\ Sends([message EXCEPT !.state = None])
        /\ \A field \in DOMAIN message.state :
                Sends([message EXCEPT !.state = [@ EXCEPT ![field] = None]])
=============================================================================
