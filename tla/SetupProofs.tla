---------------------------- MODULE SetupProofs ----------------------------
(***************************************************************************)
(* Proofs about Setup, for any flows, households, accounts and earlier     *)
(* entries.  The inductive invariant follows a flow from backend to        *)
(* backend (LocalInv), says what the entries owe to the flows that made    *)
(* them (EntryInv), and why an open card stays right (CardInv).            *)
(***************************************************************************)
EXTENDS Setup, TLAPS

Steps == Forms \cup Awaits \cup {"unborn", "ended"}
Unasked == Forms \cup {"unborn", "exchange", "browse", "discover"}

Held(k) == [household |-> k.household, devices |-> k.devices] \in cloud[k.region]

LocalWinsFor(f) ==
    /\ flow[f].found # NoGroupKey
    /\ flow[f].wanted # {}
    /\ flow[f].found.household \notin flow[f].wanted
    => /\ flow[f].asked = Regions
       /\ \A r \in flow[f].heard : \A g \in cloud[r] : g.household \notin flow[f].wanted

\* A flow between its backends: nothing found, and what was heard is not of the LAN.
AskInv(f) ==
    /\ pc[f] \in Unasked =>
        /\ flow[f].asked = {} /\ flow[f].heard = {}
        /\ flow[f].fallback = NoGroupKey /\ flow[f].found = NoGroupKey
    /\ pc[f] = "ask" =>
        /\ flow[f].found = NoGroupKey
        /\ flow[f].fallback = NoGroupKey => flow[f].heard = {}
        /\ \A r \in flow[f].heard : \A g \in cloud[r] : g.household \notin flow[f].wanted

LocalInv(f) ==
    /\ flow[f].code \in {f, None}
    /\ pc[f] = "ended" <=> flow[f].result # "none"
    /\ AskInv(f)
    /\ flow[f].fallback # NoGroupKey => Held(flow[f].fallback)
    /\ flow[f].found # NoGroupKey => Held(flow[f].found)
    /\ pc[f] = "finish" => flow[f].found # NoGroupKey
    /\ LocalWinsFor(f)
    /\ flow[f].result = "groupkey_failed" => flow[f].raised \/ flow[f].heard = {}

EntryInv ==
    /\ \A e \in entries :
        /\ flow[e.flow].result = "created"
        /\ e.spelling = "lower" => e.household \in Lowercase
        /\ e.region # None => Held(e)
    /\ \A a, b \in entries : Id(a) = Id(b) \/ a.flow = b.flow => a = b

CardInv(f) ==
    pc[f] = "card" =>
        /\ Announces(flow[f].name)
        /\ flow[f].entry \in Flows
        /\ flow[flow[f].entry].result = "created"
        /\ \A e \in entries : flow[f].name # <<"listener", e.flow>>
        /\ \A e \in entries : e.flow = flow[f].entry =>
            flow[f].name \notin {<<"appliance", d>> : d \in e.devices}

IInv ==
    /\ TypeOK
    /\ EntryInv
    /\ \A f \in Flows : LocalInv(f) /\ CardInv(f)

-----------------------------------------------------------------------------
\* What every step of a flow has in common: the others stand still.
Moves(f) ==
    /\ cloud' = cloud
    /\ pc[f] # "ended"
    /\ \A g \in Flows \ {f} : pc'[g] = pc[g] /\ flow'[g] = flow[g]

\* Moving on to a step with new local variables.
LEMMA GoToMoves ==
    ASSUME TypeOK, NEW f \in Flows, NEW step \in Steps, NEW locals \in Locals,
           pc[f] # "ended", GoTo(f, step, locals), cloud' = cloud
    PROVE  /\ pc' \in [Flows -> Steps] /\ flow' \in [Flows -> Locals]
           /\ pc'[f] = step /\ flow'[f] = locals
           /\ Moves(f)
<1>1. pc' = [pc EXCEPT ![f] = step] /\ flow' = [flow EXCEPT ![f] = locals]
  BY DEF GoTo
<1>2. pc \in [Flows -> Steps] /\ flow \in [Flows -> Locals]
  BY DEF TypeOK, Steps
<1> QED BY <1>1, <1>2, Zenon DEF Moves

\* A flow that has created an entry does nothing any more.
LEMMA CreatedStays ==
    ASSUME IInv, NEW f \in Flows, Moves(f), NEW g \in Flows, flow[g].result = "created"
    PROVE  g # f /\ flow'[g].result = "created"
BY DEF IInv, LocalInv, Moves

\* The other flows keep their invariants.
LEMMA OthersKeep ==
    ASSUME IInv, NEW f \in Flows, Moves(f), NEW g \in Flows \ {f}
    PROVE  LocalInv(g)'
<1>1. LocalInv(g) /\ pc'[g] = pc[g] /\ flow'[g] = flow[g] /\ cloud' = cloud
  BY DEF IInv, Moves
<1> QED BY <1>1 DEF LocalInv, AskInv, Held, LocalWinsFor

\* Cards outlive whatever happens to entries: a new one is of another flow than any
\* card speaks of.
LEMMA CardsKeep ==
    ASSUME IInv, NEW f \in Flows, Moves(f),
           \A e \in entries' : e \in entries \/ e.flow = f,
           NEW g \in Flows, pc'[g] = "card" => g # f
    PROVE  CardInv(g)'
<1> SUFFICES ASSUME pc'[g] = "card"  PROVE CardInv(g)'
  BY DEF CardInv
<1>1. g # f /\ pc[g] = "card" /\ flow'[g] = flow[g]
  BY DEF Moves
<1>2. CardInv(g)
  BY DEF IInv
<1>3. Announces(flow[g].name)'
  BY <1>1, <1>2, CreatedStays DEF CardInv, Announces
<1>4. /\ flow'[g].entry \in Flows
      /\ flow'[flow'[g].entry].result = "created" /\ flow[g].entry # f
  BY <1>1, <1>2, CreatedStays DEF CardInv
<1>5. flow[f].result # "created"
  BY DEF IInv, LocalInv, Moves
<1>6. flow[g].name # <<"listener", f>>
  BY <1>1, <1>2, <1>5 DEF CardInv, Announces
<1>7. ASSUME NEW e \in entries'
      PROVE  /\ flow'[g].name # <<"listener", e.flow>>
             /\ e.flow = flow'[g].entry => flow'[g].name \notin {<<"appliance", d>> : d \in e.devices}
  <2>1. CASE e \in entries
    BY <1>1, <1>2, <2>1 DEF CardInv
  <2>2. CASE e.flow = f
    BY <1>1, <1>4, <1>6, <2>2
  <2> QED BY <2>1, <2>2
<1> QED BY <1>1, <1>2, <1>3, <1>4, <1>7 DEF CardInv, Announces

\* Entries that stay, or go, owe nothing new.
LEMMA EntriesKeep ==
    ASSUME IInv, NEW f \in Flows, Moves(f), entries' \subseteq entries
    PROVE  EntryInv'
<1>1. EntryInv /\ cloud' = cloud /\ \A e \in entries : e.flow \in Flows
  BY DEF IInv, Moves, TypeOK, Entries
<1>2. \A e \in entries' : flow'[e.flow].result = "created"
  BY <1>1, CreatedStays DEF EntryInv
<1>3. \A e \in entries' : e.spelling = "lower" => e.household \in Lowercase
  BY <1>1 DEF EntryInv
<1>4. \A e \in entries' : e.region # None => Held(e)'
  BY <1>1 DEF EntryInv, Held
<1>5. \A a, b \in entries' : Id(a)' = Id(b)' \/ a.flow = b.flow => a = b
  BY <1>1 DEF EntryInv, Id
<1> QED BY <1>2, <1>3, <1>4, <1>5 DEF EntryInv, Id

\* A step of one flow, from what it does to that flow.
LEMMA FlowStep ==
    ASSUME IInv, NEW f \in Flows, Moves(f), TypeOK', LocalInv(f)', EntryInv', CardInv(f)',
           \A e \in entries' : e \in entries \/ e.flow = f
    PROVE  IInv'
<1>1. ASSUME NEW g \in Flows PROVE LocalInv(g)' /\ CardInv(g)'
  <2>1. CASE g = f
    BY <2>1
  <2>2. CASE g # f
    BY <2>2, OthersKeep, CardsKeep
  <2> QED BY <2>1, <2>2
<1> QED BY <1>1 DEF IInv

\* A step that leaves the entries alone and shows no card.
LEMMA PlainStep ==
    ASSUME IInv, NEW f \in Flows, Moves(f), entries' = entries, LocalInv(f)', pc'[f] # "card",
           pc' \in [Flows -> Steps], flow' \in [Flows -> Locals],
           codes' \in [Flows -> {"none", "issued", "redeemed"}]
    PROVE  IInv'
<1>1. TypeOK'
  BY DEF IInv, TypeOK, Steps, Moves
<1>2. CardInv(f)'
  BY DEF CardInv
<1>3. EntryInv'
  BY EntriesKeep
<1> QED BY <1>1, <1>2, <1>3, FlowStep

Codes == [Flows -> {"none", "issued", "redeemed"}]

\* Moves before any backend is asked, up to the first question.
LEMMA QuietMove ==
    ASSUME IInv, NEW f \in Flows, NEW step \in (Unasked \cup {"ask"}) \ {"card"},
           NEW locals \in Locals, GoTo(f, step, locals), pc[f] \in Unasked,
           cloud' = cloud, entries' = entries, codes' \in Codes,
           locals.asked = flow[f].asked, locals.heard = flow[f].heard,
           locals.fallback = flow[f].fallback, locals.found = flow[f].found,
           locals.result = flow[f].result, locals.code \in {f, None}
    PROVE  IInv'
<1>1. TypeOK /\ LocalInv(f) /\ step \in Steps /\ pc[f] # "ended" /\ step # "ended" /\ step # "finish"
  BY DEF IInv, Steps, Unasked, Forms, Awaits
<1>2. /\ pc' \in [Flows -> Steps] /\ flow' \in [Flows -> Locals]
      /\ pc'[f] = step /\ flow'[f] = locals /\ Moves(f)
  BY <1>1, GoToMoves
<1>3. flow[f].result = "none" /\ flow[f].fallback = NoGroupKey /\ flow[f].found = NoGroupKey
      /\ flow[f].heard = {} /\ flow[f].asked = {}
  BY <1>1 DEF LocalInv, AskInv
<1>4. AskInv(f)'
  BY <1>2, <1>3 DEF AskInv
<1>5. LocalWinsFor(f)'
  BY <1>2, <1>3 DEF LocalWinsFor
<1>6. LocalInv(f)'
  BY <1>1, <1>2, <1>3, <1>4, <1>5 DEF LocalInv
<1> QED BY <1>2, <1>6, PlainStep DEF Codes

\* A flow that ends without an entry, before it has failed to find a group key.
LEMMA EndMove ==
    ASSUME IInv, NEW f \in Flows, pc[f] # "ended", cloud' = cloud, entries' = entries,
           codes' \in Codes,
           NEW reason \in {"closed", "oauth_failed", "already_configured", "reloaded"},
           End(f, reason)
    PROVE  IInv'
<1> DEFINE locals == [flow[f] EXCEPT !.result = reason]
<1>1. TypeOK /\ LocalInv(f) /\ flow[f] \in Locals
  BY DEF IInv, TypeOK
<1>2. locals \in Locals
  BY <1>1, Zenon DEF Locals, Results
<1>3. /\ pc' \in [Flows -> Steps] /\ flow' \in [Flows -> Locals]
      /\ pc'[f] = "ended" /\ flow'[f] = locals /\ Moves(f)
  BY <1>1, <1>2, GoToMoves DEF End, Steps
<1>4. /\ locals.result = reason /\ locals.code = flow[f].code /\ locals.asked = flow[f].asked
      /\ locals.heard = flow[f].heard /\ locals.fallback = flow[f].fallback
      /\ locals.found = flow[f].found /\ locals.wanted = flow[f].wanted
      /\ locals.raised = flow[f].raised
  BY <1>1, Zenon DEF Locals
<1> HIDE DEF locals
<1>5. LocalWinsFor(f)'
  BY <1>1, <1>3, <1>4 DEF LocalInv, LocalWinsFor, Moves
<1>6. AskInv(f)'
  BY <1>3 DEF AskInv, Unasked, Forms
<1>7. LocalInv(f)'
  BY <1>1, <1>3, <1>4, <1>5, <1>6 DEF LocalInv, Held, Moves
<1> QED BY <1>3, <1>7, PlainStep DEF Codes

\* Forms and awaits before the first backend.
LEMMA FormsStep ==
    ASSUME IInv, NEW f \in Flows,
           \/ Open(f)
           \/ \E form \in {"country", "tokens", "keys"} : Choose(f, form)
           \/ \E dc \in DataCentres : Country(f, dc) \/ Tokens(f, dc)
           \/ \E issuer \in Flows : Authorize(f, issuer)
           \/ \E h \in Households : DirectKeys(f, h)
           \/ LanGroupIds(f)
           \/ NoDevices(f)
    PROVE  IInv'
<1>1. TypeOK /\ LocalInv(f) /\ flow[f] \in Locals /\ codes \in Codes
  BY DEF IInv, TypeOK, Codes
<1>2. flow[f].code \in {f, None}
  BY <1>1 DEF LocalInv
<1>3. CASE Open(f)
  BY <1>1, <1>2, <1>3, QuietMove DEF Open, Unasked, Forms
<1>4. ASSUME NEW form \in {"country", "tokens", "keys"}, Choose(f, form) PROVE IInv'
  BY <1>1, <1>2, <1>4, QuietMove DEF Choose, Unasked, Forms
<1>5. ASSUME NEW dc \in DataCentres, Country(f, dc) \/ Tokens(f, dc) PROVE IInv'
  <2> DEFINE locals == [flow[f] EXCEPT !.dc = dc]
  <2>1. locals \in Locals
    BY <1>1, Zenon DEF Locals
  <2>2. /\ locals.asked = flow[f].asked /\ locals.heard = flow[f].heard
        /\ locals.fallback = flow[f].fallback /\ locals.found = flow[f].found
        /\ locals.result = flow[f].result /\ locals.code = flow[f].code
    BY <1>1, Zenon DEF Locals
  <2>3. \/ GoTo(f, "authorize", locals) /\ pc[f] = "country"
        \/ GoTo(f, "browse", locals) /\ pc[f] = "tokens"
    BY <1>5 DEF Country, Tokens
  <2>4. cloud' = cloud /\ entries' = entries /\ codes' \in Codes
    BY <1>1, <1>5 DEF Country, Tokens
  <2> HIDE DEF locals
  <2> QED BY <1>2, <2>1, <2>2, <2>3, <2>4, QuietMove DEF Unasked, Forms
<1>6. ASSUME NEW issuer \in Flows, Authorize(f, issuer) PROVE IInv'
  <2> DEFINE locals == [flow[f] EXCEPT !.code = issuer]
  <2>1. locals \in Locals
    BY <1>1, Zenon DEF Locals
  <2>2. /\ locals.asked = flow[f].asked /\ locals.heard = flow[f].heard
        /\ locals.fallback = flow[f].fallback /\ locals.found = flow[f].found
        /\ locals.result = flow[f].result /\ locals.code = issuer
    BY <1>1, Zenon DEF Locals
  <2>3. GoTo(f, "exchange", locals) /\ pc[f] = "authorize" /\ issuer = f
    BY <1>6 DEF Authorize, ParseRedirect
  <2>4. cloud' = cloud /\ entries' = entries /\ codes' \in Codes
    BY <1>1, <1>6 DEF Authorize
  <2> HIDE DEF locals
  <2> QED BY <2>1, <2>2, <2>3, <2>4, QuietMove DEF Unasked, Forms
<1>7. ASSUME NEW h \in Households, DirectKeys(f, h) PROVE IInv'
  <2> DEFINE locals == [flow[f] EXCEPT !.keysFor = h]
  <2>1. locals \in Locals
    BY <1>1, Zenon DEF Locals
  <2>2. /\ locals.asked = flow[f].asked /\ locals.heard = flow[f].heard
        /\ locals.fallback = flow[f].fallback /\ locals.found = flow[f].found
        /\ locals.result = flow[f].result /\ locals.code = flow[f].code
    BY <1>1, Zenon DEF Locals
  <2>3. GoTo(f, "discover", locals) /\ pc[f] = "keys"
    BY <1>7 DEF DirectKeys
  <2>4. cloud' = cloud /\ entries' = entries /\ codes' \in Codes
    BY <1>1, <1>7 DEF DirectKeys
  <2> HIDE DEF locals
  <2> QED BY <1>2, <2>1, <2>2, <2>3, <2>4, QuietMove DEF Unasked, Forms
<1>8. CASE LanGroupIds(f)
  <2>1. PICK seen \in SUBSET Advertised : GoTo(f, "ask", [flow[f] EXCEPT !.wanted = seen])
    BY <1>8 DEF LanGroupIds
  <2>2. seen \in SUBSET Households
    BY <1>1, HouseholdsAssumption DEF Advertised, TypeOK, Entries
  <2> DEFINE locals == [flow[f] EXCEPT !.wanted = seen]
  <2>3. locals \in Locals
    BY <1>1, <2>2, Zenon DEF Locals
  <2>4. /\ locals.asked = flow[f].asked /\ locals.heard = flow[f].heard
        /\ locals.fallback = flow[f].fallback /\ locals.found = flow[f].found
        /\ locals.result = flow[f].result /\ locals.code = flow[f].code
    BY <1>1, Zenon DEF Locals
  <2>5. pc[f] = "browse" /\ cloud' = cloud /\ entries' = entries /\ codes' \in Codes
    BY <1>1, <1>8 DEF LanGroupIds
  <2>6. GoTo(f, "ask", locals)
    BY <2>1
  <2> HIDE DEF locals
  <2> QED BY <1>2, <2>3, <2>4, <2>5, <2>6, QuietMove DEF Unasked, Forms
<1>9. CASE NoDevices(f)
  BY <1>1, <1>2, <1>9, QuietMove DEF NoDevices, Unasked, Forms
<1> QED BY <1>3, <1>4, <1>5, <1>6, <1>7, <1>8, <1>9

\* The exchange leaves the flow where it is or ends it.
LEMMA ExchangeStep ==
    ASSUME IInv, NEW f \in Flows, ExchangeCode(f)
    PROVE  IInv'
<1>1. TypeOK /\ LocalInv(f) /\ flow[f] \in Locals /\ codes \in Codes /\ flow[f].code \in {f, None}
  BY DEF IInv, TypeOK, Codes, LocalInv
<1>2. codes' \in Codes
  BY <1>1 DEF ExchangeCode, Codes
<1>3. cloud' = cloud /\ entries' = entries /\ pc[f] = "exchange"
  BY DEF ExchangeCode
<1>4. CASE GoTo(f, "browse", flow[f])
  BY <1>1, <1>2, <1>3, <1>4, QuietMove DEF Unasked
<1>5. CASE End(f, "oauth_failed")
  BY <1>2, <1>3, <1>5, EndMove
<1> QED BY <1>4, <1>5 DEF ExchangeCode

LEMMA LoginStep ==
    ASSUME IInv, NEW f \in Flows, Login(f)
    PROVE  IInv'
<1>1. TypeOK /\ Moves(f) /\ LocalInv(f) /\ pc[f] = "authorize"
  BY DEF IInv, Login, Moves
<1>2. codes' \in Codes
  BY <1>1 DEF Login, TypeOK, Codes
<1>3. LocalInv(f)'
  BY <1>1 DEF Login, LocalInv, AskInv, Held, LocalWinsFor
<1> QED BY <1>1, <1>2, <1>3, PlainStep DEF Login, TypeOK, Steps, Codes

LEMMA CloseStep ==
    ASSUME IInv, NEW f \in Flows, Close(f) \/ ConfirmCard(f)
    PROVE  IInv'
<1>1. pc[f] # "ended" /\ cloud' = cloud /\ entries' = entries /\ codes' \in Codes
  BY DEF Close, ConfirmCard, Forms, IInv, TypeOK, Codes
<1> QED BY <1>1, EndMove DEF Close, ConfirmCard


-----------------------------------------------------------------------------
(* The walk over the backends.                                              *)

LEMMA CandidateIsRegion ==
    ASSUME TypeOK, NEW f \in Flows
    PROVE  Candidate(f) \in Regions
BY DEF TypeOK, Candidate, RegionCandidates, Regions

\* Going on with an answer that was not the LAN's, or none at all.
LEMMA ContinueKeeps ==
    ASSUME IInv, NEW f \in Flows, pc[f] = "ask", NEW locals \in Locals, Continue(f, locals),
           cloud' = cloud, entries' = entries, codes' = codes,
           locals.code \in {f, None}, locals.result = "none", locals.found = NoGroupKey,
           locals.fallback = NoGroupKey => locals.heard = {},
           locals.fallback # NoGroupKey => Held(locals.fallback),
           \A r \in locals.heard : \A g \in cloud[r] : g.household \notin locals.wanted
    PROVE  IInv'
<1>1. TypeOK /\ codes' \in Codes
  BY DEF IInv, TypeOK, Codes
<1>2. CASE locals.asked # Regions
  <2>1. GoTo(f, "ask", locals)
    BY <1>2 DEF Continue
  <2>2. /\ pc' \in [Flows -> Steps] /\ flow' \in [Flows -> Locals]
        /\ pc'[f] = "ask" /\ flow'[f] = locals /\ Moves(f)
    BY <1>1, <2>1, GoToMoves DEF Steps, Awaits
  <2>3. AskInv(f)'
    BY <2>2 DEF AskInv, Unasked, Forms
  <2>4. LocalInv(f)'
    BY <2>2, <2>3 DEF LocalInv, LocalWinsFor, Held
  <2> QED BY <1>1, <2>2, <2>4, PlainStep DEF Codes
<1>3. CASE locals.asked = Regions /\ locals.fallback # NoGroupKey
  <2> DEFINE last == [locals EXCEPT !.found = locals.fallback]
  <2>1. GoTo(f, "finish", last)
    BY <1>3 DEF Continue, AfterLast
  <2>2. last \in Locals
    BY Zenon DEF Locals
  <2>3. /\ last.found = locals.fallback /\ last.fallback = locals.fallback
        /\ last.asked = locals.asked /\ last.heard = locals.heard
        /\ last.wanted = locals.wanted /\ last.result = locals.result
        /\ last.code = locals.code
    BY Zenon DEF Locals
  <2> HIDE DEF last
  <2>4. /\ pc' \in [Flows -> Steps] /\ flow' \in [Flows -> Locals]
        /\ pc'[f] = "finish" /\ flow'[f] = last /\ Moves(f)
    BY <1>1, <2>1, <2>2, GoToMoves DEF Steps, Awaits
  <2>5. AskInv(f)'
    BY <2>4 DEF AskInv, Unasked, Forms
  <2>6. LocalWinsFor(f)'
    BY <1>3, <2>3, <2>4 DEF LocalWinsFor
  <2>7. LocalInv(f)'
    BY <1>3, <2>3, <2>4, <2>5, <2>6 DEF LocalInv, Held
  <2> QED BY <1>1, <2>4, <2>7, PlainStep DEF Codes
<1>4. CASE locals.asked = Regions /\ locals.fallback = NoGroupKey
  <2> DEFINE last == [locals EXCEPT !.result = "groupkey_failed"]
  <2>1. GoTo(f, "ended", last)
    BY <1>4 DEF Continue, AfterLast
  <2>2. last \in Locals
    BY Zenon DEF Locals, Results
  <2>3. /\ last.found = locals.found /\ last.fallback = locals.fallback
        /\ last.heard = locals.heard /\ last.result = "groupkey_failed"
        /\ last.code = locals.code
    BY Zenon DEF Locals
  <2> HIDE DEF last
  <2>4. /\ pc' \in [Flows -> Steps] /\ flow' \in [Flows -> Locals]
        /\ pc'[f] = "ended" /\ flow'[f] = last /\ Moves(f)
    BY <1>1, <2>1, <2>2, GoToMoves DEF Steps
  <2>5. AskInv(f)' /\ LocalWinsFor(f)'
    BY <2>3, <2>4 DEF AskInv, Unasked, Forms, LocalWinsFor
  <2>6. LocalInv(f)'
    BY <1>4, <2>3, <2>4, <2>5 DEF LocalInv
  <2> QED BY <1>1, <2>4, <2>6, PlainStep DEF Codes
<1> QED BY <1>2, <1>3, <1>4

LEMMA AskNoneStep ==
    ASSUME IInv, NEW f \in Flows, AskNone(f)
    PROVE  IInv'
<1> DEFINE locals == [flow[f] EXCEPT !.asked = @ \cup {Candidate(f)}]
<1>1. TypeOK /\ LocalInv(f) /\ AskInv(f) /\ flow[f] \in Locals /\ pc[f] = "ask"
  BY DEF IInv, TypeOK, AskNone, LocalInv
<1>2. flow[f].asked \cup {Candidate(f)} \in SUBSET Regions
  BY <1>1, CandidateIsRegion DEF Locals
<1>3. locals \in Locals
  BY <1>1, <1>2, Zenon DEF Locals
<1>4. /\ locals.heard = flow[f].heard /\ locals.fallback = flow[f].fallback
      /\ locals.found = flow[f].found /\ locals.wanted = flow[f].wanted
      /\ locals.result = flow[f].result /\ locals.code = flow[f].code
  BY <1>1, Zenon DEF Locals
<1>5. Continue(f, locals) /\ cloud' = cloud /\ entries' = entries /\ codes' = codes
  BY DEF AskNone
<1> HIDE DEF locals
<1>6. /\ locals.code \in {f, None} /\ locals.result = "none" /\ locals.found = NoGroupKey
      /\ locals.fallback = NoGroupKey => locals.heard = {}
      /\ locals.fallback # NoGroupKey => Held(locals.fallback)
      /\ \A r \in locals.heard : \A g \in cloud[r] : g.household \notin locals.wanted
  BY <1>1, <1>4 DEF LocalInv, AskInv
<1> QED BY <1>1, <1>3, <1>5, <1>6, ContinueKeeps

LEMMA AskRaisesStep ==
    ASSUME IInv, NEW f \in Flows, AskRaises(f)
    PROVE  IInv'
<1> DEFINE locals == [flow[f] EXCEPT !.raised = TRUE, !.result = "groupkey_failed"]
<1>1. TypeOK /\ LocalInv(f) /\ AskInv(f) /\ flow[f] \in Locals /\ pc[f] = "ask"
  BY DEF IInv, TypeOK, AskRaises, LocalInv
<1>2. locals \in Locals
  BY <1>1, Zenon DEF Locals, Results
<1>3. /\ locals.raised = TRUE /\ locals.result = "groupkey_failed"
      /\ locals.fallback = flow[f].fallback /\ locals.found = flow[f].found
      /\ locals.code = flow[f].code
  BY <1>1, Zenon DEF Locals, Results
<1>4. GoTo(f, "ended", locals) /\ cloud' = cloud /\ entries' = entries /\ codes' = codes
  BY DEF AskRaises
<1> HIDE DEF locals
<1>5. /\ pc' \in [Flows -> Steps] /\ flow' \in [Flows -> Locals]
      /\ pc'[f] = "ended" /\ flow'[f] = locals /\ Moves(f)
  BY <1>1, <1>2, <1>4, GoToMoves DEF Steps
<1>6. AskInv(f)' /\ LocalWinsFor(f)'
  BY <1>1, <1>3, <1>5 DEF AskInv, Unasked, Forms, LocalWinsFor
<1>7. LocalInv(f)'
  BY <1>1, <1>3, <1>4, <1>5, <1>6 DEF LocalInv, Held
<1> QED BY <1>1, <1>4, <1>5, <1>7, PlainStep DEF Codes, TypeOK

LEMMA AskAnswersStep ==
    ASSUME IInv, NEW f \in Flows, AskAnswers(f)
    PROVE  IInv'
<1> DEFINE c == Candidate(f)
<1> DEFINE heard == [flow[f] EXCEPT !.asked = @ \cup {c}, !.heard = @ \cup {c}]
<1>1. TypeOK /\ LocalInv(f) /\ AskInv(f) /\ flow[f] \in Locals /\ pc[f] = "ask"
  BY DEF IInv, TypeOK, AskAnswers, LocalInv
<1>2. c \in Regions /\ cloud[c] \in SUBSET Listed
  BY <1>1, CandidateIsRegion, CloudsAssumption DEF TypeOK
<1>3. cloud' = cloud /\ entries' = entries /\ codes' = codes /\ codes' \in Codes
  BY <1>1 DEF AskAnswers, TypeOK, Codes
<1>4. PICK group \in PickHousehold(cloud[c], flow[f].wanted) :
        IF flow[f].wanted = {} \/ group.household \in flow[f].wanted
        THEN GoTo(f, "finish", [heard EXCEPT !.found = AsGroupKey(group, c)])
        ELSE Continue(f, [heard EXCEPT !.fallback = KeptAside(f, AsGroupKey(group, c))])
  BY DEF AskAnswers
<1> DEFINE key == AsGroupKey(group, c)
<1>5. group \in cloud[c] /\ group \in Listed
  BY <1>2, <1>4 DEF PickHousehold
<1>6. /\ key \in GroupKeys /\ key # NoGroupKey /\ key.household = group.household
      /\ key.devices = group.devices /\ key.region = c
  BY <1>2, <1>5 DEF AsGroupKey, GroupKeys, NoGroupKey, Listed, Regions, None
<1>7. Held(key)
  <2>1. group = [household |-> group.household, devices |-> group.devices]
    BY <1>5 DEF Listed
  <2> QED BY <1>5, <1>6, <2>1 DEF Held
<1>8. flow[f].asked \cup {c} \in SUBSET Regions /\ flow[f].heard \cup {c} \in SUBSET Regions
  BY <1>1, <1>2 DEF Locals
<1>9. heard \in Locals
  BY <1>1, <1>8, Zenon DEF Locals
<1>10. /\ heard.heard = flow[f].heard \cup {c} /\ heard.fallback = flow[f].fallback
       /\ heard.found = flow[f].found /\ heard.wanted = flow[f].wanted
       /\ heard.result = flow[f].result /\ heard.code = flow[f].code
  BY <1>1, Zenon DEF Locals
<1> HIDE DEF heard, key, c
<1>11. CASE flow[f].wanted = {} \/ group.household \in flow[f].wanted
  <2> DEFINE locals == [heard EXCEPT !.found = key]
  <2>1. GoTo(f, "finish", locals)
    BY <1>4, <1>11 DEF key
  <2>2. locals \in Locals
    BY <1>6, <1>9, Zenon DEF Locals
  <2>3. /\ locals.found = key /\ locals.fallback = heard.fallback
        /\ locals.wanted = heard.wanted /\ locals.result = heard.result
        /\ locals.code = heard.code
    BY <1>9, Zenon DEF Locals
  <2> HIDE DEF locals
  <2>4. /\ pc' \in [Flows -> Steps] /\ flow' \in [Flows -> Locals]
        /\ pc'[f] = "finish" /\ flow'[f] = locals /\ Moves(f)
    BY <1>1, <1>3, <2>1, <2>2, GoToMoves DEF Steps, Awaits
  <2>5. AskInv(f)'
    BY <2>4 DEF AskInv, Unasked, Forms
  <2>6. LocalWinsFor(f)'
    BY <1>6, <1>10, <1>11, <2>3, <2>4 DEF LocalWinsFor
  <2>7. Held(locals.found)
    BY <1>7, <2>3
  <2>8. locals.fallback # NoGroupKey => Held(locals.fallback)
    BY <1>1, <1>10, <2>3 DEF LocalInv
  <2>9. locals.code \in {f, None} /\ locals.result = "none"
    BY <1>1, <1>10, <2>3 DEF LocalInv
  <2>10. LocalInv(f)'
    BY <1>3, <1>6, <2>3, <2>4, <2>5, <2>6, <2>7, <2>8, <2>9 DEF LocalInv, Held
  <2> QED BY <1>3, <2>4, <2>10, PlainStep DEF Codes
<1>12. CASE ~(flow[f].wanted = {} \/ group.household \in flow[f].wanted)
  <2> DEFINE kept == KeptAside(f, key)
  <2> DEFINE locals == [heard EXCEPT !.fallback = kept]
  <2>1. Continue(f, locals)
    BY <1>4, <1>12 DEF key
  <2>2. kept \in GroupKeys /\ kept # NoGroupKey /\ Held(kept)
    BY <1>1, <1>6, <1>7, Zenon DEF KeptAside, LocalInv, Locals
  <2> HIDE DEF kept
  <2>3. locals \in Locals
    BY <1>9, <2>2, Zenon DEF Locals
  <2>4. /\ locals.fallback = kept /\ locals.found = heard.found /\ locals.heard = heard.heard
        /\ locals.wanted = heard.wanted /\ locals.result = heard.result
        /\ locals.code = heard.code
    BY <1>9, Zenon DEF Locals
  <2> HIDE DEF locals
  <2>5. \A g \in cloud[c] : g.household \notin flow[f].wanted
    BY <1>4, <1>12 DEF PickHousehold
  <2>6. \A r \in locals.heard : \A g \in cloud[r] : g.household \notin locals.wanted
    BY <1>1, <1>10, <2>4, <2>5 DEF AskInv
  <2>7. locals.code \in {f, None} /\ locals.result = "none" /\ locals.found = NoGroupKey
    BY <1>1, <1>10, <2>4 DEF LocalInv, AskInv
  <2> QED BY <1>1, <1>3, <2>1, <2>2, <2>3, <2>4, <2>6, <2>7, ContinueKeeps
<1> QED BY <1>11, <1>12


-----------------------------------------------------------------------------
(* Entries and cards.                                                       *)

\* An entry is made by a flow that has not ended, from an id that has none.
LEMMA CreateKeeps ==
    ASSUME IInv, NEW f \in Flows, pc[f] # "ended", cloud' = cloud, codes' = codes,
           NEW household \in Households, NEW spelling \in Spellings,
           NEW region \in Regions \cup {None}, NEW devices \in SUBSET Fabs,
           spelling = "lower" => household \in Lowercase,
           region # None => [household |-> household, devices |-> devices] \in cloud[region],
           CreateEntry(f, household, spelling, region, devices)
    PROVE  IInv'
<1>1. TypeOK /\ EntryInv /\ LocalInv(f) /\ flow[f] \in Locals /\ codes' \in Codes
  BY DEF IInv, TypeOK, Codes
<1>2. CASE ~AbortIfConfigured(household, spelling)
  BY <1>1, <1>2, EndMove DEF CreateEntry
<1>3. CASE AbortIfConfigured(household, spelling)
  <2> DEFINE locals == [flow[f] EXCEPT !.result = "created"]
  <2> DEFINE new == [flow |-> f, household |-> household, spelling |-> spelling,
                     region |-> region, devices |-> devices]
  <2>1. locals \in Locals
    BY <1>1, Zenon DEF Locals, Results
  <2>2. /\ locals.result = "created" /\ locals.code = flow[f].code
        /\ locals.asked = flow[f].asked /\ locals.heard = flow[f].heard
        /\ locals.fallback = flow[f].fallback /\ locals.found = flow[f].found
        /\ locals.wanted = flow[f].wanted
    BY <1>1, Zenon DEF Locals, Results
  <2>3. GoTo(f, "ended", locals) /\ entries' = entries \cup {new}
    BY <1>3 DEF CreateEntry, End
  <2> HIDE DEF locals
  <2>4. /\ pc' \in [Flows -> Steps] /\ flow' \in [Flows -> Locals]
        /\ pc'[f] = "ended" /\ flow'[f] = locals /\ Moves(f)
    BY <1>1, <2>1, <2>3, GoToMoves DEF Steps
  <2>5. new \in Entries
    BY DEF Entries
  <2>6. TypeOK'
    BY <1>1, <2>3, <2>4, <2>5 DEF TypeOK, Steps, Codes
  <2>7. AskInv(f)' /\ LocalWinsFor(f)'
    BY <1>1, <2>2, <2>4 DEF AskInv, Unasked, Forms, LocalInv, LocalWinsFor
  <2>8. LocalInv(f)'
    BY <1>1, <2>2, <2>4, <2>7 DEF LocalInv, Held
  <2>9. \A e \in entries : e.flow # f /\ e.flow \in Flows /\ flow'[e.flow].result = "created"
    BY <1>1, <2>4, CreatedStays DEF EntryInv, TypeOK, Entries
  <2>10. \A e \in entries' :
            /\ flow'[e.flow].result = "created"
            /\ e.spelling = "lower" => e.household \in Lowercase
            /\ e.region # None => Held(e)'
    <3> SUFFICES ASSUME NEW e \in entries'
                 PROVE  /\ flow'[e.flow].result = "created"
                        /\ e.spelling = "lower" => e.household \in Lowercase
                        /\ e.region # None => Held(e)'
      OBVIOUS
    <3>1. CASE e \in entries
      BY <1>1, <2>9, <3>1 DEF EntryInv, Held
    <3>2. CASE e = new
      BY <2>2, <2>4, <3>2 DEF Held
    <3> QED BY <2>3, <3>1, <3>2
  <2>11. \A e \in entries : Id(e) # Id(new) /\ e.flow # new.flow
    BY <1>3, <2>9 DEF AbortIfConfigured, Id
  <2>12. \A a, b \in entries' : Id(a) = Id(b) \/ a.flow = b.flow => a = b
    BY <1>1, <2>3, <2>11 DEF EntryInv
  <2>13. EntryInv'
    BY <2>10, <2>12 DEF EntryInv, Id
  <2>14. CardInv(f)'
    BY <2>4 DEF CardInv
  <2>15. \A e \in entries' : e \in entries \/ e.flow = f
    BY <2>3
  <2> QED BY <2>4, <2>6, <2>8, <2>13, <2>14, <2>15, FlowStep
<1> QED BY <1>2, <1>3

LEMMA FinaliseStep ==
    ASSUME IInv, NEW f \in Flows, FinaliseCloud(f)
    PROVE  IInv'
<1>1. TypeOK /\ LocalInv(f) /\ pc[f] = "finish" /\ flow[f] \in Locals
  BY DEF IInv, FinaliseCloud, TypeOK
<1>2. flow[f].found \in GroupKeys /\ Held(flow[f].found)
  BY <1>1 DEF LocalInv, Locals
<1>3. Spelled(flow[f].found.household) \in Spellings
      /\ (Spelled(flow[f].found.household) = "lower" => flow[f].found.household \in Lowercase)
  BY DEF Spelled, Spellings
<1>4. /\ flow[f].found.household \in Households /\ flow[f].found.region \in Regions
      /\ flow[f].found.devices \in SUBSET Fabs
  BY <1>2 DEF GroupKeys
<1>5. CreateEntry(f, flow[f].found.household, Spelled(flow[f].found.household),
                  flow[f].found.region, flow[f].found.devices)
      /\ cloud' = cloud /\ codes' = codes
  BY DEF FinaliseCloud
<1> QED BY <1>1, <1>2, <1>3, <1>4, <1>5, CreateKeeps DEF Held

LEMMA DiscoveredStep ==
    ASSUME IInv, NEW f \in Flows, Discovered(f)
    PROVE  IInv'
<1>1. pc[f] = "discover" /\ flow[f].keysFor \in Households /\ cloud' = cloud /\ codes' = codes
  BY HouseholdsAssumption DEF Discovered
<1>2. PICK devices \in SUBSET Fabs : CreateEntry(f, flow[f].keysFor, "upper", None, devices)
  BY DEF Discovered
<1> QED BY <1>1, <1>2, CreateKeeps DEF Spellings

LEMMA ZeroconfStep ==
    ASSUME IInv, NEW f \in Flows, NEW household \in Households, NEW name \in Names,
           Zeroconf(f, household, name)
    PROVE  IInv'
<1>1. TypeOK /\ EntryInv /\ LocalInv(f) /\ AskInv(f) /\ pc[f] = "unborn" /\ flow[f] \in Locals
  BY DEF IInv, Zeroconf, TypeOK, LocalInv
<1>2. PICK e \in entries :
        /\ Newcomer(e, name)
        /\ GoTo(f, "card", [flow[f] EXCEPT !.keysFor = household, !.name = name, !.entry = e.flow])
  BY DEF Zeroconf
<1> DEFINE locals == [flow[f] EXCEPT !.keysFor = household, !.name = name, !.entry = e.flow]
<1>3. e.flow \in Flows /\ flow[e.flow].result = "created"
  BY <1>1 DEF TypeOK, Entries, EntryInv
<1>4. locals \in Locals
  BY <1>1, <1>3, Zenon DEF Locals
<1>5. /\ locals.name = name /\ locals.entry = e.flow /\ locals.result = flow[f].result
      /\ locals.code = flow[f].code /\ locals.asked = flow[f].asked
      /\ locals.heard = flow[f].heard /\ locals.fallback = flow[f].fallback
      /\ locals.found = flow[f].found
  BY <1>1, <1>3, Zenon DEF Locals
<1>6. GoTo(f, "card", locals) /\ cloud' = cloud /\ codes' = codes /\ entries' = entries
  BY <1>2 DEF Zeroconf
<1> HIDE DEF locals
<1>7. /\ pc' \in [Flows -> Steps] /\ flow' \in [Flows -> Locals]
      /\ pc'[f] = "card" /\ flow'[f] = locals /\ Moves(f)
  BY <1>1, <1>4, <1>6, GoToMoves DEF Steps, Forms
<1>8. AskInv(f)' /\ LocalWinsFor(f)'
  BY <1>1, <1>5, <1>7 DEF AskInv, Unasked, LocalWinsFor
<1>9. LocalInv(f)'
  BY <1>1, <1>5, <1>7, <1>8 DEF LocalInv, AskInv, Unasked
<1>10. TypeOK'
  BY <1>1, <1>6, <1>7 DEF TypeOK, Steps
<1>11. EntryInv'
  BY <1>6, <1>7, EntriesKeep
<1>12. \A own \in Flows : flow[own].result = "created" => flow'[own].result = "created"
  BY <1>7, CreatedStays
<1>13. Announces(name)'
  BY <1>12 DEF Zeroconf, Announces
<1>14. \A d \in entries : d.flow = e.flow => d = e
  BY <1>1 DEF EntryInv
<1>15. \A own \in entries : name # <<"listener", own.flow>>
  BY <1>2 DEF Newcomer
<1>16. name \notin {<<"appliance", d>> : d \in e.devices}
  BY <1>2 DEF Newcomer
<1>17. CardInv(f)'
  BY <1>3, <1>5, <1>6, <1>7, <1>12, <1>13, <1>14, <1>15, <1>16 DEF CardInv, Announces
<1> QED BY <1>6, <1>7, <1>9, <1>10, <1>11, <1>17, FlowStep

\* The user's removal of an entry is no flow's step.
LEMMA RemoveStep ==
    ASSUME IInv, NEW e \in entries, Remove(e)
    PROVE  IInv'
<1>1. entries' \subseteq entries /\ pc' = pc /\ flow' = flow /\ codes' = codes /\ cloud' = cloud
  BY DEF Remove
<1>2. TypeOK'
  BY <1>1 DEF IInv, TypeOK
<1>3. EntryInv'
  BY <1>1 DEF IInv, EntryInv, Held, Id
<1>4. \A f \in Flows : LocalInv(f)'
  BY <1>1 DEF IInv, LocalInv, AskInv, Held, LocalWinsFor
<1>5. \A f \in Flows : CardInv(f)'
  BY <1>1 DEF IInv, CardInv, Announces
<1> QED BY <1>2, <1>3, <1>4, <1>5 DEF IInv

-----------------------------------------------------------------------------
LEMMA InitIInv == Init => IInv
<1> SUFFICES ASSUME Init PROVE IInv
  OBVIOUS
<1>1. NewFlow \in Locals /\ [NewFlow EXCEPT !.result = "created"] \in Locals
  BY Zenon DEF NewFlow, Locals, DataCentres, Results
<1>2. /\ NewFlow.asked = {} /\ NewFlow.heard = {} /\ NewFlow.fallback = NoGroupKey
      /\ NewFlow.found = NoGroupKey /\ NewFlow.result = "none" /\ NewFlow.code = None
  BY DEF NewFlow
<1>3. \A f \in Flows : (\E e \in Before : e.flow = f) =>
        /\ pc[f] = "ended" /\ flow[f] = [NewFlow EXCEPT !.result = "created"]
  BY DEF Init
<1>4. \A f \in Flows : ~(\E e \in Before : e.flow = f) => pc[f] = "unborn" /\ flow[f] = NewFlow
  BY DEF Init
<1>5. /\ [NewFlow EXCEPT !.result = "created"].asked = {}
      /\ [NewFlow EXCEPT !.result = "created"].heard = {}
      /\ [NewFlow EXCEPT !.result = "created"].fallback = NoGroupKey
      /\ [NewFlow EXCEPT !.result = "created"].found = NoGroupKey
      /\ [NewFlow EXCEPT !.result = "created"].result = "created"
      /\ [NewFlow EXCEPT !.result = "created"].code = None
  BY DEF NewFlow
<1>6. entries = Before /\ Before \subseteq Entries
  BY BeforeAssumption DEF Init
<1>7. TypeOK
  <2>1. pc \in [Flows -> Forms \cup Awaits \cup {"unborn", "ended"}]
    BY DEF Init
  <2>2. flow \in [Flows -> Locals]
    BY <1>1 DEF Init
  <2>3. codes \in [Flows -> {"none", "issued", "redeemed"}] /\ cloud \in Clouds
    BY DEF Init
  <2> QED BY <1>6, <2>1, <2>2, <2>3 DEF TypeOK
<1>8. EntryInv
  BY <1>3, <1>5, <1>6, BeforeAssumption DEF EntryInv, Entries, Id
<1>9. ASSUME NEW f \in Flows PROVE LocalInv(f) /\ CardInv(f)
  <2>1. pc[f] \in {"ended", "unborn"} /\ (pc[f] = "ended" <=> flow[f].result # "none")
    BY <1>2, <1>3, <1>4, <1>5
  <2>2. /\ flow[f].asked = {} /\ flow[f].heard = {} /\ flow[f].fallback = NoGroupKey
        /\ flow[f].found = NoGroupKey /\ flow[f].code = None
        /\ flow[f].result \in {"none", "created"}
    BY <1>2, <1>3, <1>4, <1>5
  <2> QED BY <2>1, <2>2 DEF LocalInv, AskInv, LocalWinsFor, CardInv
<1> QED BY <1>7, <1>8, <1>9 DEF IInv

LEMMA StepIInv == IInv /\ [Next]_vars => IInv'
<1> SUFFICES ASSUME IInv, [Next]_vars PROVE IInv'
  OBVIOUS
<1>1. ASSUME NEW f \in Flows, Step(f) PROVE IInv'
  BY <1>1, ExchangeStep, FormsStep, AskRaisesStep, AskNoneStep, AskAnswersStep, FinaliseStep,
     DiscoveredStep DEF Step
<1>2. ASSUME NEW f \in Flows, User(f) PROVE IInv'
  <2>1. CASE \E h \in Households, name \in Names : Zeroconf(f, h, name)
    BY <2>1, ZeroconfStep
  <2>2. CASE Login(f) \/ Close(f) \/ ConfirmCard(f)
    BY <2>2, LoginStep, CloseStep
  <2> QED BY <1>2, <2>1, <2>2, FormsStep DEF User
<1>3. ASSUME NEW e \in entries, Remove(e) PROVE IInv'
  BY <1>3, RemoveStep
<1>4. CASE UNCHANGED vars
  <2>1. entries' = entries /\ pc' = pc /\ flow' = flow /\ codes' = codes /\ cloud' = cloud
    BY <1>4 DEF vars
  <2> QED BY <2>1 DEF IInv, TypeOK, EntryInv, LocalInv, AskInv, Held, LocalWinsFor, CardInv,
              Announces, Id
<1> QED BY <1>1, <1>2, <1>3, <1>4 DEF Next, AllEnded

\* The strengthened invariant.
LEMMA Invariance == Spec => []IInv
BY InitIInv, StepIInv, PTL DEF Spec

-----------------------------------------------------------------------------
\* Types of the entries, the forms, the flows' variables and the login codes.
THEOREM TypeCorrect == Spec => []TypeOK
<1>1. IInv => TypeOK
  BY DEF IInv
<1> QED BY <1>1, Invariance, PTL

\* Two entries for one household are spelled differently (config_flow.py:193-194).
THEOREM DuplicatesSpelled == Spec => []DuplicatesAreSpellings
<1>1. IInv => DuplicatesAreSpellings
  <2> SUFFICES ASSUME IInv, NEW a \in entries, NEW b \in entries,
                      a.household = b.household, a # b
               PROVE  a.household \in Lowercase /\ a.spelling # b.spelling
    BY DEF DuplicatesAreSpellings
  <2>1. Id(a) # Id(b)
    BY DEF IInv, EntryInv
  <2>2. a.spelling # b.spelling
    BY <2>1 DEF Id
  <2>3. a.spelling \in {"upper", "lower"} /\ b.spelling \in {"upper", "lower"}
    BY DEF IInv, TypeOK, Entries, Spellings
  <2>4. /\ a.spelling = "lower" => a.household \in Lowercase
        /\ b.spelling = "lower" => b.household \in Lowercase
    BY DEF IInv, EntryInv
  <2> QED BY <2>2, <2>3, <2>4
<1> QED BY <1>1, Invariance, PTL

\* A household that is not on the LAN is taken only when no backend that answered
\* holds one that is (cloud.py:428-463).
THEOREM LocalHouseholdWins == Spec => []LocalWins
<1>1. IInv => LocalWins
  BY DEF IInv, LocalInv, LocalWinsFor, LocalWins
<1> QED BY <1>1, Invariance, PTL

\* A flow that gives up on the group key heard of none, or a backend failed.
THEOREM GivesUpWithCause == Spec => []FailureHasCause
<1>1. IInv => FailureHasCause
  BY DEF IInv, LocalInv, FailureHasCause
<1> QED BY <1>1, Invariance, PTL

\* The region an entry records is the one that holds its household (cloud.py:437).
THEOREM RegionIsRight == Spec => []RegionHolds
<1>1. IInv => RegionHolds
  BY DEF IInv, EntryInv, Held, RegionHolds
<1> QED BY <1>1, Invariance, PTL

\* An open card stays one for a newcomer, whatever entries come and go.
THEOREM CardsStayRight == Spec => []CardsAreNewcomers
<1>1. IInv => CardsAreNewcomers
  BY DEF IInv, CardInv, CardsAreNewcomers
<1> QED BY <1>1, Invariance, PTL

-----------------------------------------------------------------------------
(* The flows implement Onboarding.                                          *)

OpenFlows == {f \in Flows : pc[f] # "ended"}
Configured == {<<Id(e), e.flow>> : e \in entries}
Before2 == {<<Id(e), e.flow>> : e \in Before}

\* A flow that ends without an entry gives up; one that goes on, stutters.
LEMMA EndsOrStutters ==
    ASSUME IInv, NEW f \in Flows, Moves(f), entries' = entries
    PROVE  [Promise!Next]_(Promise!vars)
<1>1. Configured' = Configured
  BY DEF Configured, Id
<1>2. OpenFlows' = OpenFlows \/ OpenFlows' = OpenFlows \ {f}
  BY DEF OpenFlows, Moves
<1>3. f \in OpenFlows
  BY DEF OpenFlows, Moves
<1> QED BY <1>1, <1>2, <1>3 DEF Promise!Next, Promise!vars, Promise!GiveUp, OpenFlows, Configured

\* Every step of the flows is a step of Onboarding, or stutters.
LEMMA StepRefines == IInv /\ [Next]_vars => [Promise!Next]_(Promise!vars)
<1> SUFFICES ASSUME IInv, [Next]_vars PROVE [Promise!Next]_(Promise!vars)
  OBVIOUS
<1> DEFINE Goal == [Promise!Next]_(Promise!vars)
<1>1. TypeOK /\ EntryInv
  BY DEF IInv
<1>2. ASSUME NEW f \in Flows, NEW household \in Households, NEW spelling \in Spellings,
             NEW region, NEW devices, pc[f] # "ended", cloud' = cloud,
             CreateEntry(f, household, spelling, region, devices)
      PROVE  Goal
  <2>1. Moves(f) /\ pc'[f] = "ended"
    BY <1>1, <1>2 DEF CreateEntry, End, GoTo, Moves, TypeOK
  <2>2. CASE ~AbortIfConfigured(household, spelling)
    BY <1>2, <2>1, <2>2, EndsOrStutters DEF CreateEntry
  <2>3. CASE AbortIfConfigured(household, spelling)
    <3> DEFINE new == [flow |-> f, household |-> household, spelling |-> spelling,
                       region |-> region, devices |-> devices]
    <3> DEFINE id == <<household, spelling>>
    <3>1. entries' = entries \cup {new} /\ Id(new) = id /\ new.flow = f
      BY <1>2, <2>3 DEF CreateEntry, Id
    <3>2. Configured' = Configured \cup {<<id, f>>}
      BY <3>1 DEF Configured, Id
    <3>3. OpenFlows' = OpenFlows \ {f} /\ f \in OpenFlows
      BY <2>1 DEF OpenFlows, Moves
    <3>4. \A entry \in Configured : entry[1] # id
      BY <2>3 DEF Configured, AbortIfConfigured
    <3>5. id \in Households \X Spellings
      BY <1>2
    <3> HIDE DEF id
    <3>6. Promise!Configure(f, id)
      BY <3>2, <3>3, <3>4 DEF Promise!Configure, OpenFlows, Configured
    <3> QED BY <3>5, <3>6 DEF Promise!Next
  <2> QED BY <2>2, <2>3
<1>3. ASSUME NEW f \in Flows, FinaliseCloud(f) PROVE Goal
  <2>1. flow[f].found \in GroupKeys
    BY <1>3 DEF IInv, LocalInv, TypeOK, Locals, FinaliseCloud
  <2>2. flow[f].found.household \in Households /\ Spelled(flow[f].found.household) \in Spellings
    BY <2>1 DEF GroupKeys, Spelled, Spellings
  <2> QED BY <1>2, <1>3, <2>2 DEF FinaliseCloud
<1>4. ASSUME NEW f \in Flows, Discovered(f) PROVE Goal
  <2>1. flow[f].keysFor \in Households
    BY <1>4, HouseholdsAssumption DEF Discovered
  <2>2. PICK devices \in SUBSET Fabs : CreateEntry(f, flow[f].keysFor, "upper", None, devices)
    BY <1>4 DEF Discovered
  <2>3. "upper" \in Spellings /\ cloud' = cloud /\ pc[f] # "ended"
    BY <1>4 DEF Discovered, Spellings
  <2> QED BY <1>2, <2>1, <2>2, <2>3
<1>5. ASSUME NEW f \in Flows,
             \/ Step(f) /\ ~FinaliseCloud(f) /\ ~Discovered(f)
             \/ User(f)
      PROVE  Goal
  <2>1. entries' = entries /\ cloud' = cloud /\ pc[f] # "ended"
    <3>1. CASE User(f)
      BY <3>1 DEF User, Open, Choose, Country, Tokens, Login, Authorize, DirectKeys, Close,
           Zeroconf, ConfirmCard, Forms
    <3>2. CASE Step(f) /\ ~FinaliseCloud(f) /\ ~Discovered(f)
      BY <3>2 DEF Step, ExchangeCode, LanGroupIds, AskRaises, AskNone, AskAnswers, NoDevices
    <3> QED BY <1>5, <3>1, <3>2
  <2>2. \A g \in Flows \ {f} : pc'[g] = pc[g] /\ flow'[g] = flow[g]
    <3>1. CASE User(f)
      BY <1>1, <3>1 DEF User, Open, Choose, Country, Tokens, Login, Authorize, DirectKeys, Close,
           Zeroconf, ConfirmCard, GoTo, End, TypeOK
    <3>2. CASE Step(f) /\ ~FinaliseCloud(f) /\ ~Discovered(f)
      BY <1>1, <3>2 DEF Step, ExchangeCode, LanGroupIds, AskRaises, AskNone, AskAnswers, NoDevices,
           Continue, AfterLast, GoTo, End, TypeOK
    <3> QED BY <1>5, <3>1, <3>2
  <2>3. Moves(f)
    BY <2>1, <2>2 DEF Moves
  <2> QED BY <2>1, <2>3, EndsOrStutters
<1>6. ASSUME NEW e \in entries, Remove(e) PROVE Goal
  <2> DEFINE gone == <<Id(e), e.flow>>
  <2>1. entries' = entries \ {e} /\ OpenFlows' = OpenFlows
    BY <1>6 DEF Remove, OpenFlows
  <2>2. \A d \in entries : <<Id(d), d.flow>> = gone => d = e
    BY <1>1 DEF EntryInv
  <2>3. Configured' = Configured \ {gone} /\ gone \in Configured
    BY <2>1, <2>2 DEF Configured, Id
  <2> HIDE DEF gone
  <2>4. Promise!Remove(gone)
    BY <2>1, <2>3 DEF Promise!Remove, OpenFlows, Configured
  <2> QED BY <2>3, <2>4 DEF Promise!Next, Configured
<1>7. CASE UNCHANGED vars
  BY <1>7 DEF vars, Promise!vars, Id
<1> QED BY <1>3, <1>4, <1>5, <1>6, <1>7 DEF Next, AllEnded

\* Config flows, by whatever path and in whatever interleaving, implement Onboarding:
\* each ends once, and only one of them makes an entry for an id.
THEOREM FlowsOnboard == Spec => OnboardsOnce
<1>1. Init => Promise!Init
  <2> SUFFICES ASSUME Init PROVE Promise!Init
    OBVIOUS
  <2>1. entries = Before
    BY DEF Init
  <2>2. \A f \in Flows : pc[f] # "ended" <=> ~\E e \in Before : e.flow = f
    BY DEF Init
  <2>3. {entry[2] : entry \in Before2} = {e.flow : e \in Before}
    <3>1. \A e \in Before : <<Id(e), e.flow>> \in Before2 /\ <<Id(e), e.flow>>[2] = e.flow
      BY DEF Before2
    <3>2. \A entry \in Before2 : \E e \in Before : entry[2] = e.flow
      BY DEF Before2
    <3> HIDE DEF Before2
    <3>3. \A x \in {entry[2] : entry \in Before2} : x \in {e.flow : e \in Before}
      BY <3>2
    <3>4. \A e \in Before : e.flow \in {entry[2] : entry \in Before2}
      BY <3>1
    <3> QED BY <3>3, <3>4
  <2> QED BY <2>1, <2>2, <2>3 DEF Promise!Init, Before2
<1> QED BY <1>1, StepRefines, Invariance, PTL DEF Spec, OnboardsOnce, Promise!Spec

=============================================================================
