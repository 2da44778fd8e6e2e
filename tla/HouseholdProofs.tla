-------------------------- MODULE HouseholdProofs --------------------------
(***************************************************************************)
(* What TLAPS proves of Household for any number of entries and appliances,*)
(* any assignment of ports and any combination of faults.                  *)
(*                                                                         *)
(* EntryInv says what an entry holds at each await of its operation; it    *)
(* speaks of one entry, and a step of another leaves it alone.             *)
(***************************************************************************)
EXTENDS Household, TLAPS

Serving(e) ==
    /\ {"mdns", "port", "bundle", "updates"} \subseteq held[e]
    /\ coordinators[e] = enrolled[e] /\ clients[e] = enrolled[e]
    /\ enrolled[e] # {}

(* An entry has an operation exactly in its transitional states.            *)
OperationInv(e) ==
    /\ pc[e] = "none" => entryState[e] \in Settled
    /\ pc[e] # "none" => entryState[e] \in {"setup", "unloading"}

(* What the attempt holds, await by await.                                  *)
HeldInv(e) ==
    /\ pc[e] \in {"browse", "advertise", "close"} => held[e] = {}
    /\ pc[e] = "bind" => held[e] = {"mdns"}
    /\ pc[e] \in {"enroll", "refresh"} => held[e] = {"mdns", "port"}
    /\ pc[e] \in {"browse", "advertise", "bind", "enroll"} =>
          clients[e] = {} /\ coordinators[e] = {}
    /\ pc[e] = "refresh" =>
          coordinators[e] \subseteq clients[e] /\ clients[e] \subseteq enrolled[e]
    /\ pc[e] \in {"heal", "platforms"} => Serving(e)
    /\ pc[e] = "stopMdns" => held[e] \subseteq {"mdns", "port"}
    /\ pc[e] = "stopHttp" => held[e] \subseteq {"port"}
    /\ entryState[e] \in {"notLoaded", "retry", "error"} =>
          held[e] = {} /\ clients[e] = {} /\ coordinators[e] = {}
    /\ entryState[e] \in {"loaded", "failedUnload"} => Serving(e)

IssueInv(e) ==
    /\ pc[e] = "heal" \/ entryState[e] = "loaded" =>
          (issue[e] <=> coordinators[e] # worklist[e])
    /\ entryState[e] = "removed" => ~issue[e]

LeakInv(e) == leaked[e] \subseteq {"mdns"}

EntryInv(e) == OperationInv(e) /\ HeldInv(e) /\ IssueInv(e) /\ LeakInv(e)

IInv == TypeOK /\ \A e \in Entries : EntryInv(e)

-----------------------------------------------------------------------------
(* A step of one entry.                                                    *)

\* A new domain: no entry has anything.
LEMMA InitInv == Init => IInv
<1> SUFFICES ASSUME Init PROVE IInv
    OBVIOUS
<1>1. TypeOK
    BY DEF Init, TypeOK, States, Settled
<1>2. ASSUME NEW e \in Entries PROVE EntryInv(e)
    BY DEF Init, EntryInv, OperationInv, HeldInv, IssueInv, LeakInv, Settled
<1> QED
    BY <1>1, <1>2 DEF IInv

\* Every attribute keeps its type.
LEMMA TypeStep == TypeOK /\ [Next]_vars => TypeOK'
<1> SUFFICES ASSUME TypeOK, [Next]_vars PROVE TypeOK'
    OBVIOUS
<1> USE DEF TypeOK, At, GoTo, Acquire, Release, opVars, buildVars
<1>1. \A e \in Entries : ForgetAttempt(e) =>
          /\ worklist' \in [Entries -> SUBSET Devices]
          /\ enrolled' \in [Entries -> SUBSET Devices]
          /\ coordinators' \in [Entries -> SUBSET Devices]
          /\ outcome' \in [Entries -> {"notLoaded", "retry", "error"}]
          /\ intent' \in [Entries -> {"stay", "reload", "remove"}]
    BY DEF ForgetAttempt
<1>2. \A e \in Entries : \A new \in {"retry", "error"} : Drop(e, new) =>
          /\ entryState' \in [Entries -> States]
          /\ pc' \in [Entries -> Awaits \cup {"none"}]
          /\ held' \in [Entries -> SUBSET Resources]
          /\ clients' \in [Entries -> SUBSET Devices]
          /\ leaked' \in [Entries -> SUBSET (Resources \cup {"clients"})]
          /\ ForgetAttempt(e)
    BY DEF Drop, States, Settled
<1>3. \A e \in Entries : \A new \in {"retry", "error"} : TearDown(e, new) =>
          /\ entryState' \in [Entries -> States]
          /\ pc' \in [Entries -> Awaits \cup {"none"}]
          /\ outcome' \in [Entries -> {"notLoaded", "retry", "error"}]
          /\ UNCHANGED <<entryState, intent, held, clients, leaked, buildVars>>
    BY DEF TearDown, Awaits
<1>4. \A e \in Entries : Begin(e) =>
          /\ entryState' \in [Entries -> States]
          /\ pc' \in [Entries -> Awaits \cup {"none"}]
          /\ services' \in BOOLEAN
    BY DEF Begin, Awaits, States
<1>5. ASSUME NEW e \in Entries, Browse(e) PROVE TypeOK'
    <2>1. CASE Drop(e, "error")
        BY <1>1, <1>2, <1>5, <2>1 DEF Browse
    <2>2. CASE ~Drop(e, "error")
        <3>1. Appliances[e] \subseteq Devices
            BY DEF Devices
        <3> QED
            BY <1>5, <2>2, <3>1 DEF Browse, Awaits
    <2> QED
        BY <2>1, <2>2
<1>6. ASSUME NEW e \in Entries, Advertise(e) PROVE TypeOK'
    <2>1. CASE TearDown(e, "retry") \/ TearDown(e, "error")
        BY <1>3, <1>6, <2>1 DEF Advertise
    <2>2. CASE ~(TearDown(e, "retry") \/ TearDown(e, "error"))
        BY <1>6, <2>2 DEF Advertise, Awaits, Resources
    <2> QED
        BY <2>1, <2>2
<1>7. ASSUME NEW e \in Entries, Bind(e) PROVE TypeOK'
    <2>1. CASE TearDown(e, "error")
        BY <1>3, <1>7, <2>1 DEF Bind
    <2>2. CASE Drop(e, "error")
        BY <1>1, <1>2, <1>7, <2>2 DEF Bind
    <2>3. CASE ~TearDown(e, "error") /\ ~Drop(e, "error")
        BY <1>7, <2>3 DEF Bind, Awaits, Resources
    <2> QED
        BY <2>1, <2>2, <2>3
<1>8. ASSUME NEW e \in Entries, Enroll(e) PROVE TypeOK'
    <2>1. CASE TearDown(e, "error")
        BY <1>3, <1>8, <2>1 DEF Enroll
    <2>2. CASE ~TearDown(e, "error")
        BY <1>8, <2>2 DEF Enroll, Awaits
    <2> QED
        BY <2>1, <2>2
<1>9. ASSUME NEW e \in Entries, OpenClient(e) \/ FirstRefresh(e) PROVE TypeOK'
    <2>0. CASE OpenClient(e)
        BY <2>0 DEF OpenClient
    <2>1. CASE FirstRefresh(e) /\ TearDown(e, "retry")
        BY <1>3, <2>1 DEF FirstRefresh, RefreshFails
    <2>2. CASE FirstRefresh(e) /\ ~TearDown(e, "retry")
        BY <2>2 DEF FirstRefresh, RefreshFails
    <2> QED
        BY <1>9, <2>0, <2>1, <2>2
<1>10. ASSUME NEW e \in Entries, Built(e) PROVE TypeOK'
    <2>1. CASE enrolled[e] = {}
        BY <1>3, <1>10, <2>1 DEF Built
    <2>2. CASE enrolled[e] # {}
        <3>1. issue' \in [Entries -> BOOLEAN]
            BY <1>10, <2>2 DEF Built, ReportFailed
        <3> QED
            BY <1>10, <2>2, <3>1 DEF Built, Awaits, Resources
    <2> QED
        BY <2>1, <2>2
<1>11. ASSUME NEW e \in Entries, Forward(e) PROVE TypeOK'
    BY <1>11 DEF Forward, States, Settled
<1>12. ASSUME NEW e \in Entries, UnloadPlatforms(e) PROVE TypeOK'
    <2>1. services' \in BOOLEAN
        BY <1>12 DEF UnloadPlatforms
    <2>2. issue' \in [Entries -> BOOLEAN]
        BY <1>12 DEF UnloadPlatforms
    <2>3. pc' \in [Entries -> Awaits \cup {"none"}]
        BY <1>12 DEF UnloadPlatforms, Awaits
    <2>4. entryState' \in [Entries -> States]
        BY <1>12 DEF UnloadPlatforms, States, Settled
    <2>5. held' \in [Entries -> SUBSET Resources]
        BY <1>12 DEF UnloadPlatforms, FailedUnloadHolds
    <2>6. outcome' \in [Entries -> {"notLoaded", "retry", "error"}]
        BY <1>12 DEF UnloadPlatforms
    <2> QED
        BY <1>12, <2>1, <2>2, <2>3, <2>4, <2>5, <2>6 DEF UnloadPlatforms
<1>13. ASSUME NEW e \in Entries, StopMdns(e) \/ StopHttp(e) PROVE TypeOK'
    BY <1>13 DEF StopMdns, StopHttp, Awaits
<1>14. ASSUME NEW e \in Entries, CloseClients(e) PROVE TypeOK'
    <2>1. /\ clients' \in [Entries -> SUBSET Devices]
          /\ leaked' \in [Entries -> SUBSET (Resources \cup {"clients"})]
          /\ held' \in [Entries -> SUBSET Resources]
          /\ ForgetAttempt(e) /\ UNCHANGED pending
        BY <1>14 DEF CloseClients
    <2>2. CASE outcome[e] = "notLoaded" /\ intent[e] = "reload"
        <3>1. Begin(e) /\ UNCHANGED issue
            BY <1>14, <2>2 DEF CloseClients
        <3> QED
            BY <1>1, <1>4, <2>1, <3>1
    <2>3. CASE ~(outcome[e] = "notLoaded" /\ intent[e] = "reload")
        <3>1. /\ entryState' \in [Entries -> States]
              /\ issue' \in [Entries -> BOOLEAN]
            <4>1. outcome[e] \in States /\ "removed" \in States
                BY DEF States, Settled
            <4>2. CASE outcome[e] = "notLoaded" /\ intent[e] = "remove"
                <5>1. /\ entryState' = [entryState EXCEPT ![e] = "removed"]
                      /\ issue' = [issue EXCEPT ![e] = FALSE]
                    BY <1>14, <2>3, <4>2, Zenon DEF CloseClients
                <5> QED
                    BY <4>1, <5>1
            <4>3. CASE ~(outcome[e] = "notLoaded" /\ intent[e] = "remove")
                <5>1. /\ entryState' = [entryState EXCEPT ![e] = outcome[e]]
                      /\ UNCHANGED issue
                    BY <1>14, <2>3, <4>3, Zenon DEF CloseClients
                <5> QED
                    BY <4>1, <5>1
            <4> QED
                BY <4>2, <4>3
        <3>2. pc' \in [Entries -> Awaits \cup {"none"}] /\ UNCHANGED services
            BY <1>14, <2>3 DEF CloseClients
        <3> QED
            BY <1>1, <2>1, <3>1, <3>2
    <2> QED
        BY <2>2, <2>3
<1>15. ASSUME NEW e \in Entries, SetUp(e) PROVE TypeOK'
    BY <1>4, <1>15 DEF SetUp
<1>16. ASSUME NEW e \in Entries, NEW why \in {"stay", "reload", "remove"},
              Unload(e, why), pending' \in [Entries -> SUBSET {"options", "token"}]
       PROVE  TypeOK'
    BY <1>16 DEF Unload, Awaits, States
<1>17. ASSUME NEW e \in Entries, UserUnloads(e) PROVE TypeOK'
    BY <1>16, <1>17 DEF UserUnloads
<1>18. ASSUME NEW e \in Entries, UserRemoves(e) \/ OptionsChange(e) \/ TokenRotates(e)
       PROVE  TypeOK'
    <2>1. CASE UserRemoves(e)
        BY <2>1 DEF UserRemoves, States, Settled
    <2>2. CASE OptionsChange(e)
        BY <2>2 DEF OptionsChange
    <2>3. CASE TokenRotates(e)
        BY <2>3 DEF TokenRotates
    <2> QED
        BY <1>18, <2>1, <2>2, <2>3
<1>19. ASSUME NEW e \in Entries, Reload(e) PROVE TypeOK'
    <2>1. PICK cause \in pending[e] :
              /\ pending' = [pending EXCEPT ![e] = @ \ {cause}]
              /\ \/ Unload(e, "reload")
                 \/ /\ Begin(e)
                    /\ UNCHANGED <<opVars, held, clients, buildVars, leaked, issue>>
                 \/ UNCHANGED <<entryState, pc, opVars, held, clients, buildVars,
                                leaked, issue, services>>
        BY <1>19 DEF Reload
    <2>2. pending' \in [Entries -> SUBSET {"options", "token"}]
        BY <2>1
    <2> QED
        BY <1>4, <1>16, <2>1, <2>2
<1>20. CASE AllRemoved \/ UNCHANGED vars
    BY <1>20 DEF AllRemoved, vars
<1> QED
    BY <1>5, <1>6, <1>7, <1>8, <1>9, <1>10, <1>11, <1>12, <1>13, <1>14, <1>15,
       <1>17, <1>18, <1>19, <1>20
    DEF Next, Step, Outside

\* A step of one entry leaves what another entry is and holds alone.
LEMMA OthersUntouched ==
    ASSUME TypeOK, NEW e \in Entries, Step(e) \/ Outside(e),
           NEW o \in Entries \ {e}
    PROVE  /\ entryState'[o] = entryState[o] /\ pc'[o] = pc[o]
           /\ held'[o] = held[o] /\ clients'[o] = clients[o]
           /\ worklist'[o] = worklist[o] /\ enrolled'[o] = enrolled[o]
           /\ coordinators'[o] = coordinators[o]
           /\ leaked'[o] = leaked[o] /\ issue'[o] = issue[o]
<1> DEFINE Same == /\ entryState'[o] = entryState[o] /\ pc'[o] = pc[o]
                   /\ held'[o] = held[o] /\ clients'[o] = clients[o]
                   /\ worklist'[o] = worklist[o] /\ enrolled'[o] = enrolled[o]
                   /\ coordinators'[o] = coordinators[o]
                   /\ leaked'[o] = leaked[o] /\ issue'[o] = issue[o]
<1> SUFFICES Same
    OBVIOUS
<1> USE DEF TypeOK, At, GoTo, Acquire, Release, opVars, buildVars
<1>1. Drop(e, "error") => /\ entryState'[o] = entryState[o] /\ pc'[o] = pc[o]
                          /\ held'[o] = held[o] /\ clients'[o] = clients[o]
                          /\ worklist'[o] = worklist[o] /\ enrolled'[o] = enrolled[o]
                          /\ coordinators'[o] = coordinators[o]
                          /\ leaked'[o] = leaked[o]
    BY DEF Drop, ForgetAttempt
<1>2. TearDown(e, "retry") \/ TearDown(e, "error") =>
          /\ pc'[o] = pc[o]
          /\ UNCHANGED <<entryState, held, clients, leaked, buildVars>>
    BY DEF TearDown
<1>3. Begin(e) => entryState'[o] = entryState[o] /\ pc'[o] = pc[o]
    BY DEF Begin
<1>4. ASSUME NEW why, Unload(e, why) PROVE Same
    BY <1>4 DEF Unload
<1>5. CASE Browse(e) \/ Advertise(e)
    BY <1>1, <1>2, <1>5 DEF Browse, Advertise
<1>6. CASE Bind(e) \/ Enroll(e)
    BY <1>1, <1>2, <1>6 DEF Bind, Enroll
<1>7. CASE OpenClient(e) \/ FirstRefresh(e)
    BY <1>2, <1>7 DEF OpenClient, FirstRefresh, RefreshFails
<1>8. CASE Built(e) \/ Forward(e)
    BY <1>2, <1>8 DEF Built, Forward, ReportFailed
<1>9. CASE UnloadPlatforms(e)
    BY <1>9 DEF UnloadPlatforms, FailedUnloadHolds
<1>10. CASE StopMdns(e) \/ StopHttp(e)
    BY <1>10 DEF StopMdns, StopHttp
<1>11. CASE CloseClients(e)
    BY <1>3, <1>11 DEF CloseClients, ForgetAttempt
<1>12. CASE SetUp(e) \/ UserUnloads(e)
    BY <1>3, <1>4, <1>12 DEF SetUp, UserUnloads
<1>13. CASE UserRemoves(e) \/ OptionsChange(e) \/ TokenRotates(e)
    BY <1>13 DEF UserRemoves, OptionsChange, TokenRotates
<1>14. CASE Reload(e)
    BY <1>3, <1>4, <1>14 DEF Reload
<1> QED
    BY <1>5, <1>6, <1>7, <1>8, <1>9, <1>10, <1>11, <1>12, <1>13, <1>14
    DEF Step, Outside

-----------------------------------------------------------------------------
(* What the entry that steps keeps.                                        *)

\* The safe stop begins: at most the record and the port are held by then.
LEMMA TearDownKeeps ==
    ASSUME TypeOK, NEW e \in Entries, EntryInv(e),
           NEW new \in {"retry", "error"}, TearDown(e, new),
           entryState[e] \in {"setup", "unloading"}, held[e] \subseteq {"mdns", "port"},
           issue' = issue
    PROVE  EntryInv(e)'
<1>1. /\ pc'[e] = "stopMdns" /\ entryState'[e] = entryState[e]
      /\ held'[e] = held[e] /\ leaked'[e] = leaked[e]
    BY DEF TearDown, GoTo, TypeOK
<1> QED
    BY <1>1 DEF EntryInv, OperationInv, HeldInv, IssueInv, LeakInv

\* An attempt that is dropped with at most its mDNS record leaks nothing else.
LEMMA DropKeeps ==
    ASSUME TypeOK, NEW e \in Entries, EntryInv(e), Drop(e, "error"),
           clients[e] = {}, held[e] \subseteq {"mdns"}, issue' = issue
    PROVE  EntryInv(e)'
<1>1. /\ pc'[e] = "none" /\ entryState'[e] = "error"
      /\ held'[e] = {} /\ clients'[e] = {} /\ coordinators'[e] = {}
      /\ leaked'[e] = leaked[e] \cup held[e]
    BY DEF Drop, ForgetAttempt, GoTo, TypeOK
<1> QED
    BY <1>1 DEF EntryInv, OperationInv, HeldInv, IssueInv, LeakInv, Settled

\* A setup begins with nothing in hand.
LEMMA BeginKeeps ==
    ASSUME TypeOK, NEW e \in Entries, EntryInv(e), Begin(e),
           held'[e] = {}, clients'[e] = {}, coordinators'[e] = {},
           leaked'[e] = leaked[e]
    PROVE  EntryInv(e)'
<1>1. pc'[e] = "browse" /\ entryState'[e] = "setup"
    BY DEF Begin, GoTo, TypeOK
<1> QED
    BY <1>1 DEF EntryInv, OperationInv, HeldInv, IssueInv, LeakInv

\* The inductive step of the entry that moves, action by action.
LEMMA ActorStep ==
    ASSUME IInv, NEW e \in Entries, Step(e) \/ Outside(e)
    PROVE  EntryInv(e)'
<1> USE DEF IInv, At, GoTo, Acquire, Release, opVars, buildVars
<1>0. TypeOK /\ EntryInv(e)
    OBVIOUS
<1>1. CASE Browse(e)
    <2>1. CASE Drop(e, "error")
        BY <1>0, <1>1, <2>1, DropKeeps DEF Browse, EntryInv, HeldInv
    <2>2. CASE ~Drop(e, "error")
        <3>1. /\ pc'[e] = "advertise" /\ entryState'[e] = entryState[e]
              /\ UNCHANGED <<held, clients, coordinators, leaked, issue>>
            BY <1>0, <1>1, <2>2 DEF Browse, TypeOK
        <3> QED
            BY <1>0, <1>1, <3>1
            DEF Browse, EntryInv, OperationInv, HeldInv, IssueInv, LeakInv, Settled
    <2> QED
        BY <2>1, <2>2
<1>2. CASE Advertise(e)
    <2>1. CASE TearDown(e, "retry") \/ TearDown(e, "error")
        BY <1>0, <1>2, <2>1, TearDownKeeps
        DEF Advertise, EntryInv, OperationInv, HeldInv
    <2>2. CASE ~(TearDown(e, "retry") \/ TearDown(e, "error"))
        <3>1. /\ pc'[e] = "bind" /\ entryState'[e] = entryState[e]
              /\ held'[e] = held[e] \cup {"mdns"}
              /\ UNCHANGED <<clients, coordinators, leaked, issue>>
            BY <1>0, <1>2, <2>2 DEF Advertise, TypeOK
        <3> QED
            BY <1>0, <1>2, <3>1
            DEF Advertise, EntryInv, OperationInv, HeldInv, IssueInv, LeakInv, Settled
    <2> QED
        BY <2>1, <2>2
<1>3. CASE Bind(e)
    <2>1. CASE TearDown(e, "error")
        BY <1>0, <1>3, <2>1, TearDownKeeps DEF Bind, EntryInv, OperationInv, HeldInv
    <2>2. CASE Drop(e, "error")
        BY <1>0, <1>3, <2>2, DropKeeps DEF Bind, EntryInv, HeldInv
    <2>3. CASE ~TearDown(e, "error") /\ ~Drop(e, "error")
        <3>1. /\ pc'[e] = "enroll" /\ entryState'[e] = entryState[e]
              /\ held'[e] = held[e] \cup {"port"}
              /\ UNCHANGED <<clients, coordinators, leaked, issue>>
            BY <1>0, <1>3, <2>3 DEF Bind, TypeOK
        <3> QED
            BY <1>0, <1>3, <3>1
            DEF Bind, EntryInv, OperationInv, HeldInv, IssueInv, LeakInv, Settled
    <2> QED
        BY <2>1, <2>2, <2>3
<1>4. CASE Enroll(e)
    <2>1. CASE TearDown(e, "error")
        BY <1>0, <1>4, <2>1, TearDownKeeps DEF Enroll, EntryInv, OperationInv, HeldInv
    <2>2. CASE ~TearDown(e, "error")
        <3>1. /\ pc'[e] = "refresh" /\ entryState'[e] = entryState[e]
              /\ UNCHANGED <<held, clients, coordinators, leaked, issue>>
            BY <1>0, <1>4, <2>2 DEF Enroll, TypeOK
        <3> QED
            BY <1>0, <1>4, <3>1
            DEF Enroll, EntryInv, OperationInv, HeldInv, IssueInv, LeakInv, Settled
    <2> QED
        BY <2>1, <2>2
<1>5. CASE OpenClient(e) \/ FirstRefresh(e)
    <2>1. CASE FirstRefresh(e) /\ TearDown(e, "retry")
        BY <1>0, <2>1, TearDownKeeps
        DEF FirstRefresh, EntryInv, OperationInv, HeldInv
    <2>2. CASE OpenClient(e) \/ ~TearDown(e, "retry")
        <3>1. /\ coordinators'[e] \subseteq clients'[e]
              /\ clients'[e] \subseteq enrolled[e]
              /\ UNCHANGED <<entryState, pc, enrolled, held, leaked, issue>>
            BY <1>0, <1>5, <2>2
            DEF OpenClient, FirstRefresh, RefreshFails, TypeOK, EntryInv, HeldInv
        <3> QED
            BY <1>0, <1>5, <3>1
            DEF OpenClient, FirstRefresh, EntryInv, OperationInv, HeldInv,
                IssueInv, LeakInv
    <2> QED
        BY <1>5, <2>1, <2>2
<1>6. CASE Built(e)
    <2>1. CASE enrolled[e] = {}
        BY <1>0, <1>6, <2>1, TearDownKeeps DEF Built, EntryInv, OperationInv, HeldInv
    <2>2. CASE enrolled[e] # {}
        <3>1. /\ pc'[e] = "heal" /\ entryState'[e] = entryState[e]
              /\ held[e] \cup {"updates", "bundle"} \subseteq held'[e]
              /\ UNCHANGED <<clients, worklist, enrolled, coordinators, leaked>>
            BY <1>0, <1>6, <2>2 DEF Built, TypeOK
        <3>2. issue'[e] <=> worklist[e] # enrolled[e]
            <4>1. issue' = [issue EXCEPT ![e] = worklist[e] # enrolled[e]]
                BY <1>6, <2>2 DEF Built, ReportFailed
            <4>2. issue'[e] = (worklist[e] # enrolled[e])
                BY <1>0, <4>1, Zenon DEF TypeOK
            <4> QED
                BY <4>2
        <3>3. OperationInv(e)' /\ HeldInv(e)'
            BY <1>0, <1>6, <2>2, <3>1
            DEF Built, EntryInv, OperationInv, HeldInv, Serving, Settled
        <3>4. IssueInv(e)' /\ LeakInv(e)'
            BY <1>0, <1>6, <3>1, <3>2
            DEF Built, EntryInv, OperationInv, IssueInv, LeakInv
        <3> QED
            BY <3>3, <3>4 DEF EntryInv
    <2> QED
        BY <2>1, <2>2
<1>7. CASE Forward(e)
    <2>1. /\ pc'[e] = "none" /\ entryState'[e] = "loaded"
          /\ UNCHANGED <<held, clients, buildVars, leaked, issue>>
        BY <1>0, <1>7 DEF Forward, TypeOK
    <2> QED
        BY <1>0, <1>7, <2>1
        DEF Forward, EntryInv, OperationInv, HeldInv, Serving, IssueInv, LeakInv, Settled
<1>8. CASE UnloadPlatforms(e)
    <2>1. entryState[e] \in {"setup", "unloading"} /\ Serving(e)
        BY <1>0, <1>8 DEF UnloadPlatforms, EntryInv, OperationInv, HeldInv
    <2>2. UNCHANGED <<clients, buildVars, leaked>>
        BY <1>8 DEF UnloadPlatforms
    <2>3. CASE pc'[e] = "stopMdns"
        <3>1. /\ entryState' = entryState /\ issue' = issue
              /\ held'[e] \subseteq {"mdns", "port"}
            BY <1>0, <1>8, <2>3
            DEF UnloadPlatforms, ReleasedByUnload, TypeOK, Resources
        <3> QED
            BY <1>0, <2>1, <2>2, <2>3, <3>1
            DEF EntryInv, OperationInv, HeldInv, IssueInv, LeakInv
    <2>4. CASE pc'[e] # "stopMdns"
        <3>1. /\ pc'[e] = "none" /\ UNCHANGED held
              /\ \/ entryState'[e] = "removed" /\ ~issue'[e]
                 \/ entryState'[e] = "failedUnload"
            BY <1>0, <1>8, <2>4 DEF UnloadPlatforms, FailedUnloadHolds, TypeOK
        <3> QED
            BY <1>0, <2>1, <2>2, <3>1
            DEF EntryInv, OperationInv, HeldInv, Serving, IssueInv, LeakInv, Settled
    <2> QED
        BY <2>3, <2>4
<1>9. CASE StopMdns(e)
    <2>1. /\ pc'[e] = "stopHttp" /\ held'[e] = held[e] \ {"mdns"}
          /\ UNCHANGED <<entryState, clients, buildVars, leaked, issue>>
        BY <1>0, <1>9 DEF StopMdns, TypeOK
    <2> QED
        BY <1>0, <1>9, <2>1
        DEF StopMdns, EntryInv, OperationInv, HeldInv, IssueInv, LeakInv, Settled
<1>10. CASE StopHttp(e)
    <2>1. /\ pc'[e] = "close" /\ held'[e] = held[e] \ {"port"}
          /\ UNCHANGED <<entryState, clients, buildVars, leaked, issue>>
        BY <1>0, <1>10 DEF StopHttp, TypeOK
    <2> QED
        BY <1>0, <1>10, <2>1
        DEF StopHttp, EntryInv, OperationInv, HeldInv, IssueInv, LeakInv, Settled
<1>11. CASE CloseClients(e)
    <2>1. /\ held'[e] = {} /\ clients'[e] = {} /\ leaked'[e] = leaked[e]
          /\ coordinators'[e] = {}
        BY <1>0, <1>11 DEF CloseClients, ForgetAttempt, TypeOK, EntryInv, HeldInv
    <2>2. CASE Begin(e)
        BY <1>0, <2>1, <2>2, BeginKeeps
    <2>3. CASE ~Begin(e)
        <3>1. pc'[e] = "none"
            BY <1>0, <1>11, <2>3 DEF CloseClients, TypeOK
        <3>2. \/ entryState'[e] = "removed" /\ ~issue'[e]
              \/ entryState'[e] \in {"notLoaded", "retry", "error"}
            BY <1>0, <1>11, <2>3 DEF CloseClients, TypeOK
        <3> QED
            BY <1>0, <2>1, <3>1, <3>2
            DEF EntryInv, OperationInv, HeldInv, IssueInv, LeakInv, Settled
    <2> QED
        BY <2>2, <2>3
<1>12. CASE SetUp(e)
    <2>1. Begin(e) /\ entryState[e] \in {"notLoaded", "error", "retry"}
          /\ UNCHANGED <<held, clients, coordinators, leaked>>
        BY <1>12 DEF SetUp
    <2> QED
        BY <1>0, <2>1, BeginKeeps DEF EntryInv, HeldInv
<1>13. ASSUME NEW why, Unload(e, why) PROVE EntryInv(e)'
    <2>1. /\ pc'[e] = "platforms" /\ entryState'[e] = "unloading"
          /\ UNCHANGED <<held, clients, buildVars, leaked, issue>>
        BY <1>0, <1>13 DEF Unload, TypeOK
    <2> QED
        BY <1>0, <1>13, <2>1
        DEF Unload, EntryInv, OperationInv, HeldInv, Serving, IssueInv, LeakInv
<1>14. CASE UserRemoves(e)
    <2>1. /\ pc'[e] = "none" /\ entryState'[e] = "removed" /\ ~issue'[e]
          /\ UNCHANGED <<held, clients, buildVars, leaked>>
        BY <1>0, <1>14 DEF UserRemoves, Unlocked, TypeOK
    <2> QED
        BY <1>0, <2>1
        DEF EntryInv, OperationInv, HeldInv, IssueInv, LeakInv, Settled
<1>15. ASSUME UNCHANGED <<entryState, pc, held, clients, buildVars, leaked, issue>>
       PROVE  EntryInv(e)'
    BY <1>0, <1>15
    DEF EntryInv, OperationInv, HeldInv, Serving, IssueInv, LeakInv
<1>16. CASE UserUnloads(e) \/ OptionsChange(e) \/ TokenRotates(e)
    BY <1>13, <1>15, <1>16 DEF UserUnloads, OptionsChange, TokenRotates
<1>17. CASE Reload(e)
    <2>1. CASE Begin(e) /\ entryState[e] \in {"error", "retry"}
               /\ UNCHANGED <<held, clients, coordinators, leaked>>
        BY <1>0, <2>1, BeginKeeps DEF EntryInv, HeldInv
    <2> QED
        BY <1>13, <1>15, <1>17, <2>1 DEF Reload
<1> QED
    BY <1>1, <1>2, <1>3, <1>4, <1>5, <1>6, <1>7, <1>8, <1>9, <1>10, <1>11,
       <1>12, <1>14, <1>16, <1>17
    DEF Step, Outside

\* Every entry keeps its invariant, whichever of them moves.
LEMMA EntriesStep == IInv /\ [Next]_vars => (\A e \in Entries : EntryInv(e))'
<1> SUFFICES ASSUME IInv, [Next]_vars, NEW o \in Entries PROVE EntryInv(o)'
    OBVIOUS
<1>1. ASSUME UNCHANGED vars PROVE EntryInv(o)'
    BY <1>1
    DEF IInv, vars, EntryInv, OperationInv, HeldInv, Serving, IssueInv, LeakInv
<1>2. ASSUME NEW e \in Entries, Step(e) \/ Outside(e) PROVE EntryInv(o)'
    <2>1. CASE e = o
        BY <1>2, <2>1, ActorStep
    <2>2. CASE e # o
        <3>1. /\ entryState'[o] = entryState[o] /\ pc'[o] = pc[o]
              /\ held'[o] = held[o] /\ clients'[o] = clients[o]
              /\ worklist'[o] = worklist[o] /\ enrolled'[o] = enrolled[o]
              /\ coordinators'[o] = coordinators[o]
              /\ leaked'[o] = leaked[o] /\ issue'[o] = issue[o]
            BY <1>2, <2>2, OthersUntouched DEF IInv
        <3> QED
            BY <3>1
            DEF IInv, EntryInv, OperationInv, HeldInv, Serving, IssueInv, LeakInv
    <2> QED
        BY <2>1, <2>2
<1> QED
    BY <1>1, <1>2 DEF Next, AllRemoved

-----------------------------------------------------------------------------
(* The theorems.                                                           *)

\* Whatever the entries do in parallel, each holds at every await exactly what
\* EntryInv says (_setup_cloud and async_unload_entry, __init__.py:129-470).
THEOREM Invariance == Spec => []IInv
<1>1. IInv /\ [Next]_vars => IInv'
    BY TypeStep, EntriesStep DEF IInv
<1> QED
    BY InitInv, <1>1, PTL DEF Spec

\* Every attribute of every entry keeps its type.
THEOREM TypeCorrect == Spec => []TypeOK
<1>1. IInv => TypeOK
    BY DEF IInv
<1> QED
    BY Invariance, <1>1, PTL

\* No failed setup and no unload leaks more than an mDNS record
\* (_safe_stop_listener, __init__.py:413-422).
THEOREM LeaksAreMdns == Spec => []NothingButMdnsLeaks
<1>1. IInv => NothingButMdnsLeaks
    BY DEF IInv, EntryInv, LeakInv, NothingButMdnsLeaks
<1> QED
    BY Invariance, <1>1, PTL

\* Nothing leaks but where a port could not be bound: every other end of a setup, an
\* unload and a removal has released what it held (__init__.py:277-470).
THEOREM LeaksFromBind == Spec => LeaksOnlyAtBind
<1>1. ASSUME IInv, [Next]_vars
      PROVE  [\A e \in Entries : leaked'[e] # leaked[e] =>
                  pc[e] = "bind" /\ entryState'[e] = "error"]_vars
    <2> SUFFICES ASSUME Next, NEW o \in Entries, leaked'[o] # leaked[o]
                 PROVE  pc[o] = "bind" /\ entryState'[o] = "error"
        BY <1>1
    <2> USE DEF IInv, TypeOK, At, GoTo, Acquire, Release, opVars, buildVars
    <2>1. PICK e \in Entries : Step(e) \/ Outside(e)
        BY <1>1 DEF Next, AllRemoved, vars
    <2>2. e = o
        BY <1>1, <2>1, OthersUntouched
    <2>3. CASE Browse(e)
        <3>1. held[e] = {} /\ clients[e] = {}
            BY <1>1, <2>3 DEF Browse, EntryInv, HeldInv
        <3> QED
            BY <1>1, <2>2, <2>3, <3>1 DEF Browse, Drop
    <2>4. CASE CloseClients(e)
        <3>1. held[e] = {}
            BY <1>1, <2>4 DEF CloseClients, EntryInv, HeldInv
        <3> QED
            BY <1>1, <2>2, <2>4, <3>1 DEF CloseClients
    <2>5. CASE Bind(e)
        BY <1>1, <2>2, <2>5 DEF Bind, Drop, TearDown
    <2>6. CASE ~(Browse(e) \/ CloseClients(e) \/ Bind(e))
        <3>1. UNCHANGED leaked
            BY <2>1, <2>6
            DEF Step, Outside, Advertise, Enroll, OpenClient, FirstRefresh,
                RefreshFails, TearDown, Built, Forward, UnloadPlatforms, StopMdns,
                StopHttp, SetUp, UserUnloads, Unload, UserRemoves, OptionsChange,
                TokenRotates, Reload
        <3> QED
            BY <3>1
    <2> QED
        BY <2>3, <2>4, <2>5, <2>6
<1> QED
    BY Invariance, <1>1, PTL DEF Spec, LeaksOnlyAtBind

\* A loaded entry serves every enrolled appliance, also after an unload that
\* Home Assistant could not finish (__init__.py:330-404, 447-451).
THEOREM LoadedIsServing == Spec => []LoadedServes
<1>1. IInv => LoadedServes
    BY DEF IInv, EntryInv, HeldInv, Serving, LoadedServes
<1> QED
    BY Invariance, <1>1, PTL

\* The repair issue is that of the latest successful setup
\* (__init__.py:371-388, 482).
THEOREM IssueCurrent == Spec => []IssueIsCurrent
<1>1. IInv => IssueIsCurrent
    BY DEF IInv, EntryInv, IssueInv, IssueIsCurrent
<1> QED
    BY Invariance, <1>1, PTL

=============================================================================
