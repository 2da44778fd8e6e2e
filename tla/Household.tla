----------------------------- MODULE Household -----------------------------
(***************************************************************************)
(* The life of the integration's config entries, one per household: setup, *)
(* retry, reload, unload and removal                                       *)
(* (src/custom_components/miele_lan/__init__.py), with the push listener   *)
(* and the services they start and stop.                                   *)
(*                                                                         *)
(* Home Assistant runs one operation of an entry at a time (its setup      *)
(* lock), but those of two entries interleave at every await: `pc` is the  *)
(* await an entry's operation is suspended in.  `held` is what the objects *)
(* of the current attempt hold; what an attempt holds when its objects are *)
(* dropped moves to `leaked`, where nothing can release it.                *)
(***************************************************************************)

CONSTANTS
    Entries,    \* config entries of the domain
    Appliances, \* what the cloud or mDNS may know of each entry's, by fab number
    Port,       \* the push port configured for each entry
    Rotating,   \* entries with a refresh token, hence a token task
    Faults      \* what may go wrong, a subset of AllFaults

Devices == UNION {Appliances[e] : e \in Entries}
AllFaults == {"zeroconf", "startup", "bind", "enroll", "refresh", "platforms"}

ASSUME EntriesAssumption == Rotating \subseteq Entries /\ Entries \subseteq DOMAIN Port
ASSUME FaultsAssumption == Faults \subseteq AllFaults

VARIABLES
    entryState,     \* ConfigEntryState
    pc,             \* the await of the entry's operation, "none" without one
    outcome,        \* the state a teardown under way leads to
    intent,         \* what follows an unload
    held,           \* what the current attempt's objects hold
    clients,        \* appliances it has an open client to
    worklist,       \* listed or found by mDNS
    enrolled, coordinators,
    leaked,         \* what dropped objects still hold
    pending,        \* reload tasks, by what updated the entry
    issue,          \* the repair issue "unenrolled_devices"
    services        \* the domain's services are registered

buildVars == <<worklist, enrolled, coordinators>>
opVars == <<outcome, intent>>
vars == <<entryState, pc, outcome, intent, held, clients, worklist, enrolled,
          coordinators, leaked, pending, issue, services>>

Resources == {"mdns", "port", "bundle", "updates", "token"}
Settled == {"notLoaded", "loaded", "retry", "error", "failedUnload", "removed"}
States == Settled \cup {"setup", "unloading"}
Awaits == {"browse", "advertise", "bind", "enroll", "refresh", "heal",
           "platforms", "stopMdns", "stopHttp", "close"}

TypeOK ==
    /\ entryState \in [Entries -> States]
    /\ pc \in [Entries -> Awaits \cup {"none"}]
    /\ outcome \in [Entries -> {"notLoaded", "retry", "error"}]
    /\ intent \in [Entries -> {"stay", "reload", "remove"}]
    /\ held \in [Entries -> SUBSET Resources]
    /\ clients \in [Entries -> SUBSET Devices]
    /\ worklist \in [Entries -> SUBSET Devices]
    /\ enrolled \in [Entries -> SUBSET Devices]
    /\ coordinators \in [Entries -> SUBSET Devices]
    /\ leaked \in [Entries -> SUBSET (Resources \cup {"clients"})]
    /\ pending \in [Entries -> SUBSET {"options", "token"}]
    /\ issue \in [Entries -> BOOLEAN]
    /\ services \in BOOLEAN

Init ==
    /\ entryState = [e \in Entries |-> "notLoaded"]
    /\ pc = [e \in Entries |-> "none"]
    /\ outcome = [e \in Entries |-> "notLoaded"]
    /\ intent = [e \in Entries |-> "stay"]
    /\ held = [e \in Entries |-> {}]
    /\ clients = [e \in Entries |-> {}]
    /\ worklist = [e \in Entries |-> {}]
    /\ enrolled = [e \in Entries |-> {}]
    /\ coordinators = [e \in Entries |-> {}]
    /\ leaked = [e \in Entries |-> {}]
    /\ pending = [e \in Entries |-> {}]
    /\ issue = [e \in Entries |-> FALSE]
    /\ services = FALSE

At(e, await) == pc[e] = await
GoTo(e, await) == pc' = [pc EXCEPT ![e] = await]
Acquire(e, what) == held' = [held EXCEPT ![e] = @ \cup what]
Release(e, what) == held' = [held EXCEPT ![e] = @ \ what]

-----------------------------------------------------------------------------
(* Ends of an attempt.                                                     *)

\* The locals and the bundle of an attempt go with it.
ForgetAttempt(e) ==
    /\ worklist' = [worklist EXCEPT ![e] = {}]
    /\ enrolled' = [enrolled EXCEPT ![e] = {}]
    /\ coordinators' = [coordinators EXCEPT ![e] = {}]
    /\ outcome' = [outcome EXCEPT ![e] = "notLoaded"]
    /\ intent' = [intent EXCEPT ![e] = "stay"]

\* The operation returns or raises; its objects are dropped as they are.
Drop(e, newState) ==
    /\ entryState' = [entryState EXCEPT ![e] = newState]
    /\ GoTo(e, "none")
    /\ leaked' = [leaked EXCEPT ![e] = @ \cup held[e]
                      \cup (IF clients[e] # {} THEN {"clients"} ELSE {})]
    /\ held' = [held EXCEPT ![e] = {}]
    /\ clients' = [clients EXCEPT ![e] = {}]
    /\ ForgetAttempt(e)

\* _safe_stop_listener and the closing of the clients, then the given state.
TearDown(e, newState) ==
    /\ GoTo(e, "stopMdns")
    /\ outcome' = [outcome EXCEPT ![e] = newState]
    /\ UNCHANGED <<entryState, intent, held, clients, leaked, buildVars>>

StopMdns(e) ==
    /\ At(e, "stopMdns")
    /\ Release(e, {"mdns"})
    /\ GoTo(e, "stopHttp")
    /\ UNCHANGED <<entryState, opVars, clients, buildVars, leaked, pending,
                   issue, services>>

StopHttpForgetsSite(e) ==
    /\ At(e, "stopHttp")
    /\ GoTo(e, "close")
    /\ UNCHANGED <<entryState, opVars, held, clients, buildVars, leaked, pending,
                   issue, services>>

StopHttp(e) ==
    /\ At(e, "stopHttp")
    /\ Release(e, {"port"})
    /\ GoTo(e, "close")
    /\ UNCHANGED <<entryState, opVars, clients, buildVars, leaked, pending,
                   issue, services>>

\* The setup half of async_setup_entry, which begins with the services.
Begin(e) ==
    /\ entryState' = [entryState EXCEPT ![e] = "setup"]
    /\ GoTo(e, "browse")
    /\ services' = TRUE

\* The last client is closed: setup has failed, or the entry is unloaded and
\* Home Assistant goes on to what it was unloaded for.
CloseClients(e) ==
    /\ At(e, "close")
    /\ clients' = [clients EXCEPT ![e] = {}]
    /\ leaked' = [leaked EXCEPT ![e] = @ \cup held[e]]
    /\ held' = [held EXCEPT ![e] = {}]
    /\ IF outcome[e] = "notLoaded" /\ intent[e] = "reload"
       THEN Begin(e) /\ UNCHANGED issue
       ELSE /\ GoTo(e, "none")
            /\ IF outcome[e] = "notLoaded" /\ intent[e] = "remove"
               THEN /\ entryState' = [entryState EXCEPT ![e] = "removed"]
                    /\ issue' = [issue EXCEPT ![e] = FALSE]
               ELSE /\ entryState' = [entryState EXCEPT ![e] = outcome[e]]
                    /\ UNCHANGED issue
            /\ UNCHANGED services
    /\ ForgetAttempt(e)
    /\ UNCHANGED pending

-----------------------------------------------------------------------------
(* _setup_cloud                                                            *)

\* The mDNS browse, joined to the cloud's list; with no appliance setup fails.
Browse(e) ==
    /\ At(e, "browse")
    /\ \/ \E found \in SUBSET Appliances[e] \ {{}} :
             /\ worklist' = [worklist EXCEPT ![e] = found]
             /\ GoTo(e, "advertise")
             /\ UNCHANGED <<entryState, opVars, held, clients, enrolled,
                            coordinators, leaked>>
       \/ Drop(e, "error")
    /\ UNCHANGED <<pending, issue, services>>

\* listener.start, first half: the zeroconf instance may not be running yet.
Advertise(e) ==
    /\ At(e, "advertise")
    /\ \/ /\ Acquire(e, {"mdns"})
          /\ GoTo(e, "bind")
          /\ UNCHANGED <<entryState, opVars, clients, buildVars, leaked>>
       \/ "zeroconf" \in Faults /\ TearDown(e, "retry")
       \/ "startup" \in Faults /\ TearDown(e, "error")
    /\ UNCHANGED <<pending, issue, services>>

PortBusy(e) ==
    \E o \in Entries : Port[o] = Port[e] /\ "port" \in held[o] \cup leaked[o]

\* listener.start, second half.  Any OSError, whether the port is another entry's or the
\* system refuses it ("bind"), returns without the safe stop.
Bind(e) ==
    /\ At(e, "bind")
    /\ \/ /\ ~PortBusy(e)
          /\ Acquire(e, {"port"})
          /\ GoTo(e, "enroll")
          /\ UNCHANGED <<entryState, opVars, clients, buildVars, leaked>>
       \/ (PortBusy(e) \/ "bind" \in Faults) /\ Drop(e, "error")
       \/ "startup" \in Faults /\ TearDown(e, "error")
    /\ UNCHANGED <<pending, issue, services>>

\* enroll_all reports the appliances it could not reach and goes on.
Enroll(e) ==
    /\ At(e, "enroll")
    /\ \/ \E done \in SUBSET worklist[e] :
             /\ enrolled' = [enrolled EXCEPT ![e] = done]
             /\ GoTo(e, "refresh")
             /\ UNCHANGED <<entryState, opVars, held, clients, worklist,
                            coordinators, leaked>>
       \/ "enroll" \in Faults /\ TearDown(e, "error")
    /\ UNCHANGED <<pending, issue, services>>

\* One appliance after the other: its client is opened...
OpenClient(e) ==
    /\ At(e, "refresh")
    /\ clients[e] = coordinators[e]
    /\ \E d \in enrolled[e] \ clients[e] :
          clients' = [clients EXCEPT ![e] = @ \cup {d}]
    /\ UNCHANGED <<entryState, pc, opVars, held, buildVars, leaked, pending,
                   issue, services>>

RefreshFailsAbandons(e) == Drop(e, "retry")
RefreshFailsRepeats(e) ==
    /\ clients' = [clients EXCEPT ![e] = coordinators[e]]
    /\ UNCHANGED <<entryState, pc, opVars, held, leaked, buildVars>>
RefreshFails(e) == TearDown(e, "retry")

\* ... and its coordinator refreshed; one failure fails the household.
FirstRefresh(e) ==
    /\ At(e, "refresh")
    /\ clients[e] # coordinators[e]
    /\ \/ /\ coordinators' = [coordinators EXCEPT ![e] = clients[e]]
          /\ UNCHANGED <<entryState, pc, opVars, held, clients, worklist,
                         enrolled, leaked>>
       \/ "refresh" \in Faults /\ RefreshFails(e)
    /\ UNCHANGED <<pending, issue, services>>

ReportFailedOnlyRaises(e) == issue' = [issue EXCEPT ![e] = @ \/ worklist[e] # enrolled[e]]
ReportFailed(e) == issue' = [issue EXCEPT ![e] = worklist[e] # enrolled[e]]

\* Every enrolled appliance has its coordinator.
Built(e) ==
    /\ At(e, "refresh")
    /\ coordinators[e] = enrolled[e]
    /\ IF enrolled[e] = {}
       THEN TearDown(e, "retry") /\ UNCHANGED issue
       ELSE /\ ReportFailed(e)
            /\ Acquire(e, {"updates", "bundle"} \cup
                          (IF e \in Rotating THEN {"token"} ELSE {}))
            /\ GoTo(e, "heal")
            /\ UNCHANGED <<entryState, opVars, clients, buildVars, leaked>>
    /\ UNCHANGED <<pending, services>>

\* The identities have had their chance to heal, the platforms are forwarded.
Forward(e) ==
    /\ At(e, "heal")
    /\ entryState' = [entryState EXCEPT ![e] = "loaded"]
    /\ GoTo(e, "none")
    /\ UNCHANGED <<opVars, held, clients, buildVars, leaked, pending, issue,
                   services>>

-----------------------------------------------------------------------------
(* async_unload_entry                                                      *)

NoneLoaded == \A o \in Entries : entryState[o] # "loaded"

ReleasedByUnload == {"bundle", "updates", "token"}

FailedUnloadReleases(e) == Release(e, ReleasedByUnload)
FailedUnloadHolds(e) == UNCHANGED held

\* The platforms are unloaded: services, bundle, update listener and token task
\* go before the listener is stopped.
UnloadPlatforms(e) ==
    /\ At(e, "platforms")
    /\ \/ /\ services' = (services /\ ~NoneLoaded)
          /\ Release(e, ReleasedByUnload)
          /\ GoTo(e, "stopMdns")
          /\ outcome' = [outcome EXCEPT ![e] = "notLoaded"]
          /\ UNCHANGED <<entryState, issue>>
       \/ /\ "platforms" \in Faults
          /\ GoTo(e, "none")
          /\ IF intent[e] = "remove"
             THEN /\ entryState' = [entryState EXCEPT ![e] = "removed"]
                  /\ issue' = [issue EXCEPT ![e] = FALSE]
             ELSE /\ entryState' = [entryState EXCEPT ![e] = "failedUnload"]
                  /\ UNCHANGED issue
          /\ FailedUnloadHolds(e)
          /\ UNCHANGED <<services, outcome>>
    /\ UNCHANGED <<intent, clients, buildVars, leaked, pending>>

-----------------------------------------------------------------------------
(* Home Assistant and its user.                                            *)

Unlocked(e) == pc[e] = "none"

\* The entry is enabled, reloaded after an error, or retried.
SetUp(e) ==
    /\ Unlocked(e)
    /\ entryState[e] \in {"notLoaded", "error", "retry"}
    /\ Begin(e)
    /\ UNCHANGED <<opVars, held, clients, buildVars, leaked, pending, issue>>

Unload(e, why) ==
    /\ Unlocked(e)
    /\ entryState[e] = "loaded"
    /\ entryState' = [entryState EXCEPT ![e] = "unloading"]
    /\ GoTo(e, "platforms")
    /\ intent' = [intent EXCEPT ![e] = why]
    /\ UNCHANGED <<outcome, held, clients, buildVars, leaked, issue, services>>

UserUnloads(e) ==
    /\ \E why \in {"stay", "reload", "remove"} : Unload(e, why)
    /\ UNCHANGED pending

\* Removal of an entry that is not loaded.
UserRemoves(e) ==
    /\ Unlocked(e)
    /\ entryState[e] \in {"notLoaded", "error", "retry", "failedUnload"}
    /\ entryState' = [entryState EXCEPT ![e] = "removed"]
    /\ issue' = [issue EXCEPT ![e] = FALSE]
    /\ UNCHANGED <<pc, opVars, held, clients, buildVars, leaked, pending, services>>

\* async_update_entry tells the update listener, which reloads in a task.
OptionsChange(e) ==
    /\ "updates" \in held[e]
    /\ pending' = [pending EXCEPT ![e] = @ \cup {"options"}]
    /\ UNCHANGED <<entryState, pc, opVars, held, clients, buildVars, leaked,
                   issue, services>>

\* _token_refresh_loop stores a rotated refresh token in the entry.
TokenRotates(e) ==
    /\ {"token", "updates"} \subseteq held[e]
    /\ pending' = [pending EXCEPT ![e] = @ \cup {"token"}]
    /\ UNCHANGED <<entryState, pc, opVars, held, clients, buildVars, leaked,
                   issue, services>>

\* _async_options_updated gets the entry's lock.
Reload(e) ==
    \E cause \in pending[e] :
        /\ Unlocked(e)
        /\ pending' = [pending EXCEPT ![e] = @ \ {cause}]
        /\ \/ Unload(e, "reload")
           \/ /\ entryState[e] \in {"error", "retry"}
              /\ Begin(e)
              /\ UNCHANGED <<opVars, held, clients, buildVars, leaked, issue>>
           \/ /\ entryState[e] \in {"notLoaded", "failedUnload", "removed"}
              /\ UNCHANGED <<entryState, pc, opVars, held, clients, buildVars,
                             leaked, issue, services>>

-----------------------------------------------------------------------------
\* The entry's operation goes on; every await of it is bounded.
Step(e) ==
    \/ Browse(e) \/ Advertise(e) \/ Bind(e) \/ Enroll(e)
    \/ OpenClient(e) \/ FirstRefresh(e) \/ Built(e) \/ Forward(e)
    \/ UnloadPlatforms(e) \/ StopMdns(e) \/ StopHttp(e) \/ CloseClients(e)

Outside(e) ==
    \/ SetUp(e) \/ UserUnloads(e) \/ UserRemoves(e)
    \/ OptionsChange(e) \/ TokenRotates(e) \/ Reload(e)

AllRemoved == (\A e \in Entries : entryState[e] = "removed") /\ UNCHANGED vars

Next == (\E e \in Entries : Step(e) \/ Outside(e)) \/ AllRemoved

Spec == Init /\ [][Next]_vars

FairSpec == Spec /\ \A e \in Entries : WF_vars(Step(e))

-----------------------------------------------------------------------------
(* Properties                                                              *)

\* What a failed attempt or an unload leaves behind is at most its mDNS record:
\* never the port, an open client, the update listener or the token task, so a
\* port stays busy only while a bundle holds it (__init__.py:413-422, issue #2).
NothingButMdnsLeaks == \A e \in Entries : leaked[e] \subseteq {"mdns"}

\* Of all the ends of a setup, an unload and a removal one alone drops what it holds:
\* the port that could not be bound (__init__.py:277-283).  However entries retry,
\* reload and fail beside each other, every other end releases it all.
LeaksOnlyAtBind ==
    [][\A e \in Entries : leaked'[e] # leaked[e] =>
            pc[e] = "bind" /\ entryState'[e] = "error"]_vars

\* A loaded entry serves: every enrolled appliance has a client and a coordinator
\* and the listener is up to hear it; an unload that failed has not undone that.
LoadedServes ==
    \A e \in Entries : entryState[e] \in {"loaded", "failedUnload"} =>
        /\ {"mdns", "port", "bundle", "updates"} \subseteq held[e]
        /\ coordinators[e] = enrolled[e] /\ clients[e] = enrolled[e]
        /\ enrolled[e] # {}

\* The repair issue tells of the latest successful setup, never of an earlier
\* one, and does not outlive the entry (__init__.py:371-388, 482).
IssueIsCurrent ==
    \A e \in Entries :
        /\ entryState[e] = "loaded" => (issue[e] <=> coordinators[e] # worklist[e])
        /\ entryState[e] = "removed" => ~issue[e]

\* Every setup, teardown and unload ends: no entry hangs between two states.
OperationsEnd == \A e \in Entries : pc[e] # "none" ~> pc[e] = "none"

=============================================================================
