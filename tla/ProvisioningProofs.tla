------------------------- MODULE ProvisioningProofs -------------------------
(***************************************************************************)
(* Proofs about Provisioning, for any appliances and any number of         *)
(* commands.                                                               *)
(***************************************************************************)
EXTENDS Provisioning, TLAPS

(* What the local variables of a command say of the appliance and of the    *)
(* files, step by step.                                                     *)

Commissioning == {"refresh", "tokenOpen", "tokenWrite", "tan", "postTan"}

\* Which command is at which step, with keys of its own that are not the cloud's.
CommandInv ==
    /\ run.cmd # "wifi" => run.keys # None
    /\ run.keys # Cloud
    /\ \A a \in Appliances : file[a].keys # Cloud /\ run.kept[a].keys # Cloud
    /\ pc \in Commissioning \cup {"route"} => run.cmd = "commission" /\ ~run.route
    /\ pc \in Commissioning \cup {"fab", "put1", "put2"} => run.status # "ok"
    /\ pc \in {"put1", "put2"} => run.cmd # "wifi" /\ (run.route => run.cmd = "pair")
    /\ pc = "fab" => run.cmd = "pair"
    /\ pc \in {"wlan1", "wlan2"} => run.cmd # "commission"
    /\ pc \in {"enable", "subscribe", "open", "write"} => run.cmd # "wifi"

\* Before the first request nothing is known, and what the appliance took is in force.
TookInv ==
    /\ run.took => keys[run.app] = run.keys /\ run.keys # None
    /\ pc = "idle" => ~run.took
    /\ pc \in Commissioning \cup {"fab", "put1"} => ~run.took
    /\ pc \in Commissioning \cup {"fab", "put1", "put2"} => ~run.heard
    /\ pc = "ended" /\ run.cmd = "commission" => ~run.heard

\* A pair past its commissioning, and a run with a route, have their keys in force.
KeyedInv ==
    /\ pc \in {"wlan1", "wlan2"} /\ run.cmd = "pair" => keys[run.app] = run.keys
    /\ pc \in {"enable", "subscribe", "open", "write"} /\ run.route => keys[run.app] = run.keys
    /\ pc = "write" => \A a \in Appliances :
            run.kept[a].route /\ ~stale[a] => run.kept[a].keys = keys[a]

TokenInv ==
    faults = {} =>
        /\ pc \notin {"tokenOpen", "tokenWrite"} => oauth.stored = {oauth.cloud}
        /\ pc \in {"tokenOpen", "tokenWrite"} => run.token = oauth.cloud

RegisterInv ==
    /\ pc = "subscribe" => /\ run.subs < run.attempt
                           /\ "lost" \notin faults /\ ~run.unlisted => run.subs = 0
    /\ pc \in Steps \ {"idle", "subscribe", "open", "write"} => run.subs = 0

KeptInv ==
    "crash" \notin faults /\ pc = "write" => \A a \in saved : run.kept[a] # NoEntry

IInv ==
    /\ TypeOK
    /\ CommandInv /\ TookInv /\ KeyedInv /\ TokenInv /\ RegisterInv /\ KeptInv
    /\ RoutedEntriesWork /\ PairBeatsCloud /\ RegistersOnce /\ EntriesStay

-----------------------------------------------------------------------------
(* Facts about the data.                                                    *)

LEMMA KeysDiffer ==
    /\ None \notin Keys /\ Cloud # None /\ Cloud \in Keys /\ Home # Cloud
    /\ \A k \in Generated : k # Cloud /\ k # None
    /\ NoEntry \notin Entries /\ NoEntry.keys = None /\ ~NoEntry.route
BY DEF None, Keys, Generated, Home, Cloud, NoEntry, Entries

LEMMA NoRunType == NoRun \in Runs /\ Erased \in Files
BY AppliancesAssumption, BoundsAssumption
   DEF NoRun, NewRun, Runs, Statuses, LastAttempt, Erased, Files

\* What an update of the local variables changes, and what it keeps.
LEMMA RouteFields ==
    ASSUME NEW r \in Runs, NEW b \in BOOLEAN
    PROVE  LET q == [r EXCEPT !.route = b] IN
           /\ q \in Runs /\ q.route = b
           /\ q.cmd = r.cmd /\ q.app = r.app /\ q.keys = r.keys /\ q.subs = r.subs
           /\ q.unlisted = r.unlisted
           /\ q.took = r.took /\ q.heard = r.heard /\ q.attempt = r.attempt
           /\ q.token = r.token /\ q.kept = r.kept
BY Zenon DEF Runs

LEMMA AttemptFields ==
    ASSUME NEW r \in Runs, NEW s \in 0..LastAttempt, NEW n \in 1..LastAttempt,
           NEW u \in BOOLEAN
    PROVE  [r EXCEPT !.subs = s, !.attempt = n, !.unlisted = u] \in Runs
BY Zenon DEF Runs

-----------------------------------------------------------------------------
(* Every step preserves the invariant.                                      *)

LEMMA StartCommissionStep ==
    ASSUME IInv, NEW a \in Appliances, StartCommission(a)
    PROVE  IInv'
<1>1. TypeOK'
    BY KeysDiffer, NoRunType, BoundsAssumption, SMTT(30)
       DEF IInv, TypeOK, StartCommission, Chooses, Start, GoTo, End, Note,
           Answered, device, history, Steps, Statuses, LastAttempt, Runs, NewRun,
           Files, Keys, Entries, Erased
<1>2. CommandInv' /\ TookInv' /\ KeyedInv'
    <2>1. PICK k \in Keys, step \in {"route", "refresh", "put1"} :
            Chooses(a, k) /\ Start("commission", a, k, step)
        BY DEF StartCommission
    <2>2. k # None /\ k # Cloud
        BY <2>1, KeysDiffer DEF Chooses, IInv, CommandInv, Generated, None, Cloud, Home
    <2>3. /\ run'.cmd = "commission" /\ run'.keys = k /\ run'.app = a /\ run'.kept = Erased
          /\ run'.status = "none" /\ ~run'.route /\ ~run'.took /\ ~run'.heard
          /\ file' = file /\ keys' = keys /\ stale' = stale /\ pc' = step
        BY <2>1, Zenon DEF Start, NewRun, device, history
    <2>4. CommandInv'
        <3>1. /\ k # Cloud /\ k # None /\ \A b \in Appliances : Erased[b].keys # Cloud
              /\ \A b \in Appliances : file'[b].keys # Cloud
            BY <2>2, <2>3, KeysDiffer DEF IInv, CommandInv, Erased
        <3> QED
            BY <2>3, <3>1 DEF CommandInv, Commissioning
    <2>5. TookInv' /\ KeyedInv'
        BY <2>3 DEF TookInv, KeyedInv, Commissioning
    <2> QED
        BY <2>4, <2>5
<1>3. TokenInv' /\ RegisterInv' /\ RegistersOnce'
    BY KeysDiffer, NoRunType, SMTT(30)
       DEF IInv, TypeOK, Runs, Files, TokenInv, RegisterInv, RegistersOnce,
           CommandInv, Steps, StartCommission, Chooses, Start, GoTo, End, Note,
           Answered, device, history, NoRun, NewRun, Commissioning
<1>4. KeptInv' /\ EntriesStay'
    BY KeysDiffer, NoRunType, SMTT(30)
       DEF IInv, TypeOK, Runs, Files, KeptInv, EntriesStay, StartCommission,
           Chooses, Start, GoTo, End, Note, Answered, device, history, NoRun,
           NewRun, Commissioning
<1>5. RoutedEntriesWork' /\ PairBeatsCloud'
    BY KeysDiffer, NoRunType, SMTT(30)
       DEF IInv, TypeOK, Runs, Files, RoutedEntriesWork, PairBeatsCloud,
           KeyedInv, CommandInv, StartCommission, Chooses, Start, GoTo, End,
           Note, Answered, device, history, NoRun, NewRun, Commissioning, Erased
<1> QED
    BY <1>1, <1>2, <1>3, <1>4, <1>5 DEF IInv

LEMMA StartPairStep ==
    ASSUME IInv, NEW a \in Appliances, StartPair(a)
    PROVE  IInv'
<1>1. TypeOK'
    BY KeysDiffer, NoRunType, BoundsAssumption, SMTT(30)
       DEF IInv, TypeOK, StartPair, Chooses, Start, GoTo, End, Note,
           Answered, device, history, Steps, Statuses, LastAttempt, Runs, NewRun,
           Files, Keys, Entries, Erased
<1>2. CommandInv' /\ TookInv' /\ KeyedInv'
    <2>1. PICK k \in Keys, step \in {"fab"} :
            Chooses(a, k) /\ Start("pair", a, k, step)
        BY DEF StartPair
    <2>2. k # None /\ k # Cloud
        BY <2>1, KeysDiffer DEF Chooses, IInv, CommandInv, Generated, None, Cloud, Home
    <2>3. /\ run'.cmd = "pair" /\ run'.keys = k /\ run'.app = a /\ run'.kept = Erased
          /\ run'.status = "none" /\ ~run'.route /\ ~run'.took /\ ~run'.heard
          /\ file' = file /\ keys' = keys /\ stale' = stale /\ pc' = step
        BY <2>1, Zenon DEF Start, NewRun, device, history
    <2>4. CommandInv'
        <3>1. /\ k # Cloud /\ k # None /\ \A b \in Appliances : Erased[b].keys # Cloud
              /\ \A b \in Appliances : file'[b].keys # Cloud
            BY <2>2, <2>3, KeysDiffer DEF IInv, CommandInv, Erased
        <3> QED
            BY <2>3, <3>1 DEF CommandInv, Commissioning
    <2>5. TookInv' /\ KeyedInv'
        BY <2>3 DEF TookInv, KeyedInv, Commissioning
    <2> QED
        BY <2>4, <2>5
<1>3. TokenInv' /\ RegisterInv' /\ RegistersOnce'
    BY KeysDiffer, NoRunType, SMTT(30)
       DEF IInv, TypeOK, Runs, Files, TokenInv, RegisterInv, RegistersOnce,
           CommandInv, Steps, StartPair, Chooses, Start, GoTo, End, Note,
           Answered, device, history, NoRun, NewRun, Commissioning
<1>4. KeptInv' /\ EntriesStay'
    BY KeysDiffer, NoRunType, SMTT(30)
       DEF IInv, TypeOK, Runs, Files, KeptInv, EntriesStay, StartPair,
           Chooses, Start, GoTo, End, Note, Answered, device, history, NoRun,
           NewRun, Commissioning
<1>5. RoutedEntriesWork' /\ PairBeatsCloud'
    BY KeysDiffer, NoRunType, SMTT(30)
       DEF IInv, TypeOK, Runs, Files, RoutedEntriesWork, PairBeatsCloud,
           KeyedInv, CommandInv, StartPair, Chooses, Start, GoTo, End, Note,
           Answered, device, history, NoRun, NewRun, Commissioning, Erased
<1> QED
    BY <1>1, <1>2, <1>3, <1>4, <1>5 DEF IInv

LEMMA StartWifiStep ==
    ASSUME IInv, NEW a \in Appliances, StartWifi(a)
    PROVE  IInv'
<1>1. TypeOK'
    BY KeysDiffer, NoRunType, BoundsAssumption, SMTT(30)
       DEF IInv, TypeOK, StartWifi, Start, GoTo, End, Note, Answered, device,
           history, Steps, Statuses, LastAttempt, Runs, NewRun, Files, Keys,
           Entries, Erased
<1>2. CommandInv' /\ TookInv' /\ KeyedInv'
    <2>1. CommandInv'
        BY KeysDiffer, NoRunType, SMTT(30)
           DEF IInv, TypeOK, Runs, Files, CommandInv, StartWifi, Start, GoTo,
               End, Note, Answered, device, history, NoRun, NewRun,
               Commissioning, Erased
    <2>2. TookInv'
        BY KeysDiffer, NoRunType, SMTT(30)
           DEF IInv, TypeOK, Runs, Files, TookInv, CommandInv, Statuses,
               StartWifi, Start, GoTo, End, Note, Answered, device, history,
               NoRun, NewRun, Commissioning, Erased
    <2>3. KeyedInv'
        BY KeysDiffer, NoRunType, SMTT(30)
           DEF IInv, TypeOK, Runs, Files, CommandInv, TookInv, KeyedInv,
               RoutedEntriesWork, StartWifi, Start, GoTo, End, Note, Answered,
               device, history, NoRun, NewRun, Commissioning, Erased, Entries
    <2> QED
        BY <2>1, <2>2, <2>3
<1>3. TokenInv' /\ RegisterInv' /\ RegistersOnce'
    BY KeysDiffer, NoRunType, SMTT(30)
       DEF IInv, TypeOK, Runs, Files, TokenInv, RegisterInv, RegistersOnce,
           CommandInv, Steps, StartWifi, Start, GoTo, End, Note, Answered,
           device, history, NoRun, NewRun, Commissioning
<1>4. KeptInv' /\ EntriesStay'
    BY KeysDiffer, NoRunType, SMTT(30)
       DEF IInv, TypeOK, Runs, Files, KeptInv, EntriesStay, StartWifi, Start,
           GoTo, End, Note, Answered, device, history, NoRun, NewRun,
           Commissioning
<1>5. RoutedEntriesWork' /\ PairBeatsCloud'
    BY KeysDiffer, NoRunType, SMTT(30)
       DEF IInv, TypeOK, Runs, Files, RoutedEntriesWork, PairBeatsCloud,
           KeyedInv, CommandInv, StartWifi, Start, GoTo, End, Note, Answered,
           device, history, NoRun, NewRun, Commissioning, Erased
<1> QED
    BY <1>1, <1>2, <1>3, <1>4, <1>5 DEF IInv

LEMMA CloudPairsStep ==
    ASSUME IInv, NEW a \in Appliances, CloudPairs(a)
    PROVE  IInv'
<1>1. TypeOK'
    BY KeysDiffer, NoRunType, BoundsAssumption, SMTT(30)
       DEF IInv, TypeOK, CloudPairs, GoTo, End, Note, Answered, device,
           history, Steps, Statuses, LastAttempt, Runs, NewRun, Files, Keys,
           Entries, Erased
<1>2. CommandInv' /\ TookInv' /\ KeyedInv'
    <2>1. CommandInv'
        BY KeysDiffer, NoRunType, SMTT(30)
           DEF IInv, TypeOK, Runs, Files, CommandInv, CloudPairs, GoTo, End,
               Note, Answered, device, history, NoRun, NewRun, Commissioning,
               Erased
    <2>2. TookInv'
        BY KeysDiffer, NoRunType, SMTT(30)
           DEF IInv, TypeOK, Runs, Files, TookInv, CommandInv, Statuses,
               CloudPairs, GoTo, End, Note, Answered, device, history, NoRun,
               NewRun, Commissioning, Erased
    <2>3. KeyedInv'
        BY KeysDiffer, NoRunType, SMTT(30)
           DEF IInv, TypeOK, Runs, Files, CommandInv, TookInv, KeyedInv,
               RoutedEntriesWork, CloudPairs, GoTo, End, Note, Answered, device,
               history, NoRun, NewRun, Commissioning, Erased, Entries
    <2> QED
        BY <2>1, <2>2, <2>3
<1>3. TokenInv' /\ RegisterInv' /\ RegistersOnce'
    BY KeysDiffer, NoRunType, SMTT(30)
       DEF IInv, TypeOK, Runs, Files, TokenInv, RegisterInv, RegistersOnce,
           CommandInv, Steps, CloudPairs, GoTo, End, Note, Answered, device,
           history, NoRun, NewRun, Commissioning
<1>4. KeptInv' /\ EntriesStay'
    BY KeysDiffer, NoRunType, SMTT(30)
       DEF IInv, TypeOK, Runs, Files, KeptInv, EntriesStay, CloudPairs, GoTo,
           End, Note, Answered, device, history, NoRun, NewRun, Commissioning
<1>5. RoutedEntriesWork' /\ PairBeatsCloud'
    <2>1. /\ keys[a] = None /\ keys' = [keys EXCEPT ![a] = Cloud]
          /\ file' = file /\ stale' = stale /\ net' = net
        BY DEF CloudPairs, history
    <2>2. \A b \in Appliances : file[b].route => file[b].keys # None
        BY KeysDiffer DEF IInv, TypeOK, Files, Entries
    <2>3. RoutedEntriesWork'
        BY <2>1, <2>2 DEF IInv, TypeOK, RoutedEntriesWork
    <2>4. PairBeatsCloud'
        BY <2>1 DEF IInv, TypeOK, PairBeatsCloud
    <2> QED
        BY <2>3, <2>4
<1> QED
    BY <1>1, <1>2, <1>3, <1>4, <1>5 DEF IInv

LEMMA FactoryResetStep ==
    ASSUME IInv, NEW a \in Appliances, FactoryReset(a)
    PROVE  IInv'
<1>1. TypeOK'
    BY KeysDiffer, NoRunType, BoundsAssumption, SMTT(30)
       DEF IInv, TypeOK, FactoryReset, GoTo, End, Note, Answered, device,
           history, Steps, Statuses, LastAttempt, Runs, NewRun, Files, Keys,
           Entries, Erased
<1>2. CommandInv' /\ TookInv' /\ KeyedInv'
    BY KeysDiffer, NoRunType, SMTT(30)
       DEF IInv, TypeOK, Runs, Files, CommandInv, TookInv, KeyedInv,
           RoutedEntriesWork, FactoryReset, GoTo, End, Note, Answered, device,
           history, NoRun, NewRun, Commissioning
<1>3. TokenInv' /\ RegisterInv' /\ RegistersOnce'
    BY KeysDiffer, NoRunType, SMTT(30)
       DEF IInv, TypeOK, Runs, Files, TokenInv, RegisterInv, RegistersOnce,
           CommandInv, Steps, FactoryReset, GoTo, End, Note, Answered, device,
           history, NoRun, NewRun, Commissioning
<1>4. KeptInv' /\ EntriesStay'
    BY KeysDiffer, NoRunType, SMTT(30)
       DEF IInv, TypeOK, Runs, Files, KeptInv, EntriesStay, FactoryReset,
           GoTo, End, Note, Answered, device, history, NoRun, NewRun,
           Commissioning
<1>5. RoutedEntriesWork' /\ PairBeatsCloud'
    BY KeysDiffer, NoRunType, SMTT(30)
       DEF IInv, TypeOK, Runs, Files, RoutedEntriesWork, PairBeatsCloud,
           KeyedInv, CommandInv, FactoryReset, GoTo, End, Note, Answered, device,
           history, NoRun, NewRun, Commissioning, Erased
<1> QED
    BY <1>1, <1>2, <1>3, <1>4, <1>5 DEF IInv

LEMMA RefreshStep ==
    ASSUME IInv, Refresh
    PROVE  IInv'
<1>1. TypeOK'
    BY KeysDiffer, NoRunType, BoundsAssumption, SMTT(30)
       DEF IInv, TypeOK, Refresh, AfterRefresh, GoTo, End, Note, Answered,
           device, history, Steps, Statuses, LastAttempt, Runs, NewRun, Files,
           Keys, Entries, Erased
<1>2. CommandInv' /\ TookInv' /\ KeyedInv'
    BY KeysDiffer, NoRunType, SMTT(30)
       DEF IInv, TypeOK, Runs, Files, CommandInv, TookInv, KeyedInv,
           RoutedEntriesWork, Refresh, AfterRefresh, GoTo, End, Note, Answered,
           device, history, NoRun, NewRun, Commissioning
<1>3. TokenInv' /\ RegisterInv' /\ RegistersOnce'
    <2>1. RegisterInv' /\ RegistersOnce'
        BY KeysDiffer, SMTT(30)
           DEF IInv, TypeOK, Runs, RegisterInv, RegistersOnce, Refresh, AfterRefresh,
               Steps, GoTo, Answered, Note
    <2>2. CASE UNCHANGED <<oauth, faults>> /\ GoTo("ended", run)
        <3>1. pc = "refresh"
            BY DEF Refresh
        <3>2. pc' = "ended" /\ oauth' = oauth /\ faults' = faults
            BY <2>2 DEF GoTo
        <3> QED
            <4>1. TokenInv
                BY DEF IInv
            <4> QED
                BY <3>1, <3>2, <4>1, <2>1 DEF TokenInv
    <2>3. ASSUME NEW rotates \in BOOLEAN, NEW answered \in BOOLEAN, NEW token,
                 token = IF rotates THEN oauth.cloud + 1 ELSE oauth.cloud,
                 oauth.stored = {oauth.cloud},
                 oauth' = [oauth EXCEPT !.cloud = token],
                 GoTo(IF answered THEN AfterRefresh(rotates) ELSE "ended",
                      [run EXCEPT !.token = token]),
                 Answered(answered)
          PROVE  TokenInv'
        <3>1. oauth'.cloud = token /\ oauth'.stored = oauth.stored /\ run'.token = token
            BY <2>3 DEF IInv, TypeOK, Runs, GoTo
        <3>2. ~answered => faults' # {}
            BY <2>3 DEF Answered, Note
        <3> QED
            BY <2>3, <3>1, <3>2 DEF TokenInv, GoTo, AfterRefresh
    <2> QED
        BY <2>1, <2>2, <2>3 DEF Refresh
<1>4. KeptInv' /\ EntriesStay'
    BY KeysDiffer, NoRunType, SMTT(30)
       DEF IInv, TypeOK, Runs, Files, KeptInv, EntriesStay, Refresh,
           AfterRefresh, GoTo, End, Note, Answered, device, history, NoRun,
           NewRun, Commissioning
<1>5. RoutedEntriesWork' /\ PairBeatsCloud'
    BY KeysDiffer, NoRunType, SMTT(30)
       DEF IInv, TypeOK, Runs, Files, RoutedEntriesWork, PairBeatsCloud,
           KeyedInv, CommandInv, Refresh, AfterRefresh, GoTo, End, Note,
           Answered, device, history, NoRun, NewRun, Commissioning, Erased
<1> QED
    BY <1>1, <1>2, <1>3, <1>4, <1>5 DEF IInv

LEMMA OpenTokensStep ==
    ASSUME IInv, OpenTokens
    PROVE  IInv'
<1>1. TypeOK'
    BY KeysDiffer, NoRunType, BoundsAssumption, SMTT(30)
       DEF IInv, TypeOK, OpenTokens, GoTo, End, Note, Answered, device,
           history, Steps, Statuses, LastAttempt, Runs, NewRun, Files, Keys,
           Entries, Erased
<1>2. CommandInv' /\ TookInv' /\ KeyedInv'
    BY KeysDiffer, NoRunType, SMTT(30)
       DEF IInv, TypeOK, Runs, Files, CommandInv, TookInv, KeyedInv,
           RoutedEntriesWork, OpenTokens, GoTo, End, Note, Answered, device,
           history, NoRun, NewRun, Commissioning
<1>3. TokenInv' /\ RegisterInv' /\ RegistersOnce'
    BY KeysDiffer, NoRunType, SMTT(30)
       DEF IInv, TypeOK, Runs, Files, TokenInv, RegisterInv, RegistersOnce,
           CommandInv, Steps, OpenTokens, GoTo, End, Note, Answered, device,
           history, NoRun, NewRun, Commissioning
<1>4. KeptInv' /\ EntriesStay'
    BY KeysDiffer, NoRunType, SMTT(30)
       DEF IInv, TypeOK, Runs, Files, KeptInv, EntriesStay, OpenTokens, GoTo,
           End, Note, Answered, device, history, NoRun, NewRun, Commissioning
<1>5. RoutedEntriesWork' /\ PairBeatsCloud'
    BY KeysDiffer, NoRunType, SMTT(30)
       DEF IInv, TypeOK, Runs, Files, RoutedEntriesWork, PairBeatsCloud,
           KeyedInv, CommandInv, OpenTokens, GoTo, End, Note, Answered, device,
           history, NoRun, NewRun, Commissioning, Erased
<1> QED
    BY <1>1, <1>2, <1>3, <1>4, <1>5 DEF IInv

LEMMA WriteTokensStep ==
    ASSUME IInv, WriteTokens
    PROVE  IInv'
<1>1. TypeOK'
    BY KeysDiffer, NoRunType, BoundsAssumption, SMTT(30)
       DEF IInv, TypeOK, WriteTokens, GoTo, End, Note, Answered, device,
           history, Steps, Statuses, LastAttempt, Runs, NewRun, Files, Keys,
           Entries, Erased
<1>2. CommandInv' /\ TookInv' /\ KeyedInv'
    BY KeysDiffer, NoRunType, SMTT(30)
       DEF IInv, TypeOK, Runs, Files, CommandInv, TookInv, KeyedInv,
           RoutedEntriesWork, WriteTokens, GoTo, End, Note, Answered, device,
           history, NoRun, NewRun, Commissioning
<1>3. TokenInv' /\ RegisterInv' /\ RegistersOnce'
    BY KeysDiffer, NoRunType, SMTT(30)
       DEF IInv, TypeOK, Runs, Files, TokenInv, RegisterInv, RegistersOnce,
           CommandInv, Steps, WriteTokens, GoTo, End, Note, Answered, device,
           history, NoRun, NewRun, Commissioning
<1>4. KeptInv' /\ EntriesStay'
    BY KeysDiffer, NoRunType, SMTT(30)
       DEF IInv, TypeOK, Runs, Files, KeptInv, EntriesStay, WriteTokens,
           GoTo, End, Note, Answered, device, history, NoRun, NewRun,
           Commissioning
<1>5. RoutedEntriesWork' /\ PairBeatsCloud'
    BY KeysDiffer, NoRunType, SMTT(30)
       DEF IInv, TypeOK, Runs, Files, RoutedEntriesWork, PairBeatsCloud,
           KeyedInv, CommandInv, WriteTokens, GoTo, End, Note, Answered, device,
           history, NoRun, NewRun, Commissioning, Erased
<1> QED
    BY <1>1, <1>2, <1>3, <1>4, <1>5 DEF IInv

LEMMA FetchTanStep ==
    ASSUME IInv, FetchTan
    PROVE  IInv'
<1>1. TypeOK'
    BY KeysDiffer, NoRunType, BoundsAssumption, SMTT(30)
       DEF IInv, TypeOK, FetchTan, GoTo, End, Note, Answered, device,
           history, Steps, Statuses, LastAttempt, Runs, NewRun, Files, Keys,
           Entries, Erased
<1>2. CommandInv' /\ TookInv' /\ KeyedInv'
    BY KeysDiffer, NoRunType, SMTT(30)
       DEF IInv, TypeOK, Runs, Files, CommandInv, TookInv, KeyedInv,
           RoutedEntriesWork, FetchTan, GoTo, End, Note, Answered, device,
           history, NoRun, NewRun, Commissioning
<1>3. TokenInv' /\ RegisterInv' /\ RegistersOnce'
    BY KeysDiffer, NoRunType, SMTT(30)
       DEF IInv, TypeOK, Runs, Files, TokenInv, RegisterInv, RegistersOnce,
           CommandInv, Steps, FetchTan, GoTo, End, Note, Answered, device,
           history, NoRun, NewRun, Commissioning
<1>4. KeptInv' /\ EntriesStay'
    BY KeysDiffer, NoRunType, SMTT(30)
       DEF IInv, TypeOK, Runs, Files, KeptInv, EntriesStay, FetchTan, GoTo,
           End, Note, Answered, device, history, NoRun, NewRun, Commissioning
<1>5. RoutedEntriesWork' /\ PairBeatsCloud'
    BY KeysDiffer, NoRunType, SMTT(30)
       DEF IInv, TypeOK, Runs, Files, RoutedEntriesWork, PairBeatsCloud,
           KeyedInv, CommandInv, FetchTan, GoTo, End, Note, Answered, device,
           history, NoRun, NewRun, Commissioning, Erased
<1> QED
    BY <1>1, <1>2, <1>3, <1>4, <1>5 DEF IInv

LEMMA PostTanStep ==
    ASSUME IInv, PostTan
    PROVE  IInv'
<1>1. TypeOK'
    <2>1. PICK taken \in BOOLEAN, answered \in BOOLEAN :
            /\ gate' = [gate EXCEPT ![run.app] = IF taken THEN TRUE ELSE @]
            /\ GoTo(IF taken /\ answered THEN "put1" ELSE "ended", run)
            /\ Answered(answered)
        BY DEF PostTan
    <2>2. gate' \in [Appliances -> BOOLEAN]
        BY <2>1 DEF IInv, TypeOK
    <2>3. pc' \in Steps /\ run' = run /\ faults' \subseteq {"crash", "lost"}
        BY <2>1 DEF IInv, TypeOK, GoTo, Answered, Note, Steps
    <2> QED
        BY <2>2, <2>3 DEF IInv, TypeOK, PostTan
<1>2. CommandInv' /\ TookInv' /\ KeyedInv'
    BY KeysDiffer, NoRunType, SMTT(30)
       DEF IInv, TypeOK, Runs, Files, CommandInv, TookInv, KeyedInv,
           RoutedEntriesWork, PostTan, GoTo, End, Note, Answered, device,
           history, NoRun, NewRun, Commissioning
<1>3. TokenInv' /\ RegisterInv' /\ RegistersOnce'
    BY KeysDiffer, NoRunType, SMTT(30)
       DEF IInv, TypeOK, Runs, Files, TokenInv, RegisterInv, RegistersOnce,
           CommandInv, Steps, PostTan, GoTo, End, Note, Answered, device,
           history, NoRun, NewRun, Commissioning
<1>4. KeptInv' /\ EntriesStay'
    BY KeysDiffer, NoRunType, SMTT(30)
       DEF IInv, TypeOK, Runs, Files, KeptInv, EntriesStay, PostTan, GoTo,
           End, Note, Answered, device, history, NoRun, NewRun, Commissioning
<1>5. RoutedEntriesWork' /\ PairBeatsCloud'
    BY KeysDiffer, NoRunType, SMTT(30)
       DEF IInv, TypeOK, Runs, Files, RoutedEntriesWork, PairBeatsCloud,
           KeyedInv, CommandInv, PostTan, GoTo, End, Note, Answered, device,
           history, NoRun, NewRun, Commissioning, Erased
<1> QED
    BY <1>1, <1>2, <1>3, <1>4, <1>5 DEF IInv

LEMMA PutStep ==
    ASSUME IInv, Put
    PROVE  IInv'
<1> DEFINE Reached(answered, status) ==
        /\ Commissioned(run.app, status)
        /\ LET last == IF answered THEN status ELSE run.status IN
            GoTo(AfterCommissioning(last),
                 [run EXCEPT !.status = last,
                             !.took = IF status = "ok" THEN TRUE ELSE @,
                             !.heard = IF status = "ok" THEN answered
                                       ELSE answered /\ run.took])
        /\ Answered(answered)
<1> DEFINE Missed == GoTo(AfterCommissioning(run.status), run) /\ UNCHANGED <<keys, faults>>
<1>a. \/ \E answered \in BOOLEAN, status \in {"ok", "403", "error"} : Reached(answered, status)
      \/ Missed
    BY DEF Put
<1>b. /\ pc \in {"put1", "put2"} /\ run.cmd # "wifi" /\ run.keys # None /\ run.keys # Cloud
      /\ ~run.heard /\ run.subs = 0 /\ run.status # "ok"
      /\ run.route => run.cmd = "pair"
      /\ UNCHANGED <<net, gate, file, oauth, count, saved, stale>>
    <2>1. pc \in {"put1", "put2"} /\ UNCHANGED <<net, gate, file, oauth, count, saved, stale>>
        BY DEF Put
    <2> QED
        BY <2>1 DEF IInv, CommandInv, TookInv, RegisterInv, Steps
<1>x. /\ run \in Runs /\ run.app \in Appliances /\ run.keys \in Keys
      /\ run.status \in Statuses /\ run.took \in BOOLEAN
    BY <1>b DEF IInv, TypeOK, Runs
<1> DEFINE Kept == /\ run'.cmd = run.cmd /\ run'.app = run.app /\ run'.keys = run.keys
                   /\ run'.route = run.route /\ run'.attempt = run.attempt
                   /\ run'.subs = run.subs /\ run'.unlisted = run.unlisted
                   /\ run'.token = run.token /\ run'.kept = run.kept
<1>c. Kept
    <2>1. CASE Missed
        BY <2>1 DEF GoTo
    <2>2. ASSUME NEW answered \in BOOLEAN, NEW status \in {"ok", "403", "error"},
                 Reached(answered, status)
          PROVE  Kept
        <3> DEFINE t0 == IF status = "ok" THEN TRUE ELSE run.took
                   h0 == IF status = "ok" THEN answered ELSE answered /\ run.took
                   s0 == IF answered THEN status ELSE run.status
        <3>0. s0 \in Statuses /\ t0 \in BOOLEAN /\ h0 \in BOOLEAN
            BY <1>x DEF Statuses
        <3>1. PICK s \in Statuses, t \in BOOLEAN, h \in BOOLEAN :
                run' = [run EXCEPT !.status = s, !.took = t, !.heard = h]
            BY <2>2, <3>0, Zenon DEF GoTo
        <3> QED
            BY <3>1, <1>x, Zenon DEF Runs
    <2> QED
        BY <1>a, <2>1, <2>2
<1>d. /\ pc' \in {"put2", "route", "wlan1", "ended"} /\ faults \subseteq faults'
      /\ pc' = "route" => run.cmd = "commission"
      /\ pc' = "wlan1" => run.cmd = "pair"
      /\ faults' \subseteq faults \cup {"lost"}
    <2> DEFINE Goes == /\ \E status \in Statuses : pc' = AfterCommissioning(status)
                       /\ UNCHANGED faults \/ Note("lost")
    <2>1. Goes
        <3>1. CASE Missed
            BY <3>1, <1>x DEF GoTo
        <3>2. ASSUME NEW answered \in BOOLEAN, NEW status \in {"ok", "403", "error"},
                     Reached(answered, status)
              PROVE  Goes
            BY <3>2, <1>x DEF GoTo, Answered, Statuses
        <3> QED
            BY <1>a, <3>1, <3>2
    <2>2. run.cmd \in {"commission", "pair"}
        BY <1>b, <1>x DEF Runs
    <2>3. faults \subseteq faults' /\ faults' \subseteq faults \cup {"lost"}
        BY <2>1 DEF Note
    <2>4. PICK status \in Statuses : pc' = AfterCommissioning(status)
        BY <2>1
    <2>5. CASE run.cmd = "commission"
        BY <1>b, <2>3, <2>4, <2>5 DEF AfterCommissioning, AfterPut, Otherwise
    <2>6. CASE run.cmd = "pair"
        BY <1>b, <2>3, <2>4, <2>6 DEF AfterCommissioning, AfterPut, Otherwise
    <2> HIDE DEF Goes
    <2>7. run.cmd = "commission" \/ run.cmd = "pair"
        BY <2>2
    <2> QED
        BY <2>5, <2>6, <2>7
\* Only an appliance without keys takes keys, and those of the run.
<1>e. /\ \A a \in Appliances : keys'[a] = keys[a] \/ (keys[a] = None /\ keys'[a] = run.keys)
      /\ keys' \in [Appliances -> Keys \cup {None}]
    <2>1. /\ keys \in [Appliances -> Keys \cup {None}]
          /\ \/ UNCHANGED keys
             \/ keys[run.app] = None /\ keys' = [keys EXCEPT ![run.app] = run.keys]
        BY <1>a DEF Commissioned, IInv, TypeOK
    <2> QED
        BY <1>x, <2>1
\* What the request leaves in the local variables.
<1>f. /\ run' \in Runs
      /\ run'.took => keys'[run.app] = run.keys
      /\ pc' = "wlan1" => keys'[run.app] = run.keys
      /\ pc' = "put2" => ~run'.heard /\ run'.status # "ok"
      /\ pc' = "ended" /\ run.cmd = "commission" => ~run'.heard
    <2>1. CASE Missed
        <3>1. run' = run /\ keys' = keys /\ pc' # "wlan1"
            BY <2>1, <1>b, Zenon DEF GoTo, AfterCommissioning, AfterPut, Otherwise
        <3> QED
            BY <3>1, <1>b, <1>x DEF IInv, TookInv
    <2>2. ASSUME NEW answered \in BOOLEAN, NEW status \in {"ok", "403", "error"},
                 Reached(answered, status)
          PROVE  /\ run' \in Runs
                 /\ run'.took => keys'[run.app] = run.keys
                 /\ pc' = "wlan1" => keys'[run.app] = run.keys
                 /\ pc' = "put2" => ~run'.heard /\ run'.status # "ok"
                 /\ pc' = "ended" /\ run.cmd = "commission" => ~run'.heard
        <3> DEFINE last == IF answered THEN status ELSE run.status
                   took == IF status = "ok" THEN TRUE ELSE run.took
                   heard == IF status = "ok" THEN answered ELSE answered /\ run.took
        <3>1. run' = [run EXCEPT !.status = last, !.took = took, !.heard = heard]
            BY <2>2 DEF GoTo
        <3>2. pc' = AfterCommissioning(last)
            BY <2>2 DEF GoTo
        <3>3. took \in BOOLEAN /\ heard \in BOOLEAN /\ last \in Statuses
            BY <1>x DEF Statuses
        <3>4. run' \in Runs /\ run'.status = last /\ run'.took = took /\ run'.heard = heard
            <4> HIDE DEF last, took, heard
            <4> QED
                BY <3>1, <3>3, <1>x, Zenon DEF Runs
        <3>5. status = "ok" => keys'[run.app] = run.keys
            BY <2>2, <1>b, <1>x DEF Commissioned, IInv, TypeOK
        <3>6. run.took => /\ keys[run.app] # None /\ keys'[run.app] = run.keys
                          /\ status = "403"
            BY <2>2, <1>b, <1>x DEF Commissioned, IInv, TypeOK, TookInv
        <3>7. took => keys'[run.app] = run.keys
            BY <3>5, <3>6
        <3>8. last = "ok" => status = "ok"
            BY <1>b
        <3>9. pc' = "wlan1" => last = "ok"
            BY <3>2, <1>b DEF AfterCommissioning, AfterPut, Otherwise
        <3>10. heard => last \in {"ok", "403"}
            BY <3>6
        <3>11. /\ last = "ok" => pc' \in {"route", "wlan1"}
               /\ last = "403" /\ run.cmd = "commission" /\ pc # "put1" => pc' = "route"
            BY <3>2, <1>b DEF AfterCommissioning, AfterPut, Otherwise
        <3>12. pc = "put1" => ~run.took
            BY DEF IInv, TookInv
        <3>13. heard /\ pc = "put1" => last = "ok"
            BY <3>12
        <3>14. pc' = "put2" => pc = "put1" /\ last # "ok"
            BY <3>2, <1>b DEF AfterCommissioning, AfterPut, Otherwise
        <3>15. pc' = "ended" => pc = "put2"
            BY <3>2, <1>b DEF AfterCommissioning, AfterPut, Otherwise
        <3> QED
            BY <3>4, <3>5, <3>7, <3>8, <3>9, <3>10, <3>11, <3>13, <3>14, <3>15
    <2> QED
        BY <1>a, <2>1, <2>2
<1> HIDE DEF Reached, Missed
<1>1. TypeOK'
    BY <1>b, <1>d, <1>e, <1>f DEF IInv, TypeOK, Steps
<1>2. CommandInv' /\ TookInv' /\ KeyedInv'
    <2>1. CommandInv'
        BY <1>b, <1>c, <1>d, <1>f DEF IInv, CommandInv, Commissioning
    <2>2. TookInv'
        BY <1>b, <1>c, <1>d, <1>f DEF TookInv, Commissioning
    <2>3. KeyedInv'
        BY <1>b, <1>c, <1>d, <1>f DEF KeyedInv
    <2> QED
        BY <2>1, <2>2, <2>3
<1>3. TokenInv' /\ RegisterInv' /\ RegistersOnce'
    BY <1>b, <1>c, <1>d DEF IInv, TokenInv, RegisterInv, RegistersOnce
<1>4. KeptInv' /\ EntriesStay'
    BY <1>b, <1>d DEF IInv, KeptInv, EntriesStay
<1>5. RoutedEntriesWork' /\ PairBeatsCloud'
    <2>1. \A a \in Appliances : file[a].route => file[a].keys # None
        BY KeysDiffer DEF IInv, TypeOK, Files, Entries
    <2>2. RoutedEntriesWork'
        BY <1>b, <1>e, <2>1 DEF IInv, RoutedEntriesWork
    <2>3. PairBeatsCloud'
        BY <1>b, <1>e DEF IInv, PairBeatsCloud
    <2> QED
        BY <2>2, <2>3
<1> QED
    BY <1>1, <1>2, <1>3, <1>4, <1>5 DEF IInv

LEMMA WlanStep ==
    ASSUME IInv, Wlan
    PROVE  IInv'
<1>1. TypeOK'
    <2>1. net' \in [Appliances -> {"softap", "wifi", "pair"}]
        <3>1. run.app \in Appliances /\ run.cmd \in {"wifi", "pair"}
            BY DEF IInv, TypeOK, Runs, Wlan, CommandInv
        <3> QED
            BY <3>1 DEF IInv, TypeOK, Wlan
    <2>2. pc' \in Steps /\ run' = run /\ faults' \subseteq {"crash", "lost"}
        BY DEF IInv, TypeOK, Wlan, AfterWlan, AfterPut, GoTo, Answered, Note, Steps
    <2> QED
        BY <2>1, <2>2 DEF IInv, TypeOK, Wlan
<1>2. CommandInv' /\ TookInv' /\ KeyedInv'
    BY KeysDiffer, NoRunType, SMTT(30)
       DEF IInv, TypeOK, Runs, Files, CommandInv, TookInv, KeyedInv,
           RoutedEntriesWork, Wlan, AfterWlan, AfterPut, GoTo, End, Note,
           Answered, device, history, NoRun, NewRun, Commissioning
<1>3. TokenInv' /\ RegisterInv' /\ RegistersOnce'
    BY KeysDiffer, NoRunType, SMTT(30)
       DEF IInv, TypeOK, Runs, Files, TokenInv, RegisterInv, RegistersOnce,
           CommandInv, Steps, Wlan, AfterWlan, AfterPut, GoTo, End, Note,
           Answered, device, history, NoRun, NewRun, Commissioning
<1>4. KeptInv' /\ EntriesStay'
    BY KeysDiffer, NoRunType, SMTT(30)
       DEF IInv, TypeOK, Runs, Files, KeptInv, EntriesStay, Wlan, AfterWlan,
           AfterPut, GoTo, End, Note, Answered, device, history, NoRun, NewRun,
           Commissioning
<1>5. RoutedEntriesWork' /\ PairBeatsCloud'
    BY KeysDiffer, NoRunType, SMTT(30)
       DEF IInv, TypeOK, Runs, Files, RoutedEntriesWork, PairBeatsCloud,
           KeyedInv, CommandInv, Wlan, AfterWlan, AfterPut, GoTo, End, Note,
           Answered, device, history, NoRun, NewRun, Commissioning, Erased
<1> QED
    BY <1>1, <1>2, <1>3, <1>4, <1>5 DEF IInv

LEMMA FabStep ==
    ASSUME IInv, Fab
    PROVE  IInv'
<1>1. TypeOK'
    BY KeysDiffer, NoRunType, BoundsAssumption, SMTT(30)
       DEF IInv, TypeOK, Fab, AfterFab, GoTo, End, Note, Answered, device,
           history, Steps, Statuses, LastAttempt, Runs, NewRun, Files, Keys,
           Entries, Erased
<1>2. CommandInv' /\ TookInv' /\ KeyedInv'
    BY KeysDiffer, NoRunType, SMTT(30)
       DEF IInv, TypeOK, Runs, Files, CommandInv, TookInv, KeyedInv,
           RoutedEntriesWork, Fab, AfterFab, GoTo, End, Note, Answered, device,
           history, NoRun, NewRun, Commissioning
<1>3. TokenInv' /\ RegisterInv' /\ RegistersOnce'
    BY KeysDiffer, NoRunType, SMTT(30)
       DEF IInv, TypeOK, Runs, Files, TokenInv, RegisterInv, RegistersOnce,
           CommandInv, Steps, Fab, AfterFab, GoTo, End, Note, Answered, device,
           history, NoRun, NewRun, Commissioning
<1>4. KeptInv' /\ EntriesStay'
    BY KeysDiffer, NoRunType, SMTT(30)
       DEF IInv, TypeOK, Runs, Files, KeptInv, EntriesStay, Fab, AfterFab,
           GoTo, End, Note, Answered, device, history, NoRun, NewRun,
           Commissioning
<1>5. RoutedEntriesWork' /\ PairBeatsCloud'
    BY KeysDiffer, NoRunType, SMTT(30)
       DEF IInv, TypeOK, Runs, Files, RoutedEntriesWork, PairBeatsCloud,
           KeyedInv, CommandInv, Fab, AfterFab, GoTo, End, Note, Answered,
           device, history, NoRun, NewRun, Commissioning, Erased
<1> QED
    BY <1>1, <1>2, <1>3, <1>4, <1>5 DEF IInv

LEMMA DetectRouteStep ==
    ASSUME IInv, DetectRoute
    PROVE  IInv'
<1>a. \/ run' = run /\ pc' = "open"
      \/ /\ run' = [run EXCEPT !.route = TRUE] /\ pc' = "enable"
         /\ keys[run.app] = run.keys
    BY DEF DetectRoute, GoTo, Signed
<1>b. run \in Runs /\ pc = "route"
    BY DEF DetectRoute, IInv, TypeOK
<1>c. run' \in Runs
    BY <1>a, <1>b, RouteFields
<1>1. TypeOK'
    BY <1>a, <1>c DEF DetectRoute, IInv, TypeOK, Steps, device, history
<1>2. CommandInv' /\ TookInv' /\ KeyedInv'
    BY KeysDiffer, NoRunType, SMTT(30)
       DEF IInv, TypeOK, Runs, Files, CommandInv, TookInv, KeyedInv,
           RoutedEntriesWork, DetectRoute, Signed, GoTo, End, Note, Answered,
           device, history, NoRun, NewRun, Commissioning
<1>3. TokenInv' /\ RegisterInv' /\ RegistersOnce'
    <2>1. /\ run'.subs = run.subs /\ run.subs = 0 /\ run'.token = run.token
          /\ run'.attempt = run.attempt /\ run.attempt \in 1..LastAttempt
        <3>1. run.subs = 0 /\ run.attempt \in 1..LastAttempt
            BY <1>b DEF Runs, IInv, RegisterInv, Steps
        <3> QED
            BY <1>a, <1>b, <3>1, RouteFields
    <2>2. UNCHANGED <<oauth, faults>>
        BY DEF DetectRoute, history
    <2> QED
        BY <1>a, <1>b, <2>1, <2>2 DEF IInv, TokenInv, RegisterInv, RegistersOnce, LastAttempt
<1>4. KeptInv' /\ EntriesStay'
    BY KeysDiffer, NoRunType, SMTT(30)
       DEF IInv, TypeOK, Runs, Files, KeptInv, EntriesStay, DetectRoute,
           Signed, GoTo, End, Note, Answered, device, history, NoRun, NewRun,
           Commissioning
<1>5. RoutedEntriesWork' /\ PairBeatsCloud'
    BY KeysDiffer, NoRunType, SMTT(30)
       DEF IInv, TypeOK, Runs, Files, RoutedEntriesWork, PairBeatsCloud,
           KeyedInv, CommandInv, DetectRoute, Signed, GoTo, End, Note, Answered,
           device, history, NoRun, NewRun, Commissioning, Erased
<1> QED
    BY <1>1, <1>2, <1>3, <1>4, <1>5 DEF IInv

LEMMA EnableGroupModeStep ==
    ASSUME IInv, EnableGroupMode
    PROVE  IInv'
<1>1. TypeOK'
    BY KeysDiffer, NoRunType, BoundsAssumption, SMTT(30)
       DEF IInv, TypeOK, EnableGroupMode, GoTo, End, Note, Answered, device,
           history, Steps, Statuses, LastAttempt, Runs, NewRun, Files, Keys,
           Entries, Erased
<1>2. CommandInv' /\ TookInv' /\ KeyedInv'
    BY KeysDiffer, NoRunType, SMTT(30)
       DEF IInv, TypeOK, Runs, Files, CommandInv, TookInv, KeyedInv,
           RoutedEntriesWork, EnableGroupMode, GoTo, End, Note, Answered, device,
           history, NoRun, NewRun, Commissioning
<1>3. TokenInv' /\ RegisterInv' /\ RegistersOnce'
    BY KeysDiffer, NoRunType, SMTT(30)
       DEF IInv, TypeOK, Runs, Files, TokenInv, RegisterInv, RegistersOnce,
           CommandInv, Steps, EnableGroupMode, GoTo, End, Note, Answered, device,
           history, NoRun, NewRun, Commissioning
<1>4. KeptInv' /\ EntriesStay'
    BY KeysDiffer, NoRunType, SMTT(30)
       DEF IInv, TypeOK, Runs, Files, KeptInv, EntriesStay, EnableGroupMode,
           GoTo, End, Note, Answered, device, history, NoRun, NewRun,
           Commissioning
<1>5. RoutedEntriesWork' /\ PairBeatsCloud'
    BY KeysDiffer, NoRunType, SMTT(30)
       DEF IInv, TypeOK, Runs, Files, RoutedEntriesWork, PairBeatsCloud,
           KeyedInv, CommandInv, EnableGroupMode, GoTo, End, Note, Answered,
           device, history, NoRun, NewRun, Commissioning, Erased
<1> QED
    BY <1>1, <1>2, <1>3, <1>4, <1>5 DEF IInv

LEMMA TryRegisterStep ==
    ASSUME IInv, TryRegister
    PROVE  IInv'
<1>1. TypeOK'
    <2>1. PICK registered \in BOOLEAN, answered \in BOOLEAN, listed \in BOOLEAN :
            /\ GoTo(AfterAttempt(registered, answered /\ listed),
                    [run EXCEPT !.subs = IF registered THEN @ + 1 ELSE @,
                                !.attempt = NextAttempt,
                                !.unlisted = IF listed THEN @ ELSE TRUE])
            /\ Answered(answered)
        BY DEF TryRegister
    <2> DEFINE subs == IF registered THEN run.subs + 1 ELSE run.subs
               unlisted == IF listed THEN run.unlisted ELSE TRUE
    <2>2. run \in Runs /\ pc = "subscribe" /\ run.subs < run.attempt
        BY DEF TryRegister, IInv, TypeOK, RegisterInv
    <2>3. subs \in 0..LastAttempt /\ NextAttempt \in 1..LastAttempt
        BY <2>2 DEF Runs, NextAttempt, LastAttempt
    <2>7. unlisted \in BOOLEAN
        <3>1. run.unlisted \in BOOLEAN
            BY <2>2, Zenon DEF Runs
        <3> QED
            BY <3>1
    <2>4. run' = [run EXCEPT !.subs = subs, !.attempt = NextAttempt,
                            !.unlisted = unlisted]
        BY <2>1 DEF GoTo
    <2>5. run' \in Runs
        <3> HIDE DEF subs, unlisted
        <3> QED
            BY <2>2, <2>3, <2>4, <2>7, AttemptFields
    <2>6. pc' \in Steps /\ faults' \subseteq {"crash", "lost"}
        BY <2>1 DEF GoTo, AfterAttempt, Steps, Answered, Note, IInv, TypeOK
    <2> QED
        BY <2>5, <2>6 DEF TryRegister, IInv, TypeOK, device
<1>2. CommandInv' /\ TookInv' /\ KeyedInv'
    BY KeysDiffer, NoRunType, SMTT(30)
       DEF IInv, TypeOK, Runs, Files, CommandInv, TookInv, KeyedInv,
           RoutedEntriesWork, TryRegister, AfterAttempt, NextAttempt, GoTo, End,
           Note, Answered, device, history, NoRun, NewRun, Commissioning
<1>3. TokenInv' /\ RegisterInv' /\ RegistersOnce'
    BY KeysDiffer, NoRunType, SMTT(30)
       DEF IInv, TypeOK, Runs, Files, TokenInv, RegisterInv, RegistersOnce,
           CommandInv, Steps, TryRegister, AfterAttempt, NextAttempt, GoTo, End,
           Note, Answered, device, history, NoRun, NewRun, Commissioning
<1>4. KeptInv' /\ EntriesStay'
    BY KeysDiffer, NoRunType, SMTT(30)
       DEF IInv, TypeOK, Runs, Files, KeptInv, EntriesStay, TryRegister,
           AfterAttempt, NextAttempt, GoTo, End, Note, Answered, device, history,
           NoRun, NewRun, Commissioning
<1>5. RoutedEntriesWork' /\ PairBeatsCloud'
    BY KeysDiffer, NoRunType, SMTT(30)
       DEF IInv, TypeOK, Runs, Files, RoutedEntriesWork, PairBeatsCloud,
           KeyedInv, CommandInv, TryRegister, AfterAttempt, NextAttempt, GoTo,
           End, Note, Answered, device, history, NoRun, NewRun, Commissioning,
           Erased
<1> QED
    BY <1>1, <1>2, <1>3, <1>4, <1>5 DEF IInv

LEMMA OpenFileStep ==
    ASSUME IInv, OpenFile
    PROVE  IInv'
<1>1. TypeOK'
    BY KeysDiffer, NoRunType, BoundsAssumption, SMTT(30)
       DEF IInv, TypeOK, OpenFile, GoTo, End, Note, Answered, device,
           history, Steps, Statuses, LastAttempt, Runs, NewRun, Files, Keys,
           Entries, Erased
<1>2. CommandInv' /\ TookInv' /\ KeyedInv'
    <2>1. CommandInv'
        BY KeysDiffer, NoRunType, SMTT(30)
           DEF IInv, TypeOK, Runs, Files, CommandInv, OpenFile, GoTo, End,
               Note, Answered, device, history, NoRun, NewRun, Commissioning,
               Erased
    <2>2. TookInv'
        BY KeysDiffer, NoRunType, SMTT(30)
           DEF IInv, TypeOK, Runs, Files, TookInv, CommandInv, Statuses,
               OpenFile, GoTo, End, Note, Answered, device, history, NoRun,
               NewRun, Commissioning, Erased
    <2>3. KeyedInv'
        BY KeysDiffer, NoRunType, SMTT(30)
           DEF IInv, TypeOK, Runs, Files, CommandInv, TookInv, KeyedInv,
               RoutedEntriesWork, OpenFile, GoTo, End, Note, Answered, device,
               history, NoRun, NewRun, Commissioning, Erased, Entries
    <2> QED
        BY <2>1, <2>2, <2>3
<1>3. TokenInv' /\ RegisterInv' /\ RegistersOnce'
    BY KeysDiffer, NoRunType, SMTT(30)
       DEF IInv, TypeOK, Runs, Files, TokenInv, RegisterInv, RegistersOnce,
           CommandInv, Steps, OpenFile, GoTo, End, Note, Answered, device,
           history, NoRun, NewRun, Commissioning
<1>4. KeptInv' /\ EntriesStay'
    BY KeysDiffer, NoRunType, SMTT(30)
       DEF IInv, TypeOK, Runs, Files, KeptInv, EntriesStay, OpenFile, GoTo,
           End, Note, Answered, device, history, NoRun, NewRun, Commissioning
<1>5. RoutedEntriesWork' /\ PairBeatsCloud'
    BY KeysDiffer, NoRunType, SMTT(30)
       DEF IInv, TypeOK, Runs, Files, RoutedEntriesWork, PairBeatsCloud,
           KeyedInv, CommandInv, OpenFile, GoTo, End, Note, Answered, device,
           history, NoRun, NewRun, Commissioning, Erased
<1> QED
    BY <1>1, <1>2, <1>3, <1>4, <1>5 DEF IInv

LEMMA WriteFileStep ==
    ASSUME IInv, WriteFile
    PROVE  IInv'
<1>a. /\ run \in Runs /\ run.app \in Appliances /\ run.kept \in Files /\ pc = "write"
      /\ run.keys \in Keys
    BY DEF WriteFile, IInv, TypeOK, Runs, CommandInv
<1>b. [keys |-> run.keys, route |-> run.route] \in Entries
    BY <1>a DEF Entries, Runs
<1>c. /\ file' \in Files /\ file'[run.app] \in Entries
      /\ \A a \in Appliances : a # run.app => file'[a] = run.kept[a]
    BY <1>a, <1>b DEF WriteFile, NewFile, Files
<1>1. TypeOK'
    <2>1. stale' \in [Appliances -> BOOLEAN] /\ saved' \subseteq Appliances
        BY <1>a DEF WriteFile, IInv, TypeOK
    <2>2. pc' \in Steps /\ run' \in Runs
        BY NoRunType DEF WriteFile, End, GoTo, Steps
    <2> QED
        BY <1>c, <2>1, <2>2 DEF WriteFile, IInv, TypeOK, device
<1>2. CommandInv' /\ TookInv' /\ KeyedInv'
    <2>1. CommandInv'
        BY KeysDiffer, NoRunType, SMTT(30)
           DEF IInv, TypeOK, Runs, Files, CommandInv, WriteFile, NewFile,
               GoTo, End, Note, Answered, device, history, NoRun, NewRun,
               Commissioning, Erased
    <2>2. TookInv'
        BY KeysDiffer, NoRunType, SMTT(30)
           DEF IInv, TypeOK, Runs, Files, TookInv, CommandInv, Statuses,
               WriteFile, NewFile, GoTo, End, Note, Answered, device, history,
               NoRun, NewRun, Commissioning, Erased
    <2>3. KeyedInv'
        BY KeysDiffer, NoRunType, SMTT(30)
           DEF IInv, TypeOK, Runs, Files, CommandInv, TookInv, KeyedInv,
               RoutedEntriesWork, WriteFile, NewFile, GoTo, End, Note, Answered,
               device, history, NoRun, NewRun, Commissioning, Erased, Entries
    <2> QED
        BY <2>1, <2>2, <2>3
<1>3. TokenInv' /\ RegisterInv' /\ RegistersOnce'
    BY KeysDiffer, NoRunType, SMTT(30)
       DEF IInv, TypeOK, Runs, Files, TokenInv, RegisterInv, RegistersOnce,
           CommandInv, Steps, WriteFile, NewFile, GoTo, End, Note, Answered,
           device, history, NoRun, NewRun, Commissioning
<1>4. KeptInv' /\ EntriesStay'
    <2>1. /\ pc' = "idle" /\ saved' = saved \cup {run.app} /\ faults' = faults
          /\ saved \subseteq Appliances
        BY DEF WriteFile, End, GoTo, IInv, TypeOK
    <2>2. "crash" \notin faults => \A a \in saved : run.kept[a] # NoEntry
        BY <1>a DEF IInv, KeptInv
    <2>3. file'[run.app] # NoEntry
        BY <1>c, KeysDiffer
    <2> QED
        BY <2>1, <2>2, <2>3, <1>c DEF KeptInv, EntriesStay
<1>5. RoutedEntriesWork' /\ PairBeatsCloud'
    BY KeysDiffer, NoRunType, SMTT(30)
       DEF IInv, TypeOK, Runs, Files, RoutedEntriesWork, PairBeatsCloud,
           KeyedInv, CommandInv, WriteFile, NewFile, GoTo, End, Note, Answered,
           device, history, NoRun, NewRun, Commissioning, Erased
<1> QED
    BY <1>1, <1>2, <1>3, <1>4, <1>5 DEF IInv

LEMMA ReturnStep ==
    ASSUME IInv, Return
    PROVE  IInv'
<1>1. TypeOK'
    BY KeysDiffer, NoRunType, BoundsAssumption, SMTT(30)
       DEF IInv, TypeOK, Return, GoTo, End, Note, Answered, device, history,
           Steps, Statuses, LastAttempt, Runs, NewRun, Files, Keys, Entries,
           Erased
<1>2. CommandInv' /\ TookInv' /\ KeyedInv'
    <2>1. CommandInv'
        BY KeysDiffer, NoRunType, SMTT(30)
           DEF IInv, TypeOK, Runs, Files, CommandInv, Return, GoTo, End,
               Note, Answered, device, history, NoRun, NewRun, Commissioning,
               Erased
    <2>2. TookInv'
        BY KeysDiffer, NoRunType, SMTT(30)
           DEF IInv, TypeOK, Runs, Files, TookInv, CommandInv, Statuses,
               Return, GoTo, End, Note, Answered, device, history, NoRun, NewRun,
               Commissioning, Erased
    <2>3. KeyedInv'
        BY KeysDiffer, NoRunType, SMTT(30)
           DEF IInv, TypeOK, Runs, Files, CommandInv, TookInv, KeyedInv,
               RoutedEntriesWork, Return, GoTo, End, Note, Answered, device,
               history, NoRun, NewRun, Commissioning, Erased, Entries
    <2> QED
        BY <2>1, <2>2, <2>3
<1>3. TokenInv' /\ RegisterInv' /\ RegistersOnce'
    BY KeysDiffer, NoRunType, SMTT(30)
       DEF IInv, TypeOK, Runs, Files, TokenInv, RegisterInv, RegistersOnce,
           CommandInv, Steps, Return, GoTo, End, Note, Answered, device, history,
           NoRun, NewRun, Commissioning
<1>4. KeptInv' /\ EntriesStay'
    BY KeysDiffer, NoRunType, SMTT(30)
       DEF IInv, TypeOK, Runs, Files, KeptInv, EntriesStay, Return, GoTo,
           End, Note, Answered, device, history, NoRun, NewRun, Commissioning
<1>5. RoutedEntriesWork' /\ PairBeatsCloud'
    BY KeysDiffer, NoRunType, SMTT(30)
       DEF IInv, TypeOK, Runs, Files, RoutedEntriesWork, PairBeatsCloud,
           KeyedInv, CommandInv, Return, GoTo, End, Note, Answered, device,
           history, NoRun, NewRun, Commissioning, Erased
<1> QED
    BY <1>1, <1>2, <1>3, <1>4, <1>5 DEF IInv

LEMMA CrashStep ==
    ASSUME IInv, Crash
    PROVE  IInv'
<1>1. TypeOK'
    BY KeysDiffer, NoRunType, BoundsAssumption, SMTT(30)
       DEF IInv, TypeOK, Crash, GoTo, End, Note, Answered, device, history,
           Steps, Statuses, LastAttempt, Runs, NewRun, Files, Keys, Entries,
           Erased
<1>2. CommandInv' /\ TookInv' /\ KeyedInv'
    <2>1. CommandInv'
        BY KeysDiffer, NoRunType, SMTT(30)
           DEF IInv, TypeOK, Runs, Files, CommandInv, Crash, GoTo, End, Note,
               Answered, device, history, NoRun, NewRun, Commissioning, Erased
    <2>2. TookInv'
        BY KeysDiffer, NoRunType, SMTT(30)
           DEF IInv, TypeOK, Runs, Files, TookInv, CommandInv, Statuses,
               Crash, GoTo, End, Note, Answered, device, history, NoRun, NewRun,
               Commissioning, Erased
    <2>3. KeyedInv'
        BY KeysDiffer, NoRunType, SMTT(30)
           DEF IInv, TypeOK, Runs, Files, CommandInv, TookInv, KeyedInv,
               RoutedEntriesWork, Crash, GoTo, End, Note, Answered, device,
               history, NoRun, NewRun, Commissioning, Erased, Entries
    <2> QED
        BY <2>1, <2>2, <2>3
<1>3. TokenInv' /\ RegisterInv' /\ RegistersOnce'
    BY KeysDiffer, NoRunType, SMTT(30)
       DEF IInv, TypeOK, Runs, Files, TokenInv, RegisterInv, RegistersOnce,
           CommandInv, Steps, Crash, GoTo, End, Note, Answered, device, history,
           NoRun, NewRun, Commissioning
<1>4. KeptInv' /\ EntriesStay'
    BY KeysDiffer, NoRunType, SMTT(30)
       DEF IInv, TypeOK, Runs, Files, KeptInv, EntriesStay, Crash, GoTo, End,
           Note, Answered, device, history, NoRun, NewRun, Commissioning
<1>5. RoutedEntriesWork' /\ PairBeatsCloud'
    BY KeysDiffer, NoRunType, SMTT(30)
       DEF IInv, TypeOK, Runs, Files, RoutedEntriesWork, PairBeatsCloud,
           KeyedInv, CommandInv, Crash, GoTo, End, Note, Answered, device,
           history, NoRun, NewRun, Commissioning, Erased
<1> QED
    BY <1>1, <1>2, <1>3, <1>4, <1>5 DEF IInv

LEMMA ReauthorizeStep ==
    ASSUME IInv, Reauthorize
    PROVE  IInv'
<1>1. TypeOK'
    BY KeysDiffer, NoRunType, BoundsAssumption, SMTT(30)
       DEF IInv, TypeOK, Reauthorize, GoTo, End, Note, Answered, device,
           history, Steps, Statuses, LastAttempt, Runs, NewRun, Files, Keys,
           Entries, Erased
<1>2. CommandInv' /\ TookInv' /\ KeyedInv'
    BY KeysDiffer, NoRunType, SMTT(30)
       DEF IInv, TypeOK, Runs, Files, CommandInv, TookInv, KeyedInv,
           RoutedEntriesWork, Reauthorize, GoTo, End, Note, Answered, device,
           history, NoRun, NewRun, Commissioning
<1>3. TokenInv' /\ RegisterInv' /\ RegistersOnce'
    BY KeysDiffer, NoRunType, SMTT(30)
       DEF IInv, TypeOK, Runs, Files, TokenInv, RegisterInv, RegistersOnce,
           CommandInv, Steps, Reauthorize, GoTo, End, Note, Answered, device,
           history, NoRun, NewRun, Commissioning
<1>4. KeptInv' /\ EntriesStay'
    BY KeysDiffer, NoRunType, SMTT(30)
       DEF IInv, TypeOK, Runs, Files, KeptInv, EntriesStay, Reauthorize,
           GoTo, End, Note, Answered, device, history, NoRun, NewRun,
           Commissioning
<1>5. RoutedEntriesWork' /\ PairBeatsCloud'
    BY KeysDiffer, NoRunType, SMTT(30)
       DEF IInv, TypeOK, Runs, Files, RoutedEntriesWork, PairBeatsCloud,
           KeyedInv, CommandInv, Reauthorize, GoTo, End, Note, Answered, device,
           history, NoRun, NewRun, Commissioning, Erased
<1> QED
    BY <1>1, <1>2, <1>3, <1>4, <1>5 DEF IInv

-----------------------------------------------------------------------------
(* The theorems.                                                            *)

LEMMA InitInv == Init => IInv
<1> SUFFICES ASSUME Init PROVE IInv
    OBVIOUS
<1>1. TypeOK
    BY NoRunType, BoundsAssumption DEF Init, TypeOK, Steps
<1>2. /\ run = NoRun /\ file = Erased /\ pc = "idle" /\ saved = {}
      /\ net = [a \in Appliances |-> "softap"] /\ oauth.stored = {oauth.cloud}
    BY DEF Init
<1>3. /\ NoRun.cmd = "wifi" /\ NoRun.keys = None /\ NoRun.subs = 0 /\ ~NoRun.took
      /\ ~NoRun.heard /\ NoRun.kept = Erased
    BY DEF NoRun, NewRun
<1>4. \A a \in Appliances : Erased[a] = NoEntry
    BY DEF Erased
<1>5. CommandInv /\ TookInv /\ KeyedInv
    BY <1>2, <1>3, <1>4, KeysDiffer DEF CommandInv, TookInv, KeyedInv, Commissioning
<1>6. TokenInv /\ RegisterInv /\ RegistersOnce /\ KeptInv /\ EntriesStay
    BY <1>2, <1>3 DEF TokenInv, RegisterInv, RegistersOnce, KeptInv, EntriesStay, Steps
<1>7. RoutedEntriesWork /\ PairBeatsCloud
    BY <1>2, <1>4, KeysDiffer DEF RoutedEntriesWork, PairBeatsCloud
<1> QED
    BY <1>1, <1>5, <1>6, <1>7 DEF IInv

LEMMA StepInv == IInv /\ [Next]_vars => IInv'
<1> SUFFICES ASSUME IInv, [Next]_vars PROVE IInv'
    OBVIOUS
<1>1. ASSUME NEW a \in Appliances, StartCommission(a) PROVE IInv'
    BY <1>1, StartCommissionStep
<1>2. ASSUME NEW a \in Appliances, StartPair(a) PROVE IInv'
    BY <1>2, StartPairStep
<1>3. ASSUME NEW a \in Appliances, StartWifi(a) PROVE IInv'
    BY <1>3, StartWifiStep
<1>4. ASSUME NEW a \in Appliances, CloudPairs(a) PROVE IInv'
    BY <1>4, CloudPairsStep
<1>5. ASSUME NEW a \in Appliances, FactoryReset(a) PROVE IInv'
    BY <1>5, FactoryResetStep
<1>6. CASE Refresh
    BY <1>6, RefreshStep
<1>7. CASE OpenTokens
    BY <1>7, OpenTokensStep
<1>8. CASE WriteTokens
    BY <1>8, WriteTokensStep
<1>9. CASE FetchTan
    BY <1>9, FetchTanStep
<1>10. CASE PostTan
    BY <1>10, PostTanStep
<1>11. CASE Put
    BY <1>11, PutStep
<1>12. CASE Wlan
    BY <1>12, WlanStep
<1>13. CASE Fab
    BY <1>13, FabStep
<1>14. CASE DetectRoute
    BY <1>14, DetectRouteStep
<1>15. CASE EnableGroupMode
    BY <1>15, EnableGroupModeStep
<1>16. CASE TryRegister
    BY <1>16, TryRegisterStep
<1>17. CASE OpenFile
    BY <1>17, OpenFileStep
<1>18. CASE WriteFile
    BY <1>18, WriteFileStep
<1>19. CASE Return
    BY <1>19, ReturnStep
<1>20. CASE Crash
    BY <1>20, CrashStep
<1>21. CASE Reauthorize
    BY <1>21, ReauthorizeStep
<1>22. CASE UNCHANGED vars
    BY <1>22
       DEF vars, IInv, TypeOK, CommandInv, TookInv, KeyedInv, TokenInv, RegisterInv, KeptInv,
           RoutedEntriesWork, PairBeatsCloud, RegistersOnce, EntriesStay
<1> QED
    BY <1>1, <1>2, <1>3, <1>4, <1>5, <1>6, <1>7, <1>8, <1>9, <1>10, <1>11,
       <1>12, <1>13, <1>14, <1>15, <1>16, <1>17, <1>18, <1>19, <1>20, <1>21, <1>22 DEF Next, Tool

LEMMA Invariance == Spec => []IInv
BY InitInv, StepInv, PTL DEF Spec

\* The types of the files, the appliances and the local variables of a command.
THEOREM TypeCorrect == Spec => []TypeOK
<1>1. IInv => TypeOK
    BY DEF IInv
<1> QED
    BY <1>1, Invariance, PTL

\* A route in the file is evidence: its keys are those the appliance accepts until it
\* is reset, whatever a 403 to its commissioning request meant.
THEOREM EntriesWithRouteWork == Spec => []RoutedEntriesWork
<1>1. IInv => RoutedEntriesWork
    BY DEF IInv
<1> QED
    BY <1>1, Invariance, PTL

\* An appliance that pair sent to the home network never gets the cloud's keys.
THEOREM PairComesBeforeTheCloud == Spec => []PairBeatsCloud
<1>1. IInv => PairBeatsCloud
    BY DEF IInv
<1> QED
    BY <1>1, Invariance, PTL

\* A commission that hears of keys the appliance took goes on to save them.
THEOREM CommissionSavesTakenKeys == Spec => []TakenKeysAreSaved
<1>1. IInv => TakenKeysAreSaved
    BY DEF IInv, TookInv, TakenKeysAreSaved
<1> QED
    BY <1>1, Invariance, PTL

\* Without a lost answer or an interruption the stored refresh token stays the valid one.
THEOREM StoredTokenStaysValid == Spec => []StoredTokenWorks
<1>1. IInv => StoredTokenWorks
    BY DEF IInv, TokenInv, StoredTokenWorks
<1> QED
    BY <1>1, Invariance, PTL

\* A second registration of the callback follows a lost answer or a refused listing
\* (_try_register_subscription, miele_lan_provision.py:497-540).
THEOREM CallbackRegisteredOnce == Spec => []RegistersOnce
<1>1. IInv => RegistersOnce
    BY DEF IInv
<1> QED
    BY <1>1, Invariance, PTL

\* No command drops the entry of another appliance, interruptions aside.
THEOREM NoEntryDisappears == Spec => []EntriesStay
<1>1. IInv => EntriesStay
    BY DEF IInv
<1> QED
    BY <1>1, Invariance, PTL
=============================================================================
