---------------------------- MODULE Provisioning ----------------------------
(***************************************************************************)
(* The provisioning tool (src/tools/miele_lan_provision.py): the commands  *)
(* wifi, commission and pair, run one at a time by hand on a laptop, each  *)
(* of which may be interrupted between any two of its steps.               *)
(*                                                                         *)
(* The appliance, Miele's cloud and the person who resets an appliance are *)
(* the environment.  An endpoint of the key file stands for one appliance. *)
(***************************************************************************)
EXTENDS Naturals, FiniteSets

CONSTANTS
    Appliances,
    Gated,         \* those whose firmware asks for a cloud TAN first
    MaxCommands,   \* bound: commands entered
    MaxRotations   \* bound: refresh tokens the cloud issues

ASSUME AppliancesAssumption == Appliances # {} /\ Gated \subseteq Appliances
ASSUME BoundsAssumption == MaxCommands \in Nat /\ MaxRotations \in Nat

Generated == {"generated"} \X (1..MaxCommands)
\* Keys that no run generates: the household's, which the user may supply, and the
\* ones the cloud installs.
Home == <<"home", 0>>
Cloud == <<"cloud", 0>>
Keys == Generated \cup {Home, Cloud}
None == <<"none", 0>>

Entries == [keys : Keys, route : BOOLEAN]
NoEntry == [keys |-> None, route |-> FALSE]
Files == [Appliances -> Entries \cup {NoEntry}]
Erased == [a \in Appliances |-> NoEntry]

VARIABLES
    keys,       \* the group keys in force on each appliance, or None
    net,        \* the SoftAP, or the command that moved it to the home network
    gate,       \* the appliance accepts commissioning
    file,       \* the key file
    oauth,      \* the refresh token the cloud accepts, and the stored one, if any
    pc,         \* the step the running command is at
    run,        \* its local variables, NoRun between commands
    count,      \* commands entered so far
    saved,      \* appliances whose keys have ever been written to the file
    stale,      \* reset since its entry was written
    faults      \* kinds of interruption that have happened

device == <<keys, net, gate>>
history == <<saved, stale, faults>>
vars == <<keys, net, gate, file, oauth, pc, run, count, saved, stale, faults>>

\* An unauthenticated PUT is tried over http and over https, in either order.
Steps == {"idle", "refresh", "tokenOpen", "tokenWrite", "tan", "postTan", "fab",
          "put1", "put2", "wlan1", "wlan2", "route", "enable", "subscribe",
          "open", "write", "ended"}
Statuses == {"none", "ok", "403", "error"}
\* POST and PUT, signed and with the pairing header over both schemes.
LastAttempt == 10
\* The first of them are signed, and confirmed by reading the listing.
SignedAttempts == 4

Runs == [cmd : {"commission", "pair", "wifi"}, app : Appliances, keys : Keys \cup {None},
         status : Statuses, route : BOOLEAN, took : BOOLEAN, heard : BOOLEAN,
         attempt : 1..LastAttempt, subs : 0..LastAttempt,
         unlisted : BOOLEAN, token : 0..MaxRotations,
         kept : Files]

TypeOK ==
    /\ keys \in [Appliances -> Keys \cup {None}]
    /\ net \in [Appliances -> {"softap", "wifi", "pair"}]
    /\ gate \in [Appliances -> BOOLEAN]
    /\ file \in Files
    /\ oauth \in [cloud : 0..MaxRotations, stored : SUBSET (0..MaxRotations)]
    /\ pc \in Steps
    /\ run \in Runs
    /\ count \in 0..MaxCommands
    /\ saved \subseteq Appliances
    /\ stale \in [Appliances -> BOOLEAN]
    /\ faults \subseteq {"crash", "lost"}

NewRun(cmd, a, k) ==
    [cmd |-> cmd, app |-> a, keys |-> k, status |-> "none", route |-> FALSE,
     took |-> FALSE, heard |-> FALSE, attempt |-> 1, subs |-> 0,
     unlisted |-> FALSE, token |-> 0, kept |-> Erased]
NoRun == NewRun("wifi", CHOOSE a \in Appliances : TRUE, None)

Init ==
    /\ keys = [a \in Appliances |-> None]
    /\ net = [a \in Appliances |-> "softap"]
    /\ gate = [a \in Appliances |-> a \notin Gated]
    /\ file = Erased
    /\ oauth = [cloud |-> 0, stored |-> {0}]
    /\ pc = "idle"
    /\ run = NoRun
    /\ count = 0
    /\ saved = {}
    /\ stale = [a \in Appliances |-> FALSE]
    /\ faults = {}

Note(fault) == faults' = faults \cup {fault}
Answered(answered) == IF answered THEN UNCHANGED faults ELSE Note("lost")

-----------------------------------------------------------------------------
(* The command line.                                                       *)

\* The keys of a run: generated, or both given on the command line, when they have
\* the right lengths; a command that is given others ends before it does anything.
Chooses(a, k) ==
    \/ k = <<"generated", count + 1>>
    \/ k \in {Home, file[a].keys} \ {None}

Start(cmd, a, k, step) ==
    /\ pc = "idle" /\ count < MaxCommands
    /\ pc' = step
    /\ run' = NewRun(cmd, a, k)
    /\ count' = count + 1
    /\ UNCHANGED <<device, file, oauth, history>>

\* With --enable-only, with --use-cloud-tan, or with neither.
StartCommission(a) ==
    /\ net[a] # "softap"
    /\ \E k \in Keys, step \in {"route", "refresh", "put1"} :
        Chooses(a, k) /\ Start("commission", a, k, step)

StartPair(a) ==
    /\ net[a] = "softap"
    /\ \E k \in Keys : Chooses(a, k) /\ Start("pair", a, k, "fab")

StartWifi(a) ==
    /\ net[a] = "softap"
    /\ Start("wifi", a, None, "wlan1")

GoTo(step, locals) == pc' = step /\ run' = locals
End == GoTo("idle", NoRun)

\* A command that returns without having written the file, and one that is interrupted.
Return ==
    /\ pc = "ended"
    /\ End
    /\ UNCHANGED <<device, file, oauth, count, history>>

Crash ==
    /\ pc # "idle"
    /\ End
    /\ Note("crash")
    /\ UNCHANGED <<device, file, oauth, count, saved, stale>>

-----------------------------------------------------------------------------
(* _fetch_cloud_tan and _send_tan_to_appliance                              *)

AfterRefreshForgets(rotates) == "tan"
AfterRefresh(rotates) == IF rotates THEN "tokenOpen" ELSE "tan"

\* The refresh token is sent; the cloud may answer with a new one, and then
\* honours only that.  No usable token, an error or no answer ends the command.
Refresh ==
    /\ pc = "refresh"
    /\ \/ /\ oauth.stored = {oauth.cloud}
          /\ \E rotates, answered \in BOOLEAN :
              /\ rotates => oauth.cloud < MaxRotations
              /\ LET token == IF rotates THEN oauth.cloud + 1 ELSE oauth.cloud IN
                  /\ oauth' = [oauth EXCEPT !.cloud = token]
                  /\ GoTo(IF answered THEN AfterRefresh(rotates) ELSE "ended",
                          [run EXCEPT !.token = token])
              /\ Answered(answered)
       \/ GoTo("ended", run) /\ UNCHANGED <<oauth, faults>>
    /\ UNCHANGED <<device, file, count, saved, stale>>

\* write_text opens the file, which empties it, and then writes it.
OpenTokens ==
    /\ pc = "tokenOpen"
    /\ oauth' = [oauth EXCEPT !.stored = {}]
    /\ GoTo("tokenWrite", run)
    /\ UNCHANGED <<device, file, count, history>>

WriteTokens ==
    /\ pc = "tokenWrite"
    /\ oauth' = [oauth EXCEPT !.stored = {run.token}]
    /\ GoTo("tan", run)
    /\ UNCHANGED <<device, file, count, history>>

FetchTan ==
    /\ pc = "tan"
    /\ GoTo("postTan", run) \/ GoTo("ended", run)
    /\ UNCHANGED <<device, file, oauth, count, history>>

\* The appliance takes the TAN or refuses it, and its answer may get lost.
PostTan ==
    /\ pc = "postTan"
    /\ \E taken, answered \in BOOLEAN :
        /\ gate' = [gate EXCEPT ![run.app] = IF taken THEN TRUE ELSE @]
        /\ GoTo(IF taken /\ answered THEN "put1" ELSE "ended", run)
        /\ Answered(answered)
    /\ UNCHANGED <<keys, net, file, oauth, count, saved, stale>>

-----------------------------------------------------------------------------
(* _put_unauthenticated                                                     *)

\* What the appliance does with a commissioning request and what it answers.
\* Keys in force are never replaced, and behind a closed gate neither are none.
Commissioned(a, status) ==
    IF keys[a] = None /\ gate[a]
    THEN status = "ok" /\ keys' = [keys EXCEPT ![a] = run.keys]
    ELSE /\ status \in (IF keys[a] = None THEN {"403", "error"} ELSE {"403"})
         /\ UNCHANGED keys

\* The first scheme's result ends it only when it is a 2xx; after the second, last_status.
AfterPut(status, next, ok, failed) ==
    IF status = "ok" THEN ok ELSE IF pc \in {"put1", "wlan1"} THEN next ELSE failed

\* A 403 to commission counts as done, to pair as a failure.
NothingElse(status) == "ended"
Otherwise(status) == IF run.cmd = "commission" /\ status = "403" THEN "route" ELSE "ended"

AfterCommissioning(status) ==
    AfterPut(status, "put2", IF run.cmd = "commission" THEN "route" ELSE "wlan1",
             Otherwise(status))

Put ==
    /\ pc \in {"put1", "put2"}
    /\ \/ \E answered \in BOOLEAN, status \in {"ok", "403", "error"} :
            /\ Commissioned(run.app, status)
            /\ LET last == IF answered THEN status ELSE run.status IN
                GoTo(AfterCommissioning(last),
                     [run EXCEPT !.status = last,
                                 !.took = IF status = "ok" THEN TRUE ELSE @,
                                 !.heard = IF status = "ok" THEN answered
                                           ELSE answered /\ run.took])
            /\ Answered(answered)
       \/ \* Not reached over this scheme.
          GoTo(AfterCommissioning(run.status), run) /\ UNCHANGED <<keys, faults>>
    /\ UNCHANGED <<net, gate, file, oauth, count, saved, stale>>

\* PUT /WLAN/, after which the appliance leaves its SoftAP for the home network:
\* the last step of wifi, and of pair the last before it saves the keys.
AfterWlan(status) ==
    AfterPut(status, "wlan2", IF run.cmd = "pair" THEN "open" ELSE "ended", "ended")

Wlan ==
    /\ pc \in {"wlan1", "wlan2"}
    /\ \/ /\ net[run.app] = "softap"
          /\ \E answered \in BOOLEAN, status \in {"ok", "error"} :
              /\ net' = [net EXCEPT ![run.app] = IF status = "ok" THEN run.cmd ELSE @]
              /\ GoTo(AfterWlan(IF answered THEN status ELSE "none"), run)
              /\ Answered(answered)
       \/ GoTo(AfterWlan("none"), run) /\ UNCHANGED <<net, faults>>
    /\ UNCHANGED <<keys, gate, file, oauth, count, saved, stale>>

-----------------------------------------------------------------------------
(* The rest of commission, and of pair.                                     *)

WlanFirst == "wlan1"
AfterFab == "put1"

\* pair reads the route without authentication, before it commissions.
Fab ==
    /\ pc = "fab"
    /\ \E found \in BOOLEAN : GoTo(AfterFab, [run EXCEPT !.route = found])
    /\ UNCHANGED <<device, file, oauth, count, history>>

\* commission reads it with a signed GET, which only the keys in force answer;
\* --no-verify, a failure and an appliance with several routes leave it open.
AnswersAnyone(a) == keys[a] # None
Signed(a) == keys[a] = run.keys

DetectRoute ==
    /\ pc = "route"
    /\ \/ Signed(run.app) /\ GoTo("enable", [run EXCEPT !.route = TRUE])
       \/ GoTo("open", run)
    /\ UNCHANGED <<device, file, oauth, count, history>>

\* _enable_group_mode takes the panel out of "Warten auf App", which is not modelled,
\* and its failure is only printed; then, with --register-subscription, the registration.
EnableGroupMode ==
    /\ pc = "enable"
    /\ GoTo("subscribe", run) \/ GoTo("open", run)
    /\ UNCHANGED <<device, file, oauth, count, history>>

\* _try_register_subscription stops at the first registration it knows of.  When the
\* answer, or that of the listing it reads then, is lost, or the listing is refused,
\* it goes on.
AfterAttempt(registered, answered) ==
    IF (registered /\ answered) \/ run.attempt = LastAttempt THEN "open" ELSE "subscribe"

NextAttempt == IF run.attempt = LastAttempt THEN LastAttempt ELSE run.attempt + 1

TryRegister ==
    /\ pc = "subscribe"
    /\ \E registered, answered, listed \in BOOLEAN :
        /\ ~listed => registered /\ answered /\ run.attempt <= SignedAttempts
        /\ GoTo(AfterAttempt(registered, answered /\ listed),
                [run EXCEPT !.subs = IF registered THEN @ + 1 ELSE @,
                            !.attempt = NextAttempt,
                            !.unlisted = IF listed THEN @ ELSE TRUE])
        /\ Answered(answered)
    /\ UNCHANGED <<device, file, oauth, count, saved, stale>>

\* The key file is read, and write_text empties it.
OpenFile ==
    /\ pc = "open"
    /\ GoTo("write", [run EXCEPT !.kept = file])
    /\ file' = Erased
    /\ UNCHANGED <<device, oauth, count, history>>

\* The entries it held, with the endpoint's replaced.
NewFile == [run.kept EXCEPT ![run.app] = [keys |-> run.keys, route |-> run.route]]

WriteFile ==
    /\ pc = "write"
    /\ file' = NewFile
    /\ saved' = saved \cup {run.app}
    /\ stale' = [stale EXCEPT ![run.app] = FALSE]
    /\ End
    /\ UNCHANGED <<device, oauth, count, faults>>

-----------------------------------------------------------------------------
(* The environment.                                                         *)

\* An appliance without keys that is on the network gets the cloud's.
CloudPairs(a) ==
    /\ net[a] # "softap" /\ keys[a] = None
    /\ keys' = [keys EXCEPT ![a] = Cloud]
    /\ UNCHANGED <<net, gate, file, oauth, pc, run, count, history>>

\* The user resets an appliance while no command runs.
FactoryReset(a) ==
    /\ pc = "idle"
    /\ keys' = [keys EXCEPT ![a] = None]
    /\ net' = [net EXCEPT ![a] = "softap"]
    /\ gate' = [gate EXCEPT ![a] = a \notin Gated]
    /\ stale' = [stale EXCEPT ![a] = TRUE]
    /\ UNCHANGED <<file, oauth, pc, run, count, saved, faults>>

\* The user logs in again (miele_oauth_exchange.py writes the tokens file).
Reauthorize ==
    /\ pc = "idle"
    /\ oauth' = [oauth EXCEPT !.stored = {oauth.cloud}]
    /\ UNCHANGED <<device, file, pc, run, count, history>>

Tool ==
    \/ Refresh \/ OpenTokens \/ WriteTokens \/ FetchTan \/ PostTan
    \/ Put \/ Wlan \/ Fab \/ DetectRoute \/ EnableGroupMode \/ TryRegister
    \/ OpenFile \/ WriteFile \/ Return

Next ==
    \/ \E a \in Appliances :
        StartCommission(a) \/ StartPair(a) \/ StartWifi(a) \/ CloudPairs(a) \/ FactoryReset(a)
    \/ Tool
    \/ Crash
    \/ Reauthorize

Spec == Init /\ [][Next]_vars

-----------------------------------------------------------------------------
(* Properties.                                                              *)

\* An entry with a route holds keys the appliance accepts, until it is reset: a
\* 403 for other keys, or a run that never reached it, saves no route.
RoutedEntriesWork ==
    \A a \in Appliances :
        file[a].route /\ ~stale[a] => file[a].keys = keys[a]

\* What pair promises over wifi and commission: the appliance is keyed before it
\* meets the cloud, which then never installs keys of its own.
PairBeatsCloud ==
    \A a \in Appliances : net[a] = "pair" => keys[a] \notin {None, Cloud}

\* A commission that hears from the appliance after it took the keys saves them,
\* also when the answer to the request itself was lost and the second is refused.
TakenKeysAreSaved == pc = "ended" /\ run.cmd = "commission" => ~run.heard

\* Only a lost answer or an interruption leaves the tokens file without the
\* refresh token the cloud accepts.
StoredTokenWorks == pc = "idle" /\ faults = {} => oauth.stored = {oauth.cloud}

\* Only a lost answer, or a listing that is refused, makes it register a callback twice.
RegistersOnce == run.subs > 1 => "lost" \in faults \/ run.unlisted

\* Without an interruption no run for one appliance drops the keys of another, and
\* the file that is empty between its opening and its writing is filled again.
EntriesStay ==
    "crash" \notin faults /\ pc # "write" => \A a \in saved : file[a] # NoEntry

=============================================================================
