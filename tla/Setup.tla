-------------------------------- MODULE Setup --------------------------------
(***************************************************************************)
(* The config flow (config_flow.py) and the cloud client it uses           *)
(* (cloud.py): every way to an entry, taken by several flows at once.      *)
(*                                                                         *)
(* The user, Home Assistant's flow manager, Miele's cloud and the LAN are  *)
(* the environment.  A flow's identity stands for everything that is fresh *)
(* in it: its OAuth challenge, its entry's id and its synthetic fab.       *)
(***************************************************************************)
EXTENDS Naturals, FiniteSets

CONSTANTS
    Flows,
    Households,
    Local,       \* households with an appliance on this LAN
    Lowercase,   \* households whose id the cloud spells in lower case
    Fabs,        \* appliances whose mDNS name carries their fab number
    Clouds,      \* what the two backends may hold for the account
    Before       \* entries of earlier flows of the direct path

None == "none"
Regions == {"EU", "AS"}
\* Countries of us1 go as those of eu1 do.
DataCentres == {"eu1", "au1"}
Listed == [household : Households, devices : SUBSET Fabs]

ASSUME HouseholdsAssumption == Local \subseteq Households /\ Lowercase \subseteq Households
ASSUME CloudsAssumption == Clouds \subseteq [Regions -> SUBSET Listed]

\* The fab number in the name of an mDNS service: an appliance's, or the synthetic
\* one of the listener of the entry that flow f made.
Names == ({"appliance"} \X Fabs) \cup ({"listener"} \X Flows)
NoName == <<"unnamed", None>>

GroupKeys == [household : Households, devices : SUBSET Fabs, region : Regions]
NoGroupKey == [household |-> None, devices |-> {}, region |-> None]
Spellings == {"upper", "lower"}
Entries == [flow : Flows, household : Households, spelling : Spellings,
            region : Regions \cup {None}, devices : SUBSET Fabs]

ASSUME BeforeAssumption ==
    /\ Before \subseteq {e \in Entries : e.household \in Local /\ e.spelling = "upper" /\ e.region = None}
    /\ \A a, b \in Before : a.household = b.household \/ a.flow = b.flow => a = b

VARIABLES
    entries,   \* the config entries
    pc,        \* the form a flow shows or the await it is suspended in
    flow,      \* its local variables
    codes,     \* of each flow's login: no code yet, one to be redeemed, or redeemed
    cloud      \* what each backend holds for the account

vars == <<entries, pc, flow, codes, cloud>>

Forms == {"menu", "country", "authorize", "tokens", "keys", "card"}
Awaits == {"exchange", "browse", "ask", "finish", "discover"}
Results == {"none", "created", "already_configured", "oauth_failed", "groupkey_failed",
            "reloaded", "closed"}

Locals == [dc : DataCentres, code : Flows \cup {None}, wanted : SUBSET Households,
           asked : SUBSET Regions, heard : SUBSET Regions, raised : BOOLEAN,
           fallback : GroupKeys \cup {NoGroupKey}, found : GroupKeys \cup {NoGroupKey},
           keysFor : Households \cup {None}, name : Names \cup {NoName},
           entry : Flows \cup {None}, result : Results]

TypeOK ==
    /\ entries \subseteq Entries
    /\ pc \in [Flows -> Forms \cup Awaits \cup {"unborn", "ended"}]
    /\ flow \in [Flows -> Locals]
    /\ codes \in [Flows -> {"none", "issued", "redeemed"}]
    /\ cloud \in Clouds

NewFlow ==
    [dc |-> "eu1", code |-> None, wanted |-> {}, asked |-> {}, heard |-> {},
     raised |-> FALSE, fallback |-> NoGroupKey, found |-> NoGroupKey,
     keysFor |-> None, name |-> NoName, entry |-> None, result |-> "none"]

Init ==
    /\ entries = Before
    /\ pc = [f \in Flows |-> IF \E e \in Before : e.flow = f THEN "ended" ELSE "unborn"]
    /\ flow = [f \in Flows |-> IF \E e \in Before : e.flow = f
                               THEN [NewFlow EXCEPT !.result = "created"] ELSE NewFlow]
    /\ codes = [f \in Flows |-> "none"]
    /\ cloud \in Clouds

GoTo(f, step, locals) ==
    /\ pc' = [pc EXCEPT ![f] = step]
    /\ flow' = [flow EXCEPT ![f] = locals]

End(f, reason) == GoTo(f, "ended", [flow[f] EXCEPT !.result = reason])

-----------------------------------------------------------------------------
(* Forms.                                                                   *)

Open(f) ==
    /\ pc[f] = "unborn"
    /\ GoTo(f, "menu", flow[f])
    /\ UNCHANGED <<entries, codes, cloud>>

Choose(f, form) ==
    /\ pc[f] = "menu"
    /\ GoTo(f, form, flow[f])
    /\ UNCHANGED <<entries, codes, cloud>>

\* The data centre of the country only tells which backend is asked first.
RegionCandidates(dc) == IF dc = "au1" THEN <<"AS", "EU">> ELSE <<"EU", "AS">>

Country(f, dc) ==
    /\ pc[f] = "country"
    /\ GoTo(f, "authorize", [flow[f] EXCEPT !.dc = dc])
    /\ UNCHANGED <<entries, codes, cloud>>

\* The user logs in at the address the form shows.
Login(f) ==
    /\ pc[f] = "authorize" /\ codes[f] = "none"
    /\ codes' = [codes EXCEPT ![f] = "issued"]
    /\ UNCHANGED <<entries, pc, flow, cloud>>

\* The address of the redirect that is pasted must carry a code and the state of this
\* flow's own challenge; any other leaves the form, and the challenge, as they are.
ParseRedirect(f, issuer) == codes[issuer] # "none" /\ issuer = f

Authorize(f, issuer) ==
    /\ pc[f] = "authorize"
    /\ ParseRedirect(f, issuer)
    /\ GoTo(f, "exchange", [flow[f] EXCEPT !.code = issuer])
    /\ UNCHANGED <<entries, codes, cloud>>

Tokens(f, dc) ==
    /\ pc[f] = "tokens"
    /\ GoTo(f, "browse", [flow[f] EXCEPT !.dc = dc])
    /\ UNCHANGED <<entries, codes, cloud>>

\* A group id and key of the right lengths; others leave the form as it is.
DirectKeys(f, h) ==
    /\ pc[f] = "keys"
    /\ GoTo(f, "discover", [flow[f] EXCEPT !.keysFor = h])
    /\ UNCHANGED <<entries, codes, cloud>>

\* The user closes the dialog.
Close(f) ==
    /\ pc[f] \in Forms
    /\ End(f, "closed")
    /\ UNCHANGED <<entries, codes, cloud>>

-----------------------------------------------------------------------------
(* The cloud path.                                                          *)

\* The cloud redeems a code once, and only with the verifier of its own challenge.
Redeems(f) == codes[flow[f].code] = "issued" /\ flow[f].code = f

ExchangeCode(f) ==
    /\ pc[f] = "exchange"
    /\ codes' = [codes EXCEPT ![flow[f].code] = "redeemed"]
    /\ \/ Redeems(f) /\ GoTo(f, "browse", flow[f])
       \/ End(f, "oauth_failed")
    /\ UNCHANGED <<entries, cloud>>

\* Households some mDNS service names: the appliances', and those of the listeners
\* of the entries there are.
Advertised == Local \cup {e.household : e \in entries}

\* Best effort: a browse that fails sees none.
LanGroupIds(f) ==
    /\ pc[f] = "browse"
    /\ \E seen \in SUBSET Advertised : GoTo(f, "ask", [flow[f] EXCEPT !.wanted = seen])
    /\ UNCHANGED <<entries, codes, cloud>>

PickByDevices(groups, wanted) ==
    LET listing == {g \in groups : g.devices # {}}
    IN  IF listing # {} THEN listing ELSE groups
\* The households of one answer that may be taken: the first in the cloud's order
\* of those the LAN advertises, of those that list devices, or of all.
PickHousehold(groups, wanted) ==
    LET advertised == {g \in groups : g.household \in wanted}
        listing == {g \in groups : g.devices # {}}
    IN  IF advertised # {} THEN advertised ELSE IF listing # {} THEN listing ELSE groups

AsGroupKey(group, region) ==
    [household |-> group.household, devices |-> group.devices, region |-> region]

Candidate(f) ==
    RegionCandidates(flow[f].dc)[IF flow[f].asked = {} THEN 1 ELSE 2]

\* The backend refuses the token (403), times out, or answers garbage.
AskRaises(f) ==
    /\ pc[f] = "ask"
    /\ GoTo(f, "ended", [flow[f] EXCEPT !.raised = TRUE, !.result = "groupkey_failed"])
    /\ UNCHANGED <<entries, codes, cloud>>

\* What follows the last backend: the household kept aside, if any.
NoFallback(f, locals) == GoTo(f, "ended", [locals EXCEPT !.result = "groupkey_failed"])
AfterLast(f, locals) ==
    IF locals.fallback # NoGroupKey
    THEN GoTo(f, "finish", [locals EXCEPT !.found = locals.fallback])
    ELSE GoTo(f, "ended", [locals EXCEPT !.result = "groupkey_failed"])

Continue(f, locals) ==
    IF locals.asked = Regions THEN AfterLast(f, locals) ELSE GoTo(f, "ask", locals)

\* Another status than 200, or a list without a household.
AskNone(f) ==
    /\ pc[f] = "ask"
    /\ Continue(f, [flow[f] EXCEPT !.asked = @ \cup {Candidate(f)}])
    /\ UNCHANGED <<entries, codes, cloud>>

\* The first household that is kept aside stays.
KeptAside(f, groupkey) ==
    IF flow[f].fallback = NoGroupKey THEN groupkey ELSE flow[f].fallback

AskAnswers(f) ==
    /\ pc[f] = "ask"
    /\ \E group \in PickHousehold(cloud[Candidate(f)], flow[f].wanted) :
        LET groupkey == AsGroupKey(group, Candidate(f))
            locals == [flow[f] EXCEPT !.asked = @ \cup {Candidate(f)},
                                      !.heard = @ \cup {Candidate(f)}]
        IN  IF flow[f].wanted = {} \/ group.household \in flow[f].wanted
            THEN GoTo(f, "finish", [locals EXCEPT !.found = groupkey])
            ELSE Continue(f, [locals EXCEPT !.fallback = KeptAside(f, groupkey)])
    /\ UNCHANGED <<entries, codes, cloud>>

-----------------------------------------------------------------------------
(* Entries.                                                                 *)

Id(entry) == <<entry.household, entry.spelling>>

NoneYet(household, spelling) == TRUE
\* One config entry per household, by the id's spelling.
AbortIfConfigured(household, spelling) ==
    \A e \in entries : Id(e) # <<household, spelling>>

Spelled(household) == IF household \in Lowercase THEN "lower" ELSE "upper"

CreateEntry(f, household, spelling, region, devices) ==
    IF AbortIfConfigured(household, spelling)
    THEN /\ entries' = entries \cup
                {[flow |-> f, household |-> household, spelling |-> spelling,
                  region |-> region, devices |-> devices]}
         /\ End(f, "created")
    ELSE End(f, "already_configured") /\ UNCHANGED entries

\* The session is closed; the id is the one the cloud returned.
FinaliseCloud(f) ==
    /\ pc[f] = "finish"
    /\ LET found == flow[f].found
       IN  CreateEntry(f, found.household, Spelled(found.household), found.region,
                       found.devices)
    /\ UNCHANGED <<codes, cloud>>

\* Appliances of the household answered a signed request; its id in upper case.
Discovered(f) ==
    /\ pc[f] = "discover"
    /\ flow[f].keysFor \in Local
    /\ \E devices \in SUBSET Fabs :
        CreateEntry(f, flow[f].keysFor, "upper", None, devices)
    /\ UNCHANGED <<codes, cloud>>

NoDevices(f) ==
    /\ pc[f] = "discover"
    /\ GoTo(f, "keys", flow[f])
    /\ UNCHANGED <<entries, codes, cloud>>

\* The user removes an entry.
Remove(e) ==
    /\ entries' = entries \ {e}
    /\ UNCHANGED <<pc, flow, codes, cloud>>

-----------------------------------------------------------------------------
(* Discovery.                                                               *)

Stranger(e, name) == name \notin {<<"appliance", d>> : d \in e.devices}
\* Neither the listener of one of the entries nor an appliance this one knows.
Newcomer(e, name) ==
    /\ name \notin {<<"listener", own.flow>> : own \in entries}
    /\ name \notin {<<"appliance", d>> : d \in e.devices}

\* Home Assistant shows one card for an id at a time.
AlreadyInProgress(household, name) ==
    \E g \in Flows : pc[g] = "card" /\ flow[g].keysFor = household /\ flow[g].name = name

\* An appliance, or the listener of an entry there is or was: a record may linger.
Announces(name) == \A own \in Flows : name = <<"listener", own>> => flow[own].result = "created"

\* An mDNS service with a household and a fab number in its name.  Without entries,
\* without either, or of a household that is not configured, it leaves no trace.
Zeroconf(f, household, name) ==
    /\ pc[f] = "unborn"
    /\ Announces(name)
    /\ \E e \in entries :
        /\ e.household = household
        /\ Newcomer(e, name)
        /\ ~AlreadyInProgress(household, name)
        /\ GoTo(f, "card", [flow[f] EXCEPT !.keysFor = household, !.name = name,
                                           !.entry = e.flow])
    /\ UNCHANGED <<entries, codes, cloud>>

\* The entry's reload is another task's.
ConfirmCard(f) ==
    /\ pc[f] = "card"
    /\ End(f, "reloaded")
    /\ UNCHANGED <<entries, codes, cloud>>

AllEnded == (\A f \in Flows : pc[f] = "ended") /\ UNCHANGED vars

-----------------------------------------------------------------------------
\* What goes on without the user.
Step(f) ==
    \/ ExchangeCode(f) \/ LanGroupIds(f) \/ AskRaises(f) \/ AskNone(f) \/ AskAnswers(f)
    \/ FinaliseCloud(f) \/ Discovered(f) \/ NoDevices(f)

User(f) ==
    \/ Open(f)
    \/ \E form \in {"country", "tokens", "keys"} : Choose(f, form)
    \/ \E dc \in DataCentres : Country(f, dc) \/ Tokens(f, dc)
    \/ Login(f)
    \/ \E issuer \in Flows : Authorize(f, issuer)
    \/ \E h \in Households : DirectKeys(f, h)
    \/ Close(f)
    \/ \E h \in Households, name \in Names : Zeroconf(f, h, name)
    \/ ConfirmCard(f)

Next ==
    \/ \E f \in Flows : Step(f) \/ User(f)
    \/ \E e \in entries : Remove(e)
    \/ AllEnded

Spec == Init /\ [][Next]_vars
-----------------------------------------------------------------------------
(* Properties.                                                              *)

\* Two entries for one household differ in the way their id is spelled, which takes
\* a cloud that does not spell it as the direct path does, however flows overlap.
DuplicatesAreSpellings ==
    \A a, b \in entries :
        a.household = b.household /\ a # b =>
            a.household \in Lowercase /\ a.spelling # b.spelling

\* When the LAN shows households, another one is taken only if both backends were
\* asked and none that answered holds a household of the LAN.
LocalWins ==
    \A f \in Flows :
        LET taken == flow[f].found
        IN  /\ taken # NoGroupKey
            /\ flow[f].wanted # {}
            /\ taken.household \notin flow[f].wanted
            => /\ flow[f].asked = Regions
               /\ \A r \in flow[f].heard : \A g \in cloud[r] : g.household \notin flow[f].wanted

\* A flow gives up on the group key only if a backend failed or none named a
\* household: what the first one offered is not forgotten at the end.
FailureHasCause ==
    \A f \in Flows :
        flow[f].result = "groupkey_failed" => flow[f].raised \/ flow[f].heard = {}

\* The region an entry records is that of the backend which holds its household and
\* these devices, also when a second backend was asked after it.
RegionHolds ==
    \A e \in entries :
        e.region # None =>
            [household |-> e.household, devices |-> e.devices] \in cloud[e.region]

\* While a card is shown no entry's own listener is behind it, and its entry, if it is
\* still there, does not know the appliance, whatever is removed and added meanwhile.
CardsAreNewcomers ==
    \A f \in Flows : pc[f] = "card" =>
        /\ \A e \in entries : flow[f].name # <<"listener", e.flow>>
        /\ \A e \in entries : e.flow = flow[f].entry =>
            flow[f].name \notin {<<"appliance", d>> : d \in e.devices}

\* Each flow ends once, and by creating an entry only for an id that has none.
Promise == INSTANCE Onboarding WITH
    Ids <- Households \X Spellings,
    Before <- {<<Id(e), e.flow>> : e \in Before},
    open <- {f \in Flows : pc[f] # "ended"},
    configured <- {<<Id(e), e.flow>> : e \in entries}
OnboardsOnce == Promise!Spec

=============================================================================
