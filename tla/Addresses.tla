----------------------------- MODULE Addresses -----------------------------
(***************************************************************************)
(* Where a household's appliances are sought.  A setup of the entry        *)
(* (src/custom_components/miele_lan/__init__.py) takes the static IPs of   *)
(* the entry's data and options, browses mDNS and asks every hit which     *)
(* appliance answers there, and enrols its worklist one appliance after    *)
(* the other (enrollment.py); the options flow (config_flow.py) edits the  *)
(* static IPs meanwhile, and DHCP moves the appliances.                    *)
(*                                                                         *)
(* A mapping of fab numbers to addresses is a function with Nowhere for    *)
(* the absent ones.  A mDNS record outlives the address and the household  *)
(* it tells of, and a browse sees any part of the records, each at a       *)
(* moment of its own.  Household has the listener and the failures of a    *)
(* setup, Subscriptions what an enrolment writes.                          *)
(***************************************************************************)
EXTENDS Naturals, FiniteSets

CONSTANTS
    Fabs,       \* appliances on the LAN, by fab number
    Addresses,  \* IPv4 addresses of the LAN
    Nowhere,    \* no address
    Junk,       \* the text an IPv6 record is turned into
    Entries,    \* what the entry's data may hold: the appliances of its device list,
                \* whether an item of it has no fab number, and static IPs
    Submissions,\* what users submit in the options form
    Detected,   \* Home Assistant's own address
    GroupId,    \* the household as the entry spells it
    Groups,     \* the households as the appliances spell them
    Origins,    \* who is in which of them at first
    Upper,      \* the spelling in upper case
    Named,      \* appliances with the host name derived from their fab number
    MaxChanges, \* bound on moves and changes of household
    MaxSaves,   \* bound on saves of the options
    MaxSetups   \* bound on setups

Places == Addresses \cup {Nowhere}
Mappings == [Fabs -> Places]
OptionRecords == [static : Mappings, advertise : Places]
Uncommissioned == ""

ASSUME AddressAssumption ==
    /\ Nowhere \notin Addresses \cup Fabs /\ Junk \notin Places
    /\ Detected \in Addresses
ASSUME EntryAssumption ==
    /\ Entries \subseteq [listed : SUBSET Fabs, nameless : BOOLEAN, static : Mappings]
    /\ Submissions \subseteq OptionRecords /\ Named \subseteq Fabs
ASSUME BoundAssumption == MaxChanges \in Nat /\ MaxSaves \in Nat /\ MaxSetups \in Nat
ASSUME GroupAssumption ==
    /\ GroupId \in DOMAIN Upper /\ Groups \subseteq DOMAIN Upper
    /\ Origins \subseteq [Fabs -> Groups]
    /\ Nowhere \notin Groups
    /\ Uncommissioned \in Groups /\ Upper[GroupId] # Upper[Uncommissioned]

VARIABLES
    at,         \* the address an appliance has
    group,      \* the household it belongs to and advertises
    record,     \* the address and the household its mDNS record tells
    changes,
    been,       \* history: the households it has belonged to
    settled,    \* history: who has kept address and household since the last setup began
    data,       \* the entry's data
    options,    \* the entry's options: static IPs and the advertised address
    saves,
    phase,      \* the await of the setup
    setups,
    configured, \* the options this setup read
    static,     \* static IPs of this setup, the mDNS results merged in at last
    advertise,  \* the address it advertises
    hits,       \* addresses still to be probed
    found,      \* what the probes told: appliances and addresses
    todo,       \* the enrolment worklist
    current,    \* the appliance it is at, with the address to verify
    sighted,    \* the households the closing sweep has read of the reported appliances
    enrolled, failed

lanVars == <<at, group, record, changes, been>>
entryVars == <<data, options, saves>>
setupVars == <<phase, setups, configured, static, advertise, hits, found, todo,
               current, sighted, enrolled, failed>>
given == <<lanVars, settled, entryVars, setups, configured, advertise>>
vars == <<lanVars, settled, entryVars, setupVars>>

Phases == {"down", "browse", "probe", "enroll", "resolve", "verify", "dance", "sweep", "up"}
FirstReasons == {"noAddress", "unverified", "notListed", "danceFailed"}
Reasons == FirstReasons \cup {"uncommissioned", "otherHousehold"}
UnderWay == {"resolve", "verify", "dance"}
Nothing == [fab |-> Nowhere, host |-> Nowhere]
Items == [fab : Fabs, host : Places]
Unsighted == [f \in Fabs |-> Nowhere]

TypeOK ==
    /\ at \in Mappings /\ group \in [Fabs -> Groups]
    /\ record \in [Fabs -> [host : Places, group : Groups]]
    /\ been \in [Fabs -> SUBSET Groups] /\ settled \in SUBSET Fabs
    /\ changes \in 0..MaxChanges /\ setups \in 0..MaxSetups
    /\ data \in Entries /\ options \in OptionRecords /\ configured \in OptionRecords
    /\ saves \in 0..MaxSaves
    /\ phase \in Phases
    /\ static \in Mappings /\ advertise \in Addresses
    /\ hits \in SUBSET Addresses
    /\ found \in SUBSET [fab : Fabs, host : Addresses]
    /\ todo \in SUBSET (Items \cup {Nothing})
    /\ current \in [fab : Fabs, host : Places \cup {Junk}] \cup {Nothing}
    /\ phase \in UnderWay => current \in [fab : Fabs, host : Places \cup {Junk}]
    /\ sighted \in [Fabs -> Groups \cup {Nowhere}]
    /\ enrolled \in SUBSET [fab : Fabs, host : Places \cup {Junk}]
    /\ failed \in SUBSET [fab : Fabs, reason : Reasons]

Init ==
    /\ at \in [Fabs -> Places \ {Detected}]
    /\ \A f, g \in Fabs : at[f] = at[g] => f = g \/ at[f] = Nowhere
    /\ group \in Origins
    /\ record = [f \in Fabs |-> [host |-> Nowhere, group |-> group[f]]]
    /\ been = [f \in Fabs |-> {group[f]}] /\ settled = {}
    /\ data \in Entries
    /\ changes = 0 /\ saves = 0 /\ setups = 0
    /\ options = [static |-> [f \in Fabs |-> Nowhere], advertise |-> Nowhere]
    /\ phase = "down" /\ configured = options
    /\ static = [f \in Fabs |-> Nowhere] /\ advertise = Detected
    /\ hits = {} /\ found = {} /\ todo = {} /\ current = Nothing
    /\ sighted = Unsighted /\ enrolled = {} /\ failed = {}

IsOurs(g) == Upper[g] = Upper[GroupId]
Ours(f) == IsOurs(group[f])

\* A signed GET /Devices to an address is answered by a member of the household.
Answers(f, address) == at[f] = address /\ address \in Addresses /\ Ours(f)
Recorded(f) == record[f].host # Nowhere

\* {**lower, **upper}
Layered(lower, upper) == [f \in Fabs |-> IF upper[f] # Nowhere THEN upper[f] ELSE lower[f]]

-----------------------------------------------------------------------------
(* The LAN.                                                                *)

Move(f, place) ==
    /\ changes < MaxChanges
    /\ place # Detected /\ (place = Nowhere \/ \A g \in Fabs : at[g] # place)
    /\ at' = [at EXCEPT ![f] = place]
    /\ changes' = changes + 1
    /\ settled' = settled \ {f}
    /\ UNCHANGED <<group, record, been, entryVars, setupVars>>

Join(f, g) ==
    /\ changes < MaxChanges
    /\ group' = [group EXCEPT ![f] = g]
    /\ changes' = changes + 1
    /\ been' = [been EXCEPT ![f] = @ \cup {g}]
    /\ settled' = settled \ {f}
    /\ UNCHANGED <<at, record, entryVars, setupVars>>

\* Also the expiry of the record of an appliance that is gone.
Announce(f) ==
    /\ record' = [record EXCEPT ![f] = [host |-> at[f], group |-> group[f]]]
    /\ UNCHANGED <<at, group, changes, been, settled, entryVars, setupVars>>

-----------------------------------------------------------------------------
(* The options flow.                                                       *)

\* _current_static_ips
CurrentStaticIps == Layered(data.static, options.static)

\* The form has a field for each listed appliance, with its present address as the
\* suggestion, and keeps the others'; with an empty device list it is one text for all.
Freeform == data.listed = {} /\ ~ data.nameless

Merge(typed) ==
    [f \in Fabs |-> IF f \in data.listed \/ Freeform THEN typed[f] ELSE CurrentStaticIps[f]]

\* async_step_known_devices and async_step_freeform replace the options as a whole; an
\* address that is none brings the form again.
Save(typed) ==
    /\ saves < MaxSaves
    /\ options' = [typed EXCEPT !.static = Merge(typed.static)]
    /\ saves' = saves + 1
    /\ UNCHANGED <<lanVars, settled, data, setupVars>>

-----------------------------------------------------------------------------
(* A setup of the entry.                                                   *)

ResolveAdvertiseIp ==
    IF options.advertise # Nowhere THEN options.advertise ELSE Detected

\* A first setup, or another one after a reload.
Begin ==
    /\ phase \in {"down", "up"} /\ setups < MaxSetups
    /\ setups' = setups + 1
    /\ phase' = "browse"
    /\ configured' = options
    /\ static' = CurrentStaticIps
    /\ advertise' = ResolveAdvertiseIp
    /\ hits' = {} /\ found' = {} /\ todo' = {} /\ current' = Nothing
    /\ sighted' = Unsighted /\ enrolled' = {} /\ failed' = {}
    /\ settled' = Fabs
    /\ UNCHANGED <<lanVars, entryVars>>

\* mdns_discover_household: each service of the household that is looked up in time is
\* a hit, one for an address.
Hit(f) ==
    /\ phase = "browse" /\ Recorded(f) /\ IsOurs(record[f].group)
    /\ record[f].host # advertise
    /\ hits' = hits \cup {record[f].host}
    /\ UNCHANGED <<given, phase, static, found, todo, current, sighted, enrolled, failed>>

BrowseEnds ==
    /\ phase = "browse"
    /\ phase' = "probe"
    /\ UNCHANGED <<given, static, hits, found, todo, current, sighted, enrolled, failed>>

\* _signed_get_fabs: whoever has the address by now answers, or nobody in time.
Probe(address) ==
    /\ phase = "probe" /\ address \in hits
    /\ hits' = hits \ {address}
    /\ found' = found \cup
            {[fab |-> f, host |-> address] : f \in {g \in Fabs : Answers(g, address)}}
    /\ UNCHANGED <<given, phase, static, todo, current, sighted, enrolled, failed>>

ProbeFails(address) ==
    /\ phase = "probe" /\ address \in hits
    /\ hits' = hits \ {address}
    /\ UNCHANGED <<given, phase, static, found, todo, current, sighted, enrolled, failed>>

Found(f) == {r \in found : r.fab = f}

\* The static IPs with the mDNS results over them; the last of several stays.
StaticWins(merged) ==
    \A f \in Fabs :
        IF Found(f) = {} \/ static[f] # Nowhere
        THEN merged[f] = static[f]
        ELSE [fab |-> f, host |-> merged[f]] \in found

MdnsWins(merged) ==
    \A f \in Fabs :
        IF Found(f) = {} THEN merged[f] = static[f]
                         ELSE [fab |-> f, host |-> merged[f]] \in found

\* _merge_mdns_adoptions: the list, and each result for an appliance not on it; items
\* without a fab number count as one.
Adopted == {r \in found : r.fab \notin data.listed}
Worklist ==
    [fab : data.listed, host : {Nowhere}] \cup Adopted
        \cup (IF data.nameless THEN {Nothing} ELSE {})

Merged(merged) ==
    /\ phase = "probe" /\ hits = {} /\ Worklist # {}
    /\ MdnsWins(merged)
    /\ static' = merged
    /\ todo' = Worklist
    /\ phase' = "enroll"
    /\ UNCHANGED <<given, hits, found, current, sighted, enrolled, failed>>

\* Neither source knows of an appliance: the setup returns False, after a last browse
\* for the text of its log entry.
GiveUp ==
    /\ phase = "probe" /\ hits = {} /\ Worklist = {}
    /\ phase' = "down"
    /\ UNCHANGED <<given, static, hits, found, todo, current, sighted, enrolled, failed>>

\* The next appliance, the closing sweep if somebody is reported, or the end.
Onward(ahead, reported) ==
    IF ahead # {} THEN "enroll" ELSE IF reported # {} THEN "sweep" ELSE "up"

\* An item without a fab number is passed over.
Skip ==
    /\ phase = "enroll" /\ Nothing \in todo
    /\ todo' = todo \ {Nothing}
    /\ phase' = Onward(todo', failed)
    /\ UNCHANGED <<given, static, hits, found, current, sighted, enrolled, failed>>

\* DeviceIpResolver.resolve: an address at hand, else a browse.
Resolve(item) ==
    /\ phase = "enroll" /\ item \in todo \ {Nothing}
    /\ todo' = todo \ {item}
    /\ current' = [fab |-> item.fab, host |-> static[item.fab]]
    /\ phase' = IF static[item.fab] # Nowhere THEN "verify" ELSE "resolve"
    /\ UNCHANGED <<given, static, hits, found, sighted, enrolled, failed>>

\* _mdns_resolve: a record with the host name derived from the fab number, if
\* there is one; the address is junk when the first record is an IPv6 one.
MdnsResolves(place) ==
    /\ phase = "resolve"
    /\ current.fab \in Named /\ Recorded(current.fab)
    /\ place \in {record[current.fab].host, Junk}
    /\ current' = [current EXCEPT !.host = place]
    /\ phase' = "verify"
    /\ UNCHANGED <<given, static, hits, found, todo, sighted, enrolled, failed>>

ContinueUnreported(reason) ==
    /\ failed' = failed \cup (IF reason = "noAddress" THEN {}
                              ELSE {[fab |-> current.fab, reason |-> reason]})
    /\ current' = Nothing
    /\ phase' = Onward(todo, failed')
    /\ UNCHANGED <<given, static, hits, found, todo, sighted, enrolled>>

FailsFor(reason) ==
    /\ failed' = failed \cup {[fab |-> current.fab, reason |-> reason]}
    /\ current' = Nothing
    /\ phase' = Onward(todo, failed')
    /\ UNCHANGED <<given, static, hits, found, todo, sighted, enrolled>>

NoAddress == phase = "resolve" /\ FailsFor("noAddress")
Unverified == phase = "verify" /\ FailsFor("unverified")

\* Somebody else of the household has the address now.
NotListed ==
    /\ phase = "verify"
    /\ \E f \in Fabs \ {current.fab} : Answers(f, current.host)
    /\ FailsFor("notListed")

\* The client cannot be opened, or closed after the dance.
DanceFails == phase \in {"verify", "dance"} /\ FailsFor("danceFailed")

ListsAnybody ==
    /\ phase = "verify" /\ \E f \in Fabs : Answers(f, current.host)
    /\ phase' = "dance"
    /\ UNCHANGED <<given, static, hits, found, todo, current, sighted, enrolled, failed>>

\* The signed read lists the appliance.
ListsIt ==
    /\ phase = "verify" /\ Answers(current.fab, current.host)
    /\ phase' = "dance"
    /\ UNCHANGED <<given, static, hits, found, todo, current, sighted, enrolled, failed>>

\* After the SuperVision PUT and the subscription POSTs, whatever became of them and of
\* the appliance meanwhile.
Enroll ==
    /\ phase = "dance"
    /\ enrolled' = enrolled \cup {current}
    /\ current' = Nothing
    /\ phase' = Onward(todo, failed)
    /\ UNCHANGED <<given, static, hits, found, todo, sighted, failed>>

\* _mdns_groups_by_hostname, which looks the services up in the order they turn up; of
\* their host names only those of reported appliances are asked for.
Sight(f) ==
    /\ phase = "sweep" /\ f \in {d.fab : d \in failed} \cap Named /\ Recorded(f)
    /\ sighted' = [sighted EXCEPT ![f] = record[f].group]
    /\ UNCHANGED <<given, phase, static, hits, found, todo, current, enrolled, failed>>

RefinedBySpelling(reason, g) ==
    CASE g = Nowhere -> reason
      [] g = Uncommissioned -> "uncommissioned"
      [] g \notin {Nowhere, Uncommissioned} ->
            IF Upper[g] = GroupId THEN reason ELSE "otherHousehold"

\* refine_failure_reason, by the household that was read, if one was.
Refined(reason, g) ==
    CASE g = Nowhere -> reason
      [] g = Uncommissioned -> "uncommissioned"
      [] g \notin {Nowhere, Uncommissioned} ->
            IF IsOurs(g) THEN reason ELSE "otherHousehold"

\* _refine_failure_reasons; a sweep that fails refines nothing.  The setup goes on to
\* the coordinators (Household).
Refine(read) ==
    /\ phase = "sweep"
    /\ failed' = {[d EXCEPT !.reason = Refined(d.reason, read[d.fab])] : d \in failed}
    /\ sighted' = Unsighted
    /\ phase' = "up"
    /\ UNCHANGED <<given, static, hits, found, todo, current, enrolled>>

-----------------------------------------------------------------------------
SetupStep ==
    \/ \E f \in Fabs : Hit(f) \/ Sight(f)
    \/ BrowseEnds
    \/ \E a \in Addresses : Probe(a) \/ ProbeFails(a)
    \/ \E merged \in Mappings : Merged(merged)
    \/ GiveUp
    \/ Skip
    \/ \E item \in todo : Resolve(item)
    \/ \E place \in Places \cup {Junk} : MdnsResolves(place)
    \/ NoAddress \/ Unverified \/ NotListed \/ DanceFails \/ ListsIt \/ Enroll
    \/ \E read \in {sighted, Unsighted} : Refine(read)

FormStep == \E typed \in Submissions : Save(typed)

LanStep ==
    \E f \in Fabs :
        \/ Announce(f)
        \/ \E place \in Places : Move(f, place)
        \/ \E g \in Groups : Join(f, g)

Next == LanStep \/ FormStep \/ Begin \/ SetupStep

Spec == Init /\ [][Next]_vars

-----------------------------------------------------------------------------
(* Properties.                                                             *)

Checked == enrolled \cup (IF phase \in {"verify", "dance"} THEN {current} ELSE {})

\* What a setup knows of an address ranks: what the appliance confirmed on the LAN
\* in this very setup, then the options it read, then the entry's data
\* (__init__.py:137-141, 194).  An appliance is verified and enrolled at no address
\* of a lower rank than one it has.
BestAddressIsUsed ==
    \A r \in Checked :
        IF Found(r.fab) # {} THEN r \in found
        ELSE IF configured.static[r.fab] # Nowhere THEN r.host = configured.static[r.fab]
        ELSE IF data.static[r.fab] # Nowhere THEN r.host = data.static[r.fab]
        ELSE r.fab \in Named

\* Nobody with a fab number is lost between the two sources and the result: a finished
\* setup enrolled or reported each such appliance that the entry lists or that answered
\* a probe (enrollment.py:345-384, __init__.py:195).
EverybodyIsAccountedFor ==
    phase = "up" =>
        \A f \in data.listed \cup {r.fab : r \in found} :
            \/ \E r \in enrolled : r.fab = f
            \/ \E d \in failed : d.fab = f

\* The address this installation advertises is nobody's: no appliance is found at it,
\* whether it was detected or configured (__init__.py:191, enrollment.py:680).
OwnAddressFindsNobody == \A r \in found : r.host # advertise

\* An appliance that stays where it is all through a setup is mistaken for nobody, however
\* old the addresses and records it is sought by and whoever else has them by now: it is
\* enrolled only at its own address, as a member of the household, and once it has
\* answered a probe it is never reported as an address that lists somebody else
\* (enrollment.py:159, __init__.py:194).
TheSettledAreNotMistaken ==
    /\ \A r \in enrolled : r.fab \in settled => at[r.fab] = r.host /\ Ours(r.fab)
    /\ \A d \in failed :
        d.fab \in settled /\ Found(d.fab) # {} => d.reason # "notListed"

\* The reports send nobody to reset an appliance that has always been his: "in another
\* household" or "in none" is said only of one that has been, if perhaps no longer, and
\* however either side spells the household (enrollment_report.py:57-71).
BlameFits ==
    \A d \in failed :
        /\ d.reason = "otherHousehold" =>
                \E g \in been[d.fab] : ~ IsOurs(g) /\ g # Uncommissioned
        /\ d.reason = "uncommissioned" => Uncommissioned \in been[d.fab]

=============================================================================
