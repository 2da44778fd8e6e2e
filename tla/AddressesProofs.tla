--------------------------- MODULE AddressesProofs ---------------------------
(***************************************************************************)
(* What the setup's resolution of addresses guarantees on every LAN.       *)
(* RankInv says which source each address comes from, phase by phase;      *)
(* AccountInv where each appliance of the worklist is between the browse   *)
(* and the result, SettledInv who is where he was found, BlameInv what the *)
(* records have told.                                                      *)
(***************************************************************************)
EXTENDS Addresses, TLAPS

USE DEF Places, Mappings, Phases, UnderWay, FirstReasons, Reasons, Nothing, OptionRecords, Items

LEMMA LayeredIsMapping ==
    ASSUME NEW lower \in Mappings, NEW upper \in Mappings
    PROVE  Layered(lower, upper) \in Mappings
BY DEF Layered

LEMMA MergeIsMapping ==
    ASSUME TypeOK, NEW typed \in Mappings
    PROVE  Merge(typed) \in Mappings
<1>1. options.static \in Mappings /\ data.static \in Mappings
  BY EntryAssumption DEF TypeOK
<1>2. CurrentStaticIps \in Mappings
  BY <1>1, LayeredIsMapping DEF CurrentStaticIps
<1> QED BY <1>2 DEF Merge

\* The LAN and the options leave the setup alone.
LEMMA OutsideKeeps ==
    LanStep \/ FormStep \/ UNCHANGED vars => UNCHANGED <<setupVars, data>> /\ settled' \subseteq settled
BY DEF LanStep, FormStep, Announce, Move, Join, Save, vars, entryVars

-----------------------------------------------------------------------------
(* Types.                                                                  *)

LEMMA TypeInit == Init => TypeOK
<1> SUFFICES ASSUME Init PROVE TypeOK OBVIOUS
<1>1. [f \in Fabs |-> Nowhere] \in Mappings OBVIOUS
<1>2. options \in OptionRecords /\ configured \in OptionRecords BY <1>1 DEF Init
<1>3. group \in [Fabs -> Groups] BY GroupAssumption DEF Init
<1>4. /\ record \in [Fabs -> [host : Places, group : Groups]]
      /\ been \in [Fabs -> SUBSET Groups]
      /\ sighted \in [Fabs -> Groups \cup {Nowhere}]
  BY <1>3 DEF Init, Unsighted
<1> QED BY <1>1, <1>2, <1>3, <1>4, AddressAssumption, BoundAssumption DEF Init, TypeOK

LEMMA TypeOutside ==
    ASSUME TypeOK, LanStep \/ FormStep \/ UNCHANGED vars
    PROVE  TypeOK'
<1>1. UNCHANGED setupVars BY OutsideKeeps
<1>2. CASE LanStep
  <2>1. ASSUME NEW f \in Fabs, Announce(f) PROVE TypeOK'
    <3>1. record' \in [Fabs -> [host : Places, group : Groups]]
      BY <2>1 DEF Announce, TypeOK
    <3> QED BY <2>1, <1>1, <3>1 DEF Announce, TypeOK, entryVars, setupVars
  <2>2. ASSUME NEW f \in Fabs, NEW place \in Places, Move(f, place) PROVE TypeOK'
    <3>1. at' \in Mappings /\ changes' \in 0..MaxChanges /\ settled' \in SUBSET Fabs
      BY <2>2, BoundAssumption DEF Move, TypeOK
    <3> QED BY <2>2, <1>1, <3>1 DEF Move, TypeOK, entryVars, setupVars
  <2>3. ASSUME NEW f \in Fabs, NEW g \in Groups, Join(f, g) PROVE TypeOK'
    <3>1. group' \in [Fabs -> Groups] /\ been' \in [Fabs -> SUBSET Groups]
      BY <2>3 DEF Join, TypeOK
    <3>2. changes' \in 0..MaxChanges /\ settled' \in SUBSET Fabs
      BY <2>3, BoundAssumption DEF Join, TypeOK
    <3> QED BY <2>3, <1>1, <3>1, <3>2 DEF Join, TypeOK, entryVars, setupVars
  <2> QED BY <1>2, <2>1, <2>2, <2>3 DEF LanStep
<1>3. CASE FormStep
  <2>1. PICK typed \in Submissions : Save(typed) BY <1>3 DEF FormStep
  <2>2. typed \in OptionRecords /\ Merge(typed.static) \in Mappings
    BY MergeIsMapping, EntryAssumption
  <2>3. options' \in OptionRecords /\ saves' \in 0..MaxSaves
    BY <2>1, <2>2, BoundAssumption DEF Save, TypeOK
  <2> QED BY <1>1, <2>1, <2>3 DEF Save, TypeOK, lanVars, setupVars
<1>4. CASE UNCHANGED vars
  BY <1>4 DEF TypeOK, vars, lanVars, entryVars, setupVars
<1> QED BY <1>2, <1>3, <1>4

LEMMA TypeBegin == TypeOK /\ Begin => TypeOK'
<1> SUFFICES ASSUME TypeOK, Begin PROVE TypeOK' OBVIOUS
<1>1. /\ options.static \in Mappings /\ options.advertise \in Places
      /\ data.static \in Mappings
  BY EntryAssumption DEF TypeOK
<1>2. CurrentStaticIps \in Mappings
  BY <1>1, LayeredIsMapping DEF CurrentStaticIps
<1>3. ResolveAdvertiseIp \in Addresses
  BY <1>1, AddressAssumption DEF ResolveAdvertiseIp
<1>4. setups' \in 0..MaxSetups BY BoundAssumption DEF Begin, TypeOK
<1>5. sighted' \in [Fabs -> Groups \cup {Nowhere}] BY DEF Begin, Unsighted
<1> QED BY <1>2, <1>3, <1>4, <1>5 DEF Begin, TypeOK, lanVars, entryVars

LEMMA TypeSetup == TypeOK /\ SetupStep => TypeOK'
<1> SUFFICES ASSUME TypeOK, SetupStep PROVE TypeOK' OBVIOUS
<1> USE DEF given, lanVars, entryVars
<1>1. ASSUME NEW f \in Fabs, Hit(f) PROVE TypeOK'
  <2>1. record[f].host \in Addresses BY <1>1 DEF Hit, Recorded, TypeOK
  <2>2. hits' \in SUBSET Addresses BY <1>1, <2>1 DEF Hit, TypeOK
  <2> QED BY <1>1, <2>2 DEF Hit, TypeOK
<1>2. CASE BrowseEnds BY <1>2 DEF BrowseEnds, TypeOK
<1>3. ASSUME NEW a \in Addresses, Probe(a) \/ ProbeFails(a) PROVE TypeOK'
  <2>1. found' \in SUBSET [fab : Fabs, host : Addresses] /\ hits' \in SUBSET Addresses
    BY <1>3 DEF Probe, ProbeFails, TypeOK
  <2> QED BY <1>3, <2>1 DEF Probe, ProbeFails, TypeOK
<1>4. ASSUME NEW merged \in Mappings, Merged(merged) PROVE TypeOK'
  <2>1. Worklist \subseteq Items \cup {Nothing}
    BY EntryAssumption DEF Worklist, Adopted, TypeOK
  <2> QED BY <1>4, <2>1 DEF Merged, TypeOK
<1>5. CASE GiveUp BY <1>5 DEF GiveUp, TypeOK
<1>6. CASE Skip BY <1>6 DEF Skip, Onward, TypeOK
<1>7. ASSUME NEW item \in todo, Resolve(item) PROVE TypeOK'
  <2>1. item.fab \in Fabs BY <1>7 DEF Resolve, TypeOK
  <2>2. static[item.fab] \in Places BY <2>1 DEF TypeOK
  <2>3. current' \in [fab : Fabs, host : Places \cup {Junk}]
    BY <1>7, <2>1, <2>2 DEF Resolve
  <2> QED BY <1>7, <2>3 DEF Resolve, TypeOK
<1>8. ASSUME NEW place \in Places \cup {Junk}, MdnsResolves(place) PROVE TypeOK'
  <2>1. current' \in [fab : Fabs, host : Places \cup {Junk}]
    BY <1>8 DEF MdnsResolves, TypeOK
  <2> QED BY <1>8, <2>1 DEF MdnsResolves, TypeOK
<1>9. ASSUME NEW reason \in FirstReasons, phase \in UnderWay, FailsFor(reason)
      PROVE  TypeOK'
  <2>1. failed' \in SUBSET [fab : Fabs, reason : Reasons] BY <1>9 DEF FailsFor, TypeOK
  <2>2. phase' \in {"enroll", "sweep", "up"} BY <1>9 DEF FailsFor, Onward
  <2> QED BY <1>9, <2>1, <2>2 DEF FailsFor, TypeOK
<1>10. CASE ListsIt BY <1>10 DEF ListsIt, TypeOK
<1>11. CASE Enroll
  <2>1. enrolled' \in SUBSET [fab : Fabs, host : Places \cup {Junk}]
    BY <1>11 DEF Enroll, TypeOK
  <2>2. phase' \in {"enroll", "sweep", "up"} BY <1>11 DEF Enroll, Onward
  <2> QED BY <1>11, <2>1, <2>2 DEF Enroll, TypeOK
<1>12. ASSUME NEW f \in Fabs, Sight(f) PROVE TypeOK'
  <2>1. sighted' \in [Fabs -> Groups \cup {Nowhere}] BY <1>12 DEF Sight, TypeOK
  <2> QED BY <1>12, <2>1 DEF Sight, TypeOK
<1>13. ASSUME NEW read \in {sighted, Unsighted}, Refine(read) PROVE TypeOK'
  <2>1. \A d \in failed : Refined(d.reason, read[d.fab]) \in Reasons
    BY DEF Refined, TypeOK
  <2>2. failed' \in SUBSET [fab : Fabs, reason : Reasons]
    BY <1>13, <2>1 DEF Refine, TypeOK
  <2>3. sighted' \in [Fabs -> Groups \cup {Nowhere}] BY <1>13 DEF Refine, Unsighted
  <2> QED BY <1>13, <2>2, <2>3 DEF Refine, TypeOK
<1> QED
  BY <1>1, <1>2, <1>3, <1>4, <1>5, <1>6, <1>7, <1>8, <1>9, <1>10, <1>11, <1>12, <1>13
  DEF SetupStep, NoAddress, Unverified, NotListed, DanceFails

\* Every variable keeps its type, whatever the LAN does.
THEOREM TypeCorrect == Spec => []TypeOK
<1>1. TypeOK /\ [Next]_vars => TypeOK'
  BY TypeOutside, TypeBegin, TypeSetup DEF Next
<1> QED BY TypeInit, <1>1, PTL DEF Spec

-----------------------------------------------------------------------------
(* Which source an address comes from.                                     *)

Options == Layered(data.static, configured.static)

\* The static IPs once the mDNS results are merged in.
MergedStatic(mapping) ==
    \A f \in Fabs :
        IF Found(f) = {} THEN mapping[f] = Options[f]
                         ELSE [fab |-> f, host |-> mapping[f]] \in found

Early == {"down", "browse", "probe"}

Sought(r) == IF static[r.fab] # Nowhere THEN r.host = static[r.fab] ELSE r.fab \in Named

RankInv ==
    /\ phase \in Early => enrolled = {} /\ failed = {} /\ todo = {}
    /\ phase \in {"browse", "probe"} => static = Options
    /\ phase \notin Early => MergedStatic(static)
    /\ phase = "resolve" => static[current.fab] = Nowhere
    /\ \A r \in enrolled : Sought(r)
    /\ phase \in {"verify", "dance"} => Sought(current)

LEMMA RankInit == Init => RankInv
BY DEF Init, RankInv, Early

LEMMA RankOutside == RankInv /\ UNCHANGED <<setupVars, data>> => RankInv'
BY DEF RankInv, setupVars, MergedStatic, Options, Sought, Found

LEMMA RankBegin == RankInv /\ Begin => RankInv'
BY DEF Begin, RankInv, Early, Options, CurrentStaticIps, entryVars

\* Once merged, the mapping and what was found stay.
LEMMA RankLater ==
    ASSUME TypeOK, RankInv, phase \notin Early, phase' \notin Early,
           UNCHANGED <<static, found, configured, data>>,
           enrolled' = enrolled \/ (phase = "dance" /\ enrolled' = enrolled \cup {current}),
           phase' = "resolve" => static[current'.fab] = Nowhere,
           phase' \in {"verify", "dance"} => Sought(current)'
    PROVE  RankInv'
<1>1. MergedStatic(static)' BY DEF RankInv, MergedStatic, Found, Options
<1>2. ASSUME NEW r \in enrolled' PROVE Sought(r)'
  BY <1>2 DEF RankInv, Sought
<1>3. phase' = "resolve" => static'[current'.fab] = Nowhere OBVIOUS
<1>4. phase' \notin {"browse", "probe"} BY DEF Early
<1> QED BY <1>1, <1>2, <1>3, <1>4 DEF RankInv, Early

LEMMA RankSetup == TypeOK /\ RankInv /\ SetupStep => RankInv'
<1> SUFFICES ASSUME TypeOK, RankInv, SetupStep PROVE RankInv' OBVIOUS
<1> USE DEF given, entryVars
<1>1. CASE BrowseEnds \/ GiveUp \/ \E f \in Fabs : Hit(f)
  BY <1>1 DEF Hit, BrowseEnds, GiveUp, RankInv, Early, Options
<1>2. ASSUME NEW a \in Addresses, Probe(a) \/ ProbeFails(a) PROVE RankInv'
  BY <1>2 DEF Probe, ProbeFails, RankInv, Early, Options
<1>3. ASSUME NEW merged \in Mappings, Merged(merged) PROVE RankInv'
  <2>1. static = Options /\ MdnsWins(merged) BY <1>3 DEF Merged, RankInv
  <2>2. MergedStatic(merged) BY <2>1 DEF MdnsWins, MergedStatic
  <2>3. MergedStatic(static)'
    BY <1>3, <2>2 DEF Merged, MergedStatic, Found, Options
  <2> QED BY <1>3, <2>3 DEF Merged, RankInv, Early
<1>4. CASE Skip BY <1>4, RankLater DEF Skip, Onward, Early
<1>5. ASSUME NEW item \in todo, Resolve(item) PROVE RankInv'
  <2>1. phase' = "verify" => Sought(current)' BY <1>5 DEF Resolve, Sought
  <2>2. phase' = "resolve" => static[current'.fab] = Nowhere BY <1>5 DEF Resolve
  <2> QED BY <1>5, <2>1, <2>2, RankLater DEF Resolve, Early
<1>6. ASSUME NEW place \in Places \cup {Junk}, MdnsResolves(place) PROVE RankInv'
  <2>1. current'.fab = current.fab BY <1>6 DEF MdnsResolves, TypeOK
  <2>2. Sought(current)' BY <1>6, <2>1 DEF MdnsResolves, RankInv, Sought
  <2> QED BY <1>6, <2>2, RankLater DEF MdnsResolves, Early
<1>7. ASSUME NEW reason \in FirstReasons, phase \in UnderWay, FailsFor(reason)
      PROVE  RankInv'
  BY <1>7, RankLater DEF FailsFor, Onward, Early
<1>8. CASE ListsIt
  <2>1. Sought(current)' BY <1>8 DEF ListsIt, RankInv, Sought
  <2> QED BY <1>8, <2>1, RankLater DEF ListsIt, Early
<1>9. CASE Enroll BY <1>9, RankLater DEF Enroll, Onward, Early
<1>10. CASE \/ \E f \in Fabs : Sight(f)
            \/ \E read \in {sighted, Unsighted} : Refine(read)
  BY <1>10, RankLater DEF Sight, Refine, Early
<1> QED
  BY <1>1, <1>2, <1>3, <1>4, <1>5, <1>6, <1>7, <1>8, <1>9, <1>10
  DEF SetupStep, NoAddress, Unverified, NotListed, DanceFails

LEMMA RankSafe == TypeOK /\ RankInv => BestAddressIsUsed
<1> SUFFICES ASSUME TypeOK, RankInv, NEW r \in Checked
             PROVE  IF Found(r.fab) # {} THEN r \in found
                    ELSE IF configured.static[r.fab] # Nowhere
                         THEN r.host = configured.static[r.fab]
                    ELSE IF data.static[r.fab] # Nowhere
                         THEN r.host = data.static[r.fab]
                    ELSE r.fab \in Named
  BY DEF BestAddressIsUsed
<1>1. r \in [fab : Fabs, host : Places \cup {Junk}] BY DEF Checked, TypeOK
<1>2. phase \notin Early /\ Sought(r) BY DEF Checked, RankInv, Early
<1>3. MergedStatic(static) BY <1>2 DEF RankInv
<1>4. CASE Found(r.fab) # {}
  <2>1. [fab |-> r.fab, host |-> static[r.fab]] \in found
    BY <1>1, <1>3, <1>4 DEF MergedStatic
  <2>2. static[r.fab] \in Addresses BY <2>1 DEF TypeOK
  <2>3. r.host = static[r.fab] BY <1>2, <2>2, AddressAssumption DEF Sought
  <2>4. r = [fab |-> r.fab, host |-> r.host] BY <1>1
  <2> QED BY <1>4, <2>1, <2>3, <2>4
<1>5. CASE Found(r.fab) = {}
  <2>1. static[r.fab] = Options[r.fab] BY <1>1, <1>3, <1>5 DEF MergedStatic
  <2> QED BY <1>1, <1>2, <1>5, <2>1 DEF Options, Layered, Sought
<1> QED BY <1>4, <1>5

\* An appliance is sought at the best address known, for every list, mapping and LAN.
THEOREM BestAddress == Spec => []BestAddressIsUsed
<1>1. Init => TypeOK /\ RankInv BY TypeInit, RankInit
<1>2. TypeOK /\ RankInv /\ [Next]_vars => (TypeOK /\ RankInv)'
  <2> SUFFICES ASSUME TypeOK, RankInv, [Next]_vars PROVE TypeOK' /\ RankInv' OBVIOUS
  <2>1. CASE LanStep \/ FormStep \/ UNCHANGED vars
    BY <2>1, TypeOutside, OutsideKeeps, RankOutside
  <2>2. CASE Begin BY <2>2, TypeBegin, RankBegin
  <2>3. CASE SetupStep BY <2>3, TypeSetup, RankSetup
  <2> QED BY <2>1, <2>2, <2>3 DEF Next
<1> QED BY <1>1, <1>2, RankSafe, PTL DEF Spec

-----------------------------------------------------------------------------
(* Nobody is lost.                                                         *)

Expected == data.listed \cup {r.fab : r \in found}

\* Where an appliance of the worklist is: ahead, under way, enrolled or reported.
Accounted(f) ==
    \/ \E i \in todo : i.fab = f
    \/ phase \in UnderWay /\ current.fab = f
    \/ \E r \in enrolled : r.fab = f
    \/ \E d \in failed : d.fab = f

AccountInv ==
    /\ phase \notin Early => \A f \in Expected : Accounted(f)
    /\ phase \in {"sweep", "up"} => todo = {}

LEMMA AccountOutside == AccountInv /\ UNCHANGED <<setupVars, data>> => AccountInv'
BY DEF AccountInv, Expected, Accounted, setupVars

\* A step that only moves appliances on to a later place loses none.
LEMMA AccountLater ==
    ASSUME AccountInv, phase \notin Early, UNCHANGED <<found, data>>,
           \A f \in Expected : Accounted(f) => Accounted(f)',
           phase' \in {"sweep", "up"} => todo' = {}
    PROVE  AccountInv'
BY DEF AccountInv, Expected

LEMMA AccountSetup == TypeOK /\ AccountInv /\ SetupStep => AccountInv'
<1> SUFFICES ASSUME TypeOK, AccountInv, SetupStep PROVE AccountInv' OBVIOUS
<1> USE DEF given, entryVars
<1>1. CASE BrowseEnds \/ GiveUp \/ \E f \in Fabs : Hit(f)
  BY <1>1 DEF Hit, BrowseEnds, GiveUp, AccountInv, Early
<1>2. ASSUME NEW a \in Addresses, Probe(a) \/ ProbeFails(a) PROVE AccountInv'
  BY <1>2 DEF Probe, ProbeFails, AccountInv, Early
<1>3. ASSUME NEW merged \in Mappings, Merged(merged) PROVE AccountInv'
  <2>1. ASSUME NEW f \in Expected PROVE \E i \in Worklist : i.fab = f
    <3>1. CASE f \in data.listed
      <4>1. [fab |-> f, host |-> Nowhere] \in Worklist BY <3>1 DEF Worklist
      <4> QED BY <4>1
    <3>2. CASE f \notin data.listed
      <4>1. PICK r \in found : r.fab = f BY <2>1, <3>2 DEF Expected
      <4> QED BY <3>2, <4>1 DEF Worklist, Adopted
    <3> QED BY <3>1, <3>2
  <2> QED BY <1>3, <2>1 DEF Merged, AccountInv, Accounted, Expected
<1>4. CASE Skip
  <2>1. Expected \subseteq Fabs BY EntryAssumption DEF Expected, TypeOK
  <2>2. \A f \in Expected : Accounted(f) => Accounted(f)'
    BY <1>4, <2>1, AddressAssumption DEF Skip, Accounted
  <2> QED BY <1>4, <2>2, AccountLater DEF Skip, Onward, Early
<1>5. ASSUME NEW item \in todo, Resolve(item) PROVE AccountInv'
  <2>1. \A f \in Expected : Accounted(f) => Accounted(f)'
    BY <1>5 DEF Resolve, Accounted
  <2> QED BY <1>5, <2>1, AccountLater DEF Resolve, Early
<1>6. ASSUME NEW place \in Places \cup {Junk}, MdnsResolves(place) PROVE AccountInv'
  <2>1. current'.fab = current.fab BY <1>6 DEF MdnsResolves, TypeOK
  <2>2. \A f \in Expected : Accounted(f) => Accounted(f)'
    BY <1>6, <2>1 DEF MdnsResolves, Accounted
  <2> QED BY <1>6, <2>2, AccountLater DEF MdnsResolves, Early
<1>7. ASSUME NEW reason \in FirstReasons, phase \in UnderWay, FailsFor(reason)
      PROVE  AccountInv'
  <2>1. [fab |-> current.fab, reason |-> reason] \in failed' BY <1>7 DEF FailsFor
  <2>2. \E d \in failed' : d.fab = current.fab BY <2>1
  <2>3. \A f \in Expected : Accounted(f) => Accounted(f)'
    BY <1>7, <2>2 DEF FailsFor, Accounted
  <2> QED BY <1>7, <2>3, AccountLater DEF FailsFor, Onward, Early
<1>8. CASE ListsIt
  <2>1. \A f \in Expected : Accounted(f) => Accounted(f)' BY <1>8 DEF ListsIt, Accounted
  <2> QED BY <1>8, <2>1, AccountLater DEF ListsIt, Early
<1>9. CASE Enroll
  <2>1. \A f \in Expected : Accounted(f) => Accounted(f)' BY <1>9 DEF Enroll, Accounted
  <2> QED BY <1>9, <2>1, AccountLater DEF Enroll, Onward, Early
<1>10. ASSUME NEW f \in Fabs, Sight(f) PROVE AccountInv'
  BY <1>10 DEF Sight, AccountInv, Accounted, Expected, Early
<1>11. ASSUME NEW read \in {sighted, Unsighted}, Refine(read) PROVE AccountInv'
  <2>1. ASSUME NEW d \in failed PROVE \E e \in failed' : e.fab = d.fab
    <3>1. d \in [fab : Fabs, reason : Reasons] BY DEF TypeOK
    <3>2. [d EXCEPT !.reason = Refined(d.reason, read[d.fab])].fab = d.fab BY <3>1
    <3> QED BY <1>11, <3>2 DEF Refine
  <2>2. \A f \in Expected : Accounted(f) => Accounted(f)'
    BY <1>11, <2>1 DEF Refine, Accounted
  <2> QED BY <1>11, <2>2, AccountLater DEF Refine, AccountInv, Early
<1> QED
  BY <1>1, <1>2, <1>3, <1>4, <1>5, <1>6, <1>7, <1>8, <1>9, <1>10, <1>11
  DEF SetupStep, NoAddress, Unverified, NotListed, DanceFails

\* A finished setup has enrolled or reported everybody, whatever moves meanwhile.
THEOREM EverybodyAccounted == Spec => []EverybodyIsAccountedFor
<1>1. Init => TypeOK /\ AccountInv BY TypeInit DEF Init, AccountInv, Early
<1>2. TypeOK /\ AccountInv /\ [Next]_vars => (TypeOK /\ AccountInv)'
  <2> SUFFICES ASSUME TypeOK, AccountInv, [Next]_vars PROVE TypeOK' /\ AccountInv' OBVIOUS
  <2>1. CASE LanStep \/ FormStep \/ UNCHANGED vars
    BY <2>1, TypeOutside, OutsideKeeps, AccountOutside
  <2>2. CASE Begin BY <2>2, TypeBegin DEF Begin, AccountInv, Early
  <2>3. CASE SetupStep BY <2>3, TypeSetup, AccountSetup
  <2> QED BY <2>1, <2>2, <2>3 DEF Next
<1>3. AccountInv => EverybodyIsAccountedFor
  BY DEF AccountInv, EverybodyIsAccountedFor, Accounted, Expected, Early
<1> QED BY <1>1, <1>2, <1>3, PTL DEF Spec

-----------------------------------------------------------------------------
(* The address this installation advertises.                               *)

OwnInv ==
    /\ OwnAddressFindsNobody
    /\ phase \in {"browse", "probe"} => advertise \notin hits

LEMMA OwnStep == OwnInv /\ [Next]_vars => OwnInv'
<1> SUFFICES ASSUME OwnInv, [Next]_vars PROVE OwnInv' OBVIOUS
<1> USE DEF OwnInv, OwnAddressFindsNobody, given
<1>1. CASE LanStep \/ FormStep \/ UNCHANGED vars BY <1>1, OutsideKeeps DEF setupVars
<1>2. CASE Begin BY <1>2 DEF Begin
<1>3. CASE SetupStep
  <2>1. CASE BrowseEnds \/ \E f \in Fabs : Hit(f) BY <2>1 DEF Hit, BrowseEnds
  <2>2. ASSUME NEW a \in Addresses, Probe(a) \/ ProbeFails(a) PROVE OwnInv'
    BY <2>2 DEF Probe, ProbeFails
  <2>3. CASE GiveUp \/ \E merged \in Mappings : Merged(merged) BY <2>3 DEF Merged, GiveUp
  <2>4. CASE Skip \/ \E item \in todo : Resolve(item) BY <2>4 DEF Skip, Resolve, Onward
  <2>5. CASE \E place \in Places \cup {Junk} : MdnsResolves(place)
    BY <2>5 DEF MdnsResolves
  <2>6. CASE NoAddress \/ Unverified \/ NotListed \/ DanceFails
    BY <2>6 DEF NoAddress, Unverified, NotListed, DanceFails, FailsFor, Onward
  <2>7. CASE ListsIt \/ Enroll BY <2>7 DEF ListsIt, Enroll, Onward
  <2>8. CASE \/ \E f \in Fabs : Sight(f)
             \/ \E read \in {sighted, Unsighted} : Refine(read)
    BY <2>8 DEF Sight, Refine
  <2> QED BY <1>3, <2>1, <2>2, <2>3, <2>4, <2>5, <2>6, <2>7, <2>8 DEF SetupStep
<1> QED BY <1>1, <1>2, <1>3 DEF Next

\* No probe is sent to an address Home Assistant advertises itself.
THEOREM OwnAddress == Spec => []OwnAddressFindsNobody
<1>1. Init => OwnInv BY DEF Init, OwnInv, OwnAddressFindsNobody
<1> QED BY <1>1, OwnStep, PTL DEF Spec, OwnInv

-----------------------------------------------------------------------------
(* Who stays where he is.                                                  *)

Apart == \A f, g \in Fabs : at[f] = at[g] => f = g \/ at[f] = Nowhere

IsThere(r) == r.fab \in settled => at[r.fab] = r.host /\ Ours(r.fab)

SettledInv ==
    /\ Apart
    /\ \A r \in found \cup enrolled : IsThere(r)
    /\ phase = "dance" => IsThere(current)
    /\ \A d \in failed : d.fab \in settled /\ Found(d.fab) # {} => d.reason # "notListed"

LEMMA SettledOutside ==
    ASSUME TypeOK, SettledInv, LanStep \/ FormStep \/ UNCHANGED vars
    PROVE  SettledInv'
<1> USE DEF SettledInv, Apart, IsThere, Ours, Found, setupVars
<1>1. UNCHANGED setupVars /\ settled' \subseteq settled BY OutsideKeeps
<1>2. CASE FormStep \/ UNCHANGED vars
  <2>1. UNCHANGED <<at, group>> BY <1>2 DEF FormStep, Save, vars, lanVars
  <2> QED BY <1>1, <2>1
<1>3. ASSUME NEW f \in Fabs, Announce(f) PROVE SettledInv'
  <2>1. UNCHANGED <<at, group>> BY <1>3 DEF Announce
  <2> QED BY <1>1, <2>1
<1>4. ASSUME NEW f \in Fabs, NEW place \in Places, Move(f, place) PROVE SettledInv'
  <2>1. Apart' BY <1>4 DEF Move, TypeOK
  <2>2. ASSUME NEW r, IsThere(r) PROVE IsThere(r)'
    <3>1. CASE r.fab \in settled'
      <4>1. r.fab \in Fabs /\ r.fab # f BY <1>4, <3>1 DEF Move, TypeOK
      <4> QED BY <1>1, <1>4, <2>2, <3>1, <4>1 DEF Move, TypeOK
    <3> QED BY <3>1
  <2> QED BY <1>1, <2>1, <2>2
<1>5. ASSUME NEW f \in Fabs, NEW g \in Groups, Join(f, g) PROVE SettledInv'
  <2>1. Apart' BY <1>5 DEF Join
  <2>2. ASSUME NEW r, IsThere(r) PROVE IsThere(r)'
    <3>1. CASE r.fab \in settled'
      <4>1. r.fab \in Fabs /\ r.fab # f BY <1>5, <3>1 DEF Join, TypeOK
      <4> QED BY <1>1, <1>5, <2>2, <3>1, <4>1 DEF Join, TypeOK
    <3> QED BY <3>1
  <2> QED BY <1>1, <2>1, <2>2
<1> QED BY <1>2, <1>3, <1>4, <1>5 DEF LanStep

\* What is under way has been merged: one who answered a probe is verified where he did.
LEMMA VerifiedWhereFound ==
    ASSUME TypeOK, RankInv, phase = "verify", Found(current.fab) # {}
    PROVE  current \in found
<1>1. current \in [fab : Fabs, host : Places \cup {Junk}] BY DEF TypeOK
<1>2. MergedStatic(static) /\ Sought(current) BY DEF RankInv, Early
<1>3. [fab |-> current.fab, host |-> static[current.fab]] \in found
  BY <1>1, <1>2 DEF MergedStatic
<1>4. static[current.fab] \in Addresses BY <1>3 DEF TypeOK
<1>5. current.host = static[current.fab] BY <1>2, <1>4, AddressAssumption DEF Sought
<1>6. current = [fab |-> current.fab, host |-> current.host] BY <1>1
<1> QED BY <1>3, <1>5, <1>6

LEMMA SettledSetup ==
    ASSUME TypeOK, RankInv, SettledInv, SetupStep
    PROVE  SettledInv'
<1> USE DEF SettledInv, Apart, IsThere, Ours, Found, given, lanVars
<1>1. CASE BrowseEnds \/ GiveUp \/ \E f \in Fabs : Hit(f)
  BY <1>1 DEF Hit, BrowseEnds, GiveUp
<1>2. ASSUME NEW a \in Addresses, Probe(a) \/ ProbeFails(a) PROVE SettledInv'
  <2>1. failed = {} /\ failed' = {} /\ phase' = phase
    BY <1>2 DEF Probe, ProbeFails, RankInv, Early
  <2>2. \A r \in found' : IsThere(r) BY <1>2 DEF Probe, ProbeFails, Answers
  <2> QED BY <1>2, <2>1, <2>2 DEF Probe, ProbeFails
<1>3. CASE \E merged \in Mappings : Merged(merged) BY <1>3 DEF Merged
<1>4. CASE Skip \/ \E item \in todo : Resolve(item) BY <1>4 DEF Skip, Resolve, Onward
<1>5. CASE \E place \in Places \cup {Junk} : MdnsResolves(place) BY <1>5 DEF MdnsResolves
<1>6. ASSUME NEW reason \in FirstReasons \ {"notListed"}, FailsFor(reason) PROVE SettledInv'
  <2>1. \A d \in failed' \ failed : d.reason # "notListed" BY <1>6 DEF FailsFor
  <2>2. phase' # "dance" BY <1>6 DEF FailsFor, Onward
  <2> QED BY <1>6, <2>1, <2>2 DEF FailsFor
<1>7. CASE NotListed
  <2>1. phase' # "dance" BY <1>7 DEF NotListed, FailsFor, Onward
  <2>2. ASSUME current.fab \in settled, Found(current.fab) # {} PROVE FALSE
    <3>1. current \in found BY <1>7, <2>2, VerifiedWhereFound DEF NotListed
    <3>2. at[current.fab] = current.host BY <2>2, <3>1
    <3>3. PICK f \in Fabs \ {current.fab} : Answers(f, current.host) BY <1>7 DEF NotListed
    <3>4. at[f] = at[current.fab] /\ at[f] # Nowhere
      BY <3>2, <3>3, AddressAssumption DEF Answers
    <3>5. current.fab \in Fabs BY <2>2 DEF TypeOK
    <3> QED BY <3>3, <3>4, <3>5
  <2>3. \A d \in failed' \ failed : d.fab = current.fab BY <1>7 DEF NotListed, FailsFor
  <2> QED BY <1>7, <2>1, <2>2, <2>3 DEF NotListed, FailsFor
<1>8. CASE ListsIt
  <2>1. IsThere(current)' BY <1>8 DEF ListsIt, Answers
  <2> QED BY <1>8, <2>1 DEF ListsIt
<1>9. CASE Enroll
  <2>1. phase' # "dance" BY <1>9 DEF Enroll, Onward
  <2>2. \A r \in enrolled' : IsThere(r) BY <1>9 DEF Enroll
  <2> QED BY <1>9, <2>1, <2>2 DEF Enroll
<1>10. CASE \E f \in Fabs : Sight(f) BY <1>10 DEF Sight
<1>11. ASSUME NEW read \in {sighted, Unsighted}, Refine(read) PROVE SettledInv'
  <2>1. ASSUME NEW d \in failed', d.reason = "notListed" PROVE d \in failed
    <3>1. PICK e \in failed : d = [e EXCEPT !.reason = Refined(e.reason, read[e.fab])]
      BY <1>11 DEF Refine
    <3>2. e \in [fab : Fabs, reason : Reasons] BY DEF TypeOK
    <3>3. Refined(e.reason, read[e.fab]) = "notListed" BY <2>1, <3>1, <3>2
    <3>4. e.reason = "notListed" BY <3>3 DEF Refined
    <3> QED BY <3>1, <3>2, <3>3, <3>4
  <2> QED BY <1>11, <2>1 DEF Refine
<1> QED
  BY <1>1, <1>2, <1>3, <1>4, <1>5, <1>6, <1>7, <1>8, <1>9, <1>10, <1>11
  DEF SetupStep, NoAddress, Unverified, DanceFails

\* One who stays put is enrolled where he is and, once found, taken for nobody else,
\* whatever the static IPs, the records and the others do.
THEOREM TheSettled == Spec => []TheSettledAreNotMistaken
<1>1. Init => TypeOK /\ RankInv /\ SettledInv
  BY TypeInit, RankInit DEF Init, SettledInv, Apart, IsThere
<1>2. TypeOK /\ RankInv /\ SettledInv /\ [Next]_vars => (TypeOK /\ RankInv /\ SettledInv)'
  <2> SUFFICES ASSUME TypeOK, RankInv, SettledInv, [Next]_vars
               PROVE  TypeOK' /\ RankInv' /\ SettledInv'
    OBVIOUS
  <2>1. CASE LanStep \/ FormStep \/ UNCHANGED vars
    BY <2>1, TypeOutside, OutsideKeeps, RankOutside, SettledOutside
  <2>2. CASE Begin
    <3>1. SettledInv' BY <2>2 DEF Begin, SettledInv, Apart, IsThere, lanVars
    <3> QED BY <2>2, <3>1, TypeBegin, RankBegin
  <2>3. CASE SetupStep BY <2>3, TypeSetup, RankSetup, SettledSetup
  <2> QED BY <2>1, <2>2, <2>3 DEF Next
<1>3. SettledInv => TheSettledAreNotMistaken
  BY DEF SettledInv, IsThere, TheSettledAreNotMistaken
<1> QED BY <1>1, <1>2, <1>3, PTL DEF Spec

-----------------------------------------------------------------------------
(* What the reports say.                                                   *)

\* Whatever is announced, recorded or read of an appliance's household has been true.
BlameInv ==
    /\ \A f \in Fabs :
        /\ group[f] \in been[f] /\ record[f].group \in been[f]
        /\ sighted[f] \in been[f] \cup {Nowhere}
    /\ BlameFits

LEMMA BlameOutside ==
    ASSUME TypeOK, BlameInv, LanStep \/ FormStep \/ UNCHANGED vars
    PROVE  BlameInv'
<1> USE DEF BlameInv, BlameFits, IsOurs, setupVars
<1>1. UNCHANGED setupVars BY OutsideKeeps
<1>2. CASE FormStep \/ UNCHANGED vars
  <2>1. UNCHANGED lanVars BY <1>2 DEF FormStep, Save, vars
  <2> QED BY <1>1, <2>1 DEF lanVars
<1>3. ASSUME NEW f \in Fabs, Announce(f) PROVE BlameInv'
  BY <1>1, <1>3 DEF Announce, TypeOK
<1>4. ASSUME NEW f \in Fabs, NEW place \in Places, Move(f, place) PROVE BlameInv'
  BY <1>1, <1>4 DEF Move
<1>5. ASSUME NEW f \in Fabs, NEW g \in Groups, Join(f, g) PROVE BlameInv'
  <2>1. \A h \in Fabs : been[h] \subseteq been'[h] BY <1>5 DEF Join, TypeOK
  <2>2. \A h \in Fabs : group'[h] \in been'[h] BY <1>5, <2>1 DEF Join, TypeOK
  <2>3. \A d \in failed : d.fab \in Fabs BY DEF TypeOK
  <2>4. BlameFits' BY <1>1, <2>1, <2>3
  <2>5. UNCHANGED record BY <1>5 DEF Join
  <2> QED BY <1>1, <2>1, <2>2, <2>4, <2>5
<1> QED BY <1>2, <1>3, <1>4, <1>5 DEF LanStep

LEMMA BlameSetup ==
    ASSUME TypeOK, BlameInv, SetupStep
    PROVE  BlameInv'
<1> USE DEF BlameInv, BlameFits, given, lanVars
<1>1. CASE \/ BrowseEnds \/ GiveUp \/ Skip \/ ListsIt \/ Enroll
           \/ \E f \in Fabs : Hit(f)
           \/ \E a \in Addresses : Probe(a) \/ ProbeFails(a)
           \/ \E merged \in Mappings : Merged(merged)
           \/ \E item \in todo : Resolve(item)
           \/ \E place \in Places \cup {Junk} : MdnsResolves(place)
  <2>1. UNCHANGED <<lanVars, sighted, failed>>
    BY <1>1 DEF BrowseEnds, GiveUp, Skip, ListsIt, Enroll, Hit, Probe, ProbeFails, Merged,
                Resolve, MdnsResolves
  <2> QED BY <2>1
<1>2. ASSUME NEW reason \in FirstReasons, FailsFor(reason) PROVE BlameInv'
  <2>1. \A d \in failed' \ failed : d.reason \in FirstReasons BY <1>2 DEF FailsFor
  <2> QED BY <1>2, <2>1 DEF FailsFor
<1>3. ASSUME NEW f \in Fabs, Sight(f) PROVE BlameInv'
  <2>1. \A g \in Fabs : sighted'[g] \in been[g] \cup {Nowhere} BY <1>3 DEF Sight, TypeOK
  <2> QED BY <1>3, <2>1 DEF Sight
<1>4. ASSUME NEW read \in {sighted, Unsighted}, Refine(read) PROVE BlameInv'
  <2>1. ASSUME NEW d \in failed'
        PROVE  /\ d.reason = "otherHousehold" =>
                       \E g \in been[d.fab] : ~ IsOurs(g) /\ g # Uncommissioned
               /\ d.reason = "uncommissioned" => Uncommissioned \in been[d.fab]
    <3>1. PICK e \in failed : d = [e EXCEPT !.reason = Refined(e.reason, read[e.fab])]
      BY <1>4 DEF Refine
    <3>2. e \in [fab : Fabs, reason : Reasons] BY DEF TypeOK
    <3>3. d.fab = e.fab /\ d.reason = Refined(e.reason, read[e.fab]) BY <3>1, <3>2
    <3>4. read[e.fab] \in been[e.fab] \cup {Nowhere} BY <3>2 DEF Unsighted
    <3>5. read[e.fab] = Nowhere <=> read[e.fab] \notin Groups
      BY <3>2, GroupAssumption DEF TypeOK, Unsighted
    <3> QED BY <3>1, <3>3, <3>4, <3>5, GroupAssumption DEF Refined
  <2>2. \A f \in Fabs : sighted'[f] = Nowhere BY <1>4 DEF Refine, Unsighted
  <2> QED BY <1>4, <2>1, <2>2 DEF Refine
<1> QED
  BY <1>1, <1>2, <1>3, <1>4
  DEF SetupStep, NoAddress, Unverified, NotListed, DanceFails

\* Another household is named, or none, only of an appliance that has been there.
THEOREM BlameIsFair == Spec => []BlameFits
<1>1. Init => TypeOK /\ BlameInv
  <2> SUFFICES ASSUME Init PROVE BlameInv BY TypeInit
  <2> QED BY DEF Init, BlameInv, BlameFits, Unsighted
<1>2. TypeOK /\ BlameInv /\ [Next]_vars => (TypeOK /\ BlameInv)'
  <2> SUFFICES ASSUME TypeOK, BlameInv, [Next]_vars PROVE TypeOK' /\ BlameInv' OBVIOUS
  <2>1. CASE LanStep \/ FormStep \/ UNCHANGED vars BY <2>1, TypeOutside, BlameOutside
  <2>2. CASE Begin
    <3>1. BlameInv' BY <2>2 DEF Begin, BlameInv, BlameFits, Unsighted, lanVars
    <3> QED BY <2>2, <3>1, TypeBegin
  <2>3. CASE SetupStep BY <2>3, TypeSetup, BlameSetup
  <2> QED BY <2>1, <2>2, <2>3 DEF Next
<1> QED BY <1>1, <1>2, PTL DEF Spec, BlameInv
=============================================================================
