------------------------- MODULE CoordinatorProofs -------------------------
(***************************************************************************)
(* What TLAPS proves of Coordinator for every family, every set of fields, *)
(* every bound and every combination of answers and losses.                *)
(*                                                                         *)
(* None of the properties is inductive.  IInv joins to them the facts they *)
(* rest on: which attributes each suspended section of the poll still      *)
(* vouches for (ContextInv, IdentInv), which setup phases exclude a poll   *)
(* (PhaseInv), and that whatever is in flight is no newer than the         *)
(* appliance (NoInventionInv).                                             *)
(***************************************************************************)
EXTENDS Coordinator, TLAPS

Reading == {"contextWait", "wakeWait", "retryWait", "quickWait"}
Complete(s) == \A f \in Fields : s[f] # None

(* A poll runs only in phases that have one, and a registered coordinator   *)
(* has been through a successful one.                                       *)
PhaseInv ==
    /\ phase \in {"notReady", "ensureIdent"} => pc = "idle"
    /\ phase = "ensureIdent" => available
    /\ Registered => everSucceeded

(* A complete /State arrives whole, and is never lost once stored.          *)
StateInv ==
    /\ reply # NoReply => Complete(reply)
    /\ everSucceeded \/ pc \notin {"idle", "state"} => Complete(state)

(* /Ident is being read only while it is wanted and the budget lasts.       *)
IdentInv ==
    /\ pc = "identWait" => ~identLoaded
    /\ ~identLoaded => ident = {} /\ identAttempts < MaxIdentAttempts
    /\ IdentBudgetIsPolls

(* While 2/1585 is being read it is not latched and no door is known, so a  *)
(* miss still has room to count and an answer finds nothing to contradict.  *)
ContextInv ==
    /\ missCycles = MaxMissCycles => "context" \in unsupported
    /\ LatchClearsContext
    /\ pc \in Reading => "context" \notin unsupported
    /\ DoorIsFromThisPoll

AvailableInv == UnavailableOnlyPastTolerance

(* The entities agree with _data also while the poll waits for /State.      *)
ShownInv == phase = "running" /\ pc \in {"idle", "state"} => shown = View

(* What is in flight is no newer than the appliance.                        *)
NoInventionInv ==
    /\ \A p \in pushes : p.value <= world[p.field]
    /\ \A f \in Fields : reply[f] # None => reply[f] <= world[f]
    /\ NoInvention

(* A running hood with retries to spare has an identity, which is final.    *)
HoodInv ==
    /\ phase = "running" /\ setupAttempts # SetupRetries => ident # {}
    /\ HoodControlsUnlessExhausted

IInv ==
    /\ TypeOK /\ PhaseInv /\ StateInv /\ IdentInv /\ ContextInv
    /\ AvailableInv /\ ShownInv /\ NoInventionInv /\ HoodInv

-----------------------------------------------------------------------------
(* A step is one of these.  Every lemma below splits on this list.         *)

\* A new coordinator: nothing is read, nothing is in flight.
LEMMA InitInv == Init => IInv
<1> SUFFICES ASSUME Init PROVE IInv
    OBVIOUS
<1> USE DEF Init
<1>1. TypeOK
    <2>1. 0 \in Versions
        BY BoundsAssumption DEF Versions
    <2>2. None \in MaybeVersion /\ NoReply \in [Fields -> MaybeVersion]
        BY DEF NoReply, MaybeVersion
    <2>3. shown \in [state : [Fields -> MaybeVersion], context : MaybeVersion,
                     door : MaybeVersion]
        BY <2>2
    <2>4. world \in [Sources -> Versions]
        BY <2>1
    <2> HIDE DEF Init
    <2>5. 0 \in 0..MaxIdentAttempts /\ 0 \in 0..SetupRetries
          /\ 0 \in 0..MaxMissCycles /\ 0 \in 0..(FailureTolerance + 1)
        BY BoundsAssumption
    <2> QED
        BY <2>2, <2>3, <2>4, <2>5 DEF Init, TypeOK, Phases
<1>2. PhaseInv /\ StateInv /\ AvailableInv /\ ShownInv
    BY DEF PhaseInv, StateInv, AvailableInv, ShownInv, Registered,
           UnavailableOnlyPastTolerance
<1>3. IdentInv /\ ContextInv /\ HoodInv
    BY BoundsAssumption
    DEF IdentInv, ContextInv, HoodInv, IdentBudgetIsPolls,
        LatchClearsContext, DoorIsFromThisPoll, Reading,
        HoodControlsUnlessExhausted
<1>4. NoInventionInv
    BY DEF NoInventionInv, NoInvention, NoReply
<1> QED
    BY <1>1, <1>2, <1>3, <1>4 DEF IInv

\* Every attribute keeps its type; the two counters need IdentInv and ContextInv.
LEMMA TypeStep == IInv /\ [Next]_vars => TypeOK'
<1> SUFFICES ASSUME IInv, [Next]_vars PROVE TypeOK'
    OBVIOUS
<1> USE DEF IInv, TypeOK, coordVars, envVars, identVars, contextVars,
        otherVars, leafVars, healthVars, haVars, Awaits, Sections
<1>0. View \in [state : [Fields -> MaybeVersion], context : MaybeVersion,
                door : MaybeVersion]
    BY DEF View
<1>1. ASSUME NEW f \in Sources, ApplianceChanges(f) PROVE TypeOK'
    BY <1>1, BoundsAssumption DEF ApplianceChanges, Versions, Pushes
<1>2. ASSUME NEW p \in pushes, LosePush(p) PROVE TypeOK'
    BY <1>2 DEF LosePush
<1>3. ASSUME NEW leaf \in Leaves, Elapse(leaf) PROVE TypeOK'
    BY <1>3 DEF Elapse
<1>4. CASE Answer
    BY <1>4 DEF Answer, StateOf, MaybeVersion, Sources
<1>5. ASSUME NEW p \in pushes, PushState(p) PROVE TypeOK'
    BY <1>5 DEF PushState, Pushed, Notify, View, Pushes, MaybeVersion
<1>6. ASSUME NEW p \in pushes, PushIdent(p) PROVE TypeOK'
    BY <1>6 DEF PushIdent, Pushed, Notify, View
<1>7. CASE StartPoll
    BY <1>7 DEF StartPoll
<1>8. CASE PollFails
    BY <1>8, BoundsAssumption
    DEF PollFails, Tolerated, Notify, View, NoReply, MaybeVersion, Phases
<1>9. CASE PollState
    BY <1>9 DEF PollState, NoReply, MaybeVersion
<1>10. CASE PollIdent
    BY <1>10 DEF PollIdent
<1>11. ASSUME NEW r \in IdentReplies, IdentReply(r) PROVE TypeOK'
    BY <1>11, RepliesAssumption, BoundsAssumption DEF IdentReply, IdentInv
<1>12. CASE PollWlan
    BY <1>12 DEF PollWlan
<1>13. CASE WlanReply
    BY <1>13 DEF WlanReply, AfterLostWlan, Leaves
<1>14. CASE PollHours
    BY <1>14 DEF PollHours, Leaves
<1>15. ASSUME NEW k \in HoursKinds, HoursReply(k) PROVE TypeOK'
    BY <1>15 DEF HoursReply, Leaves
<1>16. CASE PollContext
    <2>1. fresh' \subseteq Leaves /\ pc' \in {"filters", "quickWait", "contextWait"}
        BY <1>16 DEF PollContext, Leaves
    <2>2. reply' \in [Fields -> MaybeVersion] /\ doorState' \in MaybeVersion
        BY <1>16 DEF PollContext, DropDoor, NoReply, MaybeVersion
    <2> QED
        BY <1>16, <2>1, <2>2 DEF PollContext
<1>17. ASSUME NEW k \in ContextReplies, ContextStored(k) PROVE TypeOK'
    <2>1. reply["Door"] \in MaybeVersion
        BY FieldsAssumption
    <2> QED
        BY <1>17, <2>1, BoundsAssumption
        DEF ContextStored, StoreContext, DoorIn, ContextDone, NoReply, MaybeVersion
<1>18. ASSUME NEW k \in ContextReplies, QuickStored(k) PROVE TypeOK'
    <2>1. reply["Door"] \in MaybeVersion
        BY FieldsAssumption
    <2> QED
        BY <1>18, <2>1
        DEF QuickStored, StoreContext, DoorIn, ContextDone, NoReply, MaybeVersion
<1>19. CASE ContextRefused
    BY <1>19 DEF ContextRefused, LatchContext, ContextDone, NoReply,
                 MaybeVersion, Leaves
<1>20. CASE ContextAsleep
    BY <1>20 DEF ContextAsleep, NoReply, MaybeVersion
<1>21. CASE Woken
    BY <1>21 DEF Woken
<1>22. CASE ContextMissed
    <2>1. missCycles + 1 \in 0..MaxMissCycles
        BY <1>22, BoundsAssumption
        DEF ContextMissed, ContextInv, Reading
    <2>2. unsupported' \subseteq Leaves /\ context' \in MaybeVersion
        BY <1>22 DEF ContextMissed, Miss, LatchContext, Leaves, MaybeVersion
    <2>3. missCycles' = missCycles + 1
        BY <1>22 DEF ContextMissed, Miss
    <2> QED
        BY <1>22, <2>1, <2>2, <2>3
        DEF ContextMissed, ContextDone, NoReply, MaybeVersion
<1>23. CASE QuickIgnored
    BY <1>23 DEF QuickIgnored, ContextDone, NoReply, MaybeVersion
<1>24. CASE PollFilters
    BY <1>24 DEF PollFilters, Leaves
<1>25. CASE FilterReply
    <2>1. grades' \subseteq Grades /\ unsupported' \subseteq Leaves
        BY <1>25, RepliesAssumption DEF FilterReply, Leaves
    <2> QED
        BY <1>25, <2>1 DEF FilterReply
<1>26. CASE FinishPoll
    BY <1>26, BoundsAssumption DEF FinishPoll, Phases, Notify, View
<1>27. ASSUME NEW r \in IdentReplies, SetupRetry(r) PROVE TypeOK'
    <2>1. ident' \subseteq IdentFields /\ identLoaded' \in BOOLEAN
        BY <1>27, RepliesAssumption DEF SetupRetry, Heal
    <2> QED
        BY <1>27, <2>1, BoundsAssumption DEF SetupRetry
<1>28. CASE Forward
    BY <1>28 DEF Forward, GatedEntities, Phases, Notify, View
<1>29. CASE UNCHANGED vars
    BY <1>29 DEF vars
<1>30. QED
    BY <1>1, <1>2, <1>3, <1>4, <1>5, <1>6, <1>7, <1>8, <1>9, <1>10, <1>11,
       <1>12, <1>13, <1>14, <1>15, <1>16, <1>17, <1>18, <1>19, <1>20, <1>21,
       <1>22, <1>23, <1>24, <1>25, <1>26, <1>27, <1>28, <1>29
    DEF Next, Environment, Push, PollStep, ReadContext, Setup, Discarded

\* Phases and polls exclude each other as PhaseInv says; /State arrives whole.
LEMMA PhaseStep == IInv /\ [Next]_vars => PhaseInv' /\ StateInv'
<1> SUFFICES ASSUME IInv, [Next]_vars PROVE PhaseInv' /\ StateInv'
    OBVIOUS
<1> USE DEF IInv, PhaseInv, StateInv, Registered, coordVars, envVars, identVars,
            contextVars, otherVars, leafVars, healthVars, haVars
<1>1. CASE Environment
    <2>1. ASSUME NEW f \in Fields PROVE world[f] # None
        BY NoneAssumption DEF TypeOK, Versions, Sources
    <2>2. CASE Answer
        BY <2>1, <2>2 DEF Answer, StateOf, Complete
    <2> QED
        BY <1>1, <2>2 DEF Environment, ApplianceChanges, LosePush, Elapse, Complete
<1>2. CASE Push
    <2>1. ASSUME NEW p \in pushes PROVE p.value # None
        BY NoneAssumption DEF TypeOK, Pushes, Versions
    <2>2. ASSUME NEW p \in pushes, PushState(p) PROVE PhaseInv' /\ StateInv'
        BY <2>1, <2>2 DEF PushState, Pushed, Complete, TypeOK
    <2>3. ASSUME NEW p \in pushes, PushIdent(p) PROVE PhaseInv' /\ StateInv'
        BY <2>3 DEF PushIdent, Pushed, Complete
    <2> QED
        BY <1>2, <2>2, <2>3 DEF Push
<1>3. CASE StartPoll
    BY <1>3, FieldsAssumption DEF StartPoll, Complete, TypeOK
<1>4. CASE PollFails
    BY <1>4, FieldsAssumption DEF PollFails, Tolerated, Complete, NoReply, TypeOK
<1>5. CASE PollState
    BY <1>5 DEF PollState, Complete
<1>6. CASE FinishPoll
    BY <1>6 DEF FinishPoll, Complete
<1>7. CASE Setup
    BY <1>7 DEF Setup, SetupRetry, Forward, Discarded, vars, Complete
<1>8. CASE UNCHANGED vars
    BY <1>8 DEF vars, Complete
<1>9. ASSUME \/ PollIdent \/ \E r \in IdentReplies : IdentReply(r)
             \/ PollWlan \/ WlanReply
             \/ PollHours \/ \E k \in HoursKinds : HoursReply(k)
             \/ PollContext \/ ReadContext \/ PollFilters \/ FilterReply
      PROVE  PhaseInv' /\ StateInv'
    <2>1. /\ pc \notin {"idle", "state"} /\ pc' \notin {"idle", "state"}
          /\ UNCHANGED <<phase, available, everSucceeded, state>>
          /\ reply' \in {reply, NoReply}
        BY <1>9
        DEF PollIdent, IdentReply, PollWlan, WlanReply, AfterLostWlan, PollHours,
            HoursReply, PollContext, ReadContext, ContextStored, QuickStored,
            ContextRefused, ContextAsleep, Woken, ContextMissed, QuickIgnored,
            ContextDone, PollFilters, FilterReply
    <2> QED
        BY <2>1 DEF Complete
<1> QED
    BY <1>1, <1>2, <1>3, <1>4, <1>5, <1>6, <1>7, <1>8, <1>9
    DEF Next, PollStep

\* Only a poll spends the budget of polls, and only a populated answer is kept.
LEMMA IdentStep == IInv /\ [Next]_vars => IdentInv'
<1> SUFFICES ASSUME IInv, [Next]_vars PROVE IdentInv'
    OBVIOUS
<1> USE DEF IInv, IdentInv, IdentBudgetIsPolls
<1>1. CASE PollIdent
    BY <1>1 DEF PollIdent, coordVars, identVars
<1>2. ASSUME NEW r \in IdentReplies, IdentReply(r) PROVE IdentInv'
    <2>1. identAttempts' \in Nat /\ identAttempts' <= MaxIdentAttempts
        BY <1>2, BoundsAssumption DEF IdentReply, TypeOK
    <2>2. pc' = "wlan" /\ ident' = r
        BY <1>2 DEF IdentReply
    <2>3. identLoaded' <=> r # {} \/ identAttempts' >= MaxIdentAttempts
        BY <1>2, ZenonT(20) DEF IdentReply
    <2>4. r = {} => (identLoaded' <=> identAttempts' = MaxIdentAttempts)
        BY <2>1, <2>3, BoundsAssumption
    <2>5. ~identLoaded' => identAttempts' < MaxIdentAttempts
        BY <2>1, <2>3, BoundsAssumption
    <2> QED
        BY <2>2, <2>3, <2>4, <2>5
<1>3. ASSUME NEW r \in IdentReplies, SetupRetry(r) PROVE IdentInv'
    BY <1>3 DEF SetupRetry, Heal, PhaseInv
<1>4. ASSUME \/ Environment \/ Push \/ StartPoll \/ PollFails \/ PollState
             \/ PollWlan \/ WlanReply \/ PollHours
             \/ \E k \in HoursKinds : HoursReply(k)
             \/ PollContext \/ ReadContext \/ PollFilters \/ FilterReply
             \/ FinishPoll \/ Forward \/ Discarded \/ UNCHANGED vars
      PROVE  IdentInv'
    <2>1. UNCHANGED <<ident, identLoaded, identAttempts>>
        BY <1>4
        DEF Environment, ApplianceChanges, LosePush, Elapse, Answer, Push,
            PushState, PushIdent, Pushed, StartPoll, PollFails, PollState,
            PollWlan, WlanReply, PollHours, HoursReply, PollContext, ReadContext,
            ContextStored, QuickStored, ContextRefused, ContextAsleep, Woken,
            ContextMissed, QuickIgnored, ContextDone, PollFilters, FilterReply,
            FinishPoll, Forward, Discarded, vars, coordVars, identVars
    <2>2. pc' # "identWait" \/ pc' = pc
        BY <1>4
        DEF Environment, ApplianceChanges, LosePush, Elapse, Answer, Push,
            PushState, PushIdent, Pushed, StartPoll, PollFails, PollState,
            PollWlan, WlanReply, AfterLostWlan, PollHours, HoursReply,
            PollContext, ReadContext, ContextStored, QuickStored, ContextRefused,
            ContextAsleep, Woken, ContextMissed, QuickIgnored, ContextDone,
            PollFilters, FilterReply, FinishPoll, Forward, Discarded, vars
    <2> QED
        BY <2>1, <2>2
<1> QED
    BY <1>1, <1>2, <1>3, <1>4 DEF Next, PollStep, Setup

\* A latch clears, a reading starts unlatched and doorless, a miss counts once.
LEMMA ContextStep == IInv /\ [Next]_vars => ContextInv'
<1> SUFFICES ASSUME IInv, [Next]_vars PROVE ContextInv'
    OBVIOUS
<1> USE DEF IInv, ContextInv, LatchClearsContext,
            DoorIsFromThisPoll, Reading, ContextDone
<1>1. CASE PollContext
    <2>1. doorState' = None
        BY <1>1 DEF PollContext, DropDoor
    <2>2. pc' \in Reading => "context" \notin unsupported
        BY <1>1 DEF PollContext
    <2>3. UNCHANGED <<context, missCycles, unsupported>>
        BY <1>1 DEF PollContext
    <2> QED
        BY <2>1, <2>2, <2>3
<1>2. ASSUME NEW k \in ContextReplies, ContextStored(k) PROVE ContextInv'
    BY <1>2, BoundsAssumption DEF ContextStored, StoreContext
<1>3. ASSUME NEW k \in ContextReplies, QuickStored(k) PROVE ContextInv'
    BY <1>3 DEF QuickStored, StoreContext
<1>4. CASE ContextRefused
    BY <1>4 DEF ContextRefused, LatchContext
<1>5. CASE ContextAsleep
    BY <1>5 DEF ContextAsleep, coordVars, contextVars, leafVars
<1>6. CASE Woken
    BY <1>6 DEF Woken, coordVars, contextVars, leafVars
<1>7. CASE ContextMissed
    <2>1. /\ pc \in Reading /\ pc' = "filters" /\ UNCHANGED doorState
          /\ Miss
        BY <1>7 DEF ContextMissed
    <2>2. CASE MissLatches(missCycles')
        BY <2>1, <2>2 DEF Miss, LatchContext
    <2>3. CASE ~MissLatches(missCycles')
        BY <2>1, <2>3, BoundsAssumption DEF Miss, MissLatches, TypeOK
    <2> QED
        BY <2>2, <2>3
<1>8. CASE QuickIgnored
    BY <1>8 DEF QuickIgnored, contextVars
<1>9. CASE PollIdent \/ \E r \in IdentReplies : IdentReply(r)
    BY <1>9 DEF PollIdent, IdentReply, coordVars, contextVars, leafVars
<1>10. CASE WlanReply \/ PollHours \/ PollFilters
    BY <1>10 DEF WlanReply, AfterLostWlan, PollHours, PollFilters, contextVars
<1>11. CASE \E k \in HoursKinds : HoursReply(k)
    BY <1>11 DEF HoursReply, contextVars
<1>12. CASE FilterReply
    BY <1>12 DEF FilterReply, contextVars
<1>13. ASSUME \/ Environment \/ Push \/ PollState \/ PollWlan \/ Setup
              \/ UNCHANGED vars
       PROVE  ContextInv'
    <2>1. /\ UNCHANGED <<context, doorState, missCycles, heard, unsupported, failures>>
          /\ pc' = pc \/ pc' \in {"ident", "hours", "wlanWait"}
        BY <1>13
        DEF Environment, ApplianceChanges, LosePush, Elapse, Answer, Push,
            PushState, PushIdent, Pushed, PollState, PollWlan, Setup, SetupRetry,
            Forward, Discarded, vars, coordVars, contextVars, leafVars, healthVars
    <2> QED
        BY <2>1
<1>14. CASE StartPoll
    BY <1>14 DEF StartPoll, leafVars
<1>15. CASE PollFails
    <2>1. failures' # 0
        BY <1>15, BoundsAssumption DEF PollFails, TypeOK
    <2> QED
        BY <1>15, <2>1 DEF PollFails, contextVars, leafVars
<1>16. CASE FinishPoll
    BY <1>16 DEF FinishPoll, contextVars, leafVars
<1> QED
    BY <1>1, <1>2, <1>3, <1>4, <1>5, <1>6, <1>7, <1>8, <1>9, <1>10, <1>11,
       <1>12, <1>13, <1>14, <1>15, <1>16
    DEF Next, PollStep, ReadContext

\* Only a failed poll makes an appliance unavailable.
LEMMA AvailableStep == IInv /\ [Next]_vars => AvailableInv'
<1> SUFFICES ASSUME IInv, [Next]_vars PROVE AvailableInv'
    OBVIOUS
<1> USE DEF IInv, AvailableInv, UnavailableOnlyPastTolerance
<1>1. CASE Push
    BY <1>1 DEF Push, PushState, PushIdent, Pushed
<1>2. CASE PollFails
    <2>1. failures' \in Nat
        BY <1>2, BoundsAssumption DEF PollFails, TypeOK
    <2>2. phase' = "running" => everSucceeded
        BY <1>2 DEF PollFails, PhaseInv, Registered
    <2>3. available' <=> failures' <= FailureTolerance /\ everSucceeded
        BY <1>2, Zenon DEF PollFails, Tolerated
    <2> QED
        BY <2>1, <2>2, <2>3, BoundsAssumption
<1>3. CASE FinishPoll
    BY <1>3 DEF FinishPoll
<1>4. CASE Forward
    BY <1>4 DEF Forward, PhaseInv, healthVars
<1>5. ASSUME \/ Environment \/ StartPoll \/ PollState \/ PollIdent
             \/ \E r \in IdentReplies : IdentReply(r) \/ SetupRetry(r)
             \/ PollWlan \/ WlanReply \/ PollHours
             \/ \E k \in HoursKinds : HoursReply(k)
             \/ PollContext \/ ReadContext \/ PollFilters \/ FilterReply
             \/ Discarded \/ UNCHANGED vars
      PROVE  AvailableInv'
    <2>1. UNCHANGED <<phase, available, failures>>
        BY <1>5
        DEF Environment, ApplianceChanges, LosePush, Elapse, Answer, StartPoll,
            PollState, PollIdent, IdentReply, SetupRetry, PollWlan, WlanReply,
            PollHours, HoursReply, PollContext, ReadContext, ContextStored,
            QuickStored, ContextRefused, ContextAsleep, Woken, ContextMissed,
            QuickIgnored, ContextDone, PollFilters, FilterReply, Discarded,
            vars, coordVars, healthVars
    <2> QED
        BY <2>1
<1> QED
    BY <1>1, <1>2, <1>3, <1>4, <1>5 DEF Next, PollStep, Setup

\* _data changes either in the middle of a poll or with a notification.
LEMMA ShownStep == IInv /\ [Next]_vars => ShownInv'
<1> SUFFICES ASSUME IInv, [Next]_vars PROVE ShownInv'
    OBVIOUS
<1> USE DEF IInv, ShownInv
<1>1. CASE Push \/ FinishPoll \/ Forward
    BY <1>1 DEF Push, PushState, PushIdent, Pushed, FinishPoll, Forward, Notify
<1>2. CASE PollFails
    BY <1>2 DEF PollFails, Notify, View, contextVars
<1>3. ASSUME \/ Environment \/ StartPoll
             \/ \E r \in IdentReplies : SetupRetry(r)
             \/ Discarded \/ UNCHANGED vars
      PROVE  ShownInv'
    <2>1. UNCHANGED <<phase, state, context, doorState, shown>>
        BY <1>3
        DEF Environment, ApplianceChanges, LosePush, Elapse, Answer, StartPoll,
            SetupRetry, Discarded, vars, coordVars, contextVars, haVars
    <2>2. pc' \in {"idle", "state"} => pc \in {"idle", "state"}
        BY <1>3
        DEF Environment, ApplianceChanges, LosePush, Elapse, Answer, StartPoll,
            SetupRetry, Discarded, vars
    <2> QED
        BY <2>1, <2>2 DEF View
<1>4. ASSUME \/ PollState \/ PollIdent \/ \E r \in IdentReplies : IdentReply(r)
             \/ PollWlan \/ WlanReply \/ PollHours
             \/ \E k \in HoursKinds : HoursReply(k)
             \/ PollContext \/ ReadContext \/ PollFilters \/ FilterReply
      PROVE  ShownInv'
    <2>1. pc' \notin {"idle", "state"}
        BY <1>4
        DEF PollState, PollIdent, IdentReply, PollWlan, WlanReply, AfterLostWlan,
            PollHours, HoursReply, PollContext, ReadContext, ContextStored,
            QuickStored, ContextRefused, ContextAsleep, Woken, ContextMissed,
            QuickIgnored, ContextDone, PollFilters, FilterReply
    <2> QED
        BY <2>1
<1> QED
    BY <1>1, <1>2, <1>3, <1>4 DEF Next, PollStep, Setup

\* A version in flight, stored or pushed is one the appliance has had.
LEMMA NoInventionStep == IInv /\ [Next]_vars => NoInventionInv'
<1> SUFFICES ASSUME IInv, [Next]_vars PROVE NoInventionInv'
    OBVIOUS
<1> USE DEF IInv, NoInventionInv, NoInvention
<1>1. ASSUME NEW f \in Sources, ApplianceChanges(f) PROVE NoInventionInv'
    <2>1. \A g \in Sources : world[g] \in Nat /\ world'[g] \in Nat
                             /\ world[g] <= world'[g]
        BY <1>1, BoundsAssumption DEF ApplianceChanges, TypeOK, Versions
    <2>2. \A p \in pushes' : p.value <= world'[p.field]
        <3>1. \A p \in pushes : p.field \in Sources /\ p.value \in Nat
            BY DEF TypeOK, Pushes, Versions
        <3>2. world'[f] = world[f] + 1
            BY <1>1 DEF ApplianceChanges, TypeOK
        <3> QED
            BY <1>1, <2>1, <3>1, <3>2 DEF ApplianceChanges
    <2>3. \A g \in Fields : /\ reply[g] \in Nat \cup {None}
                            /\ state[g] \in Nat \cup {None}
        BY DEF TypeOK, MaybeVersion, Versions
    <2>4. context \in Nat \cup {None} /\ "Door" \in Sources /\ Fields \subseteq Sources
        BY FieldsAssumption DEF TypeOK, MaybeVersion, Versions, Sources
    <2>5. UNCHANGED <<reply, state, context>>
        BY <1>1 DEF ApplianceChanges, coordVars, contextVars
    <2> QED
        BY <2>1, <2>2, <2>3, <2>4, <2>5
<1>2. ASSUME NEW p \in pushes, LosePush(p) PROVE NoInventionInv'
    BY <1>2 DEF LosePush, coordVars, contextVars
<1>3. CASE Answer
    <2>1. \A f \in Fields : reply'[f] <= world[f]
        BY <1>3 DEF Answer, StateOf, TypeOK, Versions, Sources
    <2> QED
        BY <1>3, <2>1 DEF Answer, envVars, coordVars, contextVars
<1>4. ASSUME NEW p \in pushes, PushState(p) PROVE NoInventionInv'
    BY <1>4 DEF PushState, Pushed, contextVars, TypeOK
<1>5. ASSUME NEW p \in pushes, PushIdent(p) PROVE NoInventionInv'
    BY <1>5 DEF PushIdent, Pushed, contextVars
<1>6. CASE PollFails
    BY <1>6 DEF PollFails, envVars, contextVars, NoReply
<1>7. CASE PollState
    BY <1>7 DEF PollState, envVars, contextVars, NoReply
<1>8. CASE PollContext
    BY <1>8 DEF PollContext, envVars, NoReply
<1>9. CASE ReadContext
    <2>1. context' \in {context, reply["Door"], None}
        BY <1>9
        DEF ReadContext, ContextStored, QuickStored, StoreContext, DoorIn,
            ContextRefused, LatchContext, ContextAsleep, Woken, ContextMissed,
            Miss, QuickIgnored, coordVars, contextVars
    <2>2. UNCHANGED <<envVars, state>> /\ reply' \in {reply, NoReply}
        BY <1>9
        DEF ReadContext, ContextStored, QuickStored, ContextRefused,
            ContextAsleep, Woken, ContextMissed, QuickIgnored, ContextDone,
            coordVars
    <2> QED
        BY <2>1, <2>2, FieldsAssumption DEF envVars, NoReply
<1>10. ASSUME \/ \E leaf \in Leaves : Elapse(leaf)
              \/ StartPoll \/ PollIdent
              \/ \E r \in IdentReplies : IdentReply(r) \/ SetupRetry(r)
              \/ PollWlan \/ WlanReply \/ PollHours
              \/ \E k \in HoursKinds : HoursReply(k)
              \/ PollFilters \/ FilterReply \/ FinishPoll \/ Forward \/ Discarded
              \/ UNCHANGED vars
       PROVE  NoInventionInv'
    <2>1. UNCHANGED <<world, pushes, reply, state, context>>
        BY <1>10
        DEF Elapse, StartPoll, PollIdent, IdentReply, SetupRetry, PollWlan,
            WlanReply, PollHours, HoursReply, PollFilters, FilterReply,
            FinishPoll, Forward, Discarded, vars, coordVars, envVars, contextVars
    <2> QED
        BY <2>1
<1> QED
    BY <1>1, <1>2, <1>3, <1>4, <1>5, <1>6, <1>7, <1>8, <1>9, <1>10
    DEF Next, Environment, Push, PollStep, Setup

\* The forward waits for an identity or for the last retry.
LEMMA HoodStep == IInv /\ [Next]_vars => HoodInv'
<1> SUFFICES ASSUME IInv, [Next]_vars PROVE HoodInv'
    OBVIOUS
<1> USE DEF IInv, HoodInv, HoodControlsUnlessExhausted
<1>1. CASE Forward
    <2>1. UNCHANGED <<family, ident, setupAttempts>>
        BY <1>1 DEF Forward, envVars, identVars
    <2> QED
        BY <1>1, <2>1
        DEF Forward, IdentReady, GatedEntities, HoodDop1Supported, DeviceType
<1>2. ASSUME NEW r \in IdentReplies, IdentReply(r) PROVE HoodInv'
    BY <1>2 DEF IdentReply, IdentInv, haVars
<1>3. ASSUME NEW r \in IdentReplies, SetupRetry(r) PROVE HoodInv'
    BY <1>3 DEF SetupRetry
<1>4. ASSUME \/ Environment \/ Push \/ StartPoll \/ PollFails \/ PollState
             \/ PollIdent \/ PollWlan \/ WlanReply \/ PollHours
             \/ \E k \in HoursKinds : HoursReply(k)
             \/ PollContext \/ ReadContext \/ PollFilters \/ FilterReply
             \/ FinishPoll \/ Discarded \/ UNCHANGED vars
      PROVE  HoodInv'
    <2>1. UNCHANGED <<family, ident, setupAttempts, entities>>
        BY <1>4
        DEF Environment, ApplianceChanges, LosePush, Elapse, Answer, Push,
            PushState, PushIdent, Pushed, StartPoll, PollFails, PollState,
            PollIdent, PollWlan, WlanReply, PollHours, HoursReply, PollContext,
            ReadContext, ContextStored, QuickStored, ContextRefused,
            ContextAsleep, Woken, ContextMissed, QuickIgnored, ContextDone,
            PollFilters, FilterReply, FinishPoll, Discarded, vars, coordVars,
            envVars, identVars, haVars
    <2>2. phase' = "running" => phase = "running"
        BY <1>4
        DEF Environment, ApplianceChanges, LosePush, Elapse, Answer, Push,
            PushState, PushIdent, Pushed, StartPoll, PollFails, PollState,
            PollIdent, PollWlan, WlanReply, PollHours, HoursReply, PollContext,
            ReadContext, ContextStored, QuickStored, ContextRefused,
            ContextAsleep, Woken, ContextMissed, QuickIgnored, ContextDone,
            PollFilters, FilterReply, FinishPoll, Discarded, vars
    <2> QED
        BY <2>1, <2>2 DEF HoodDop1Supported, DeviceType
<1> QED
    BY <1>1, <1>2, <1>3, <1>4 DEF Next, PollStep, Setup

-----------------------------------------------------------------------------
(* The coordinator implements Mirror.                                      *)

\* What Mirror sees of a state, apart from the appliance.
Refreshing == pc \notin {"idle", "state"}
Kept == UNCHANGED <<state, context, doorState>>
Frozen == UNCHANGED <<phase, entities>>
LatchKept == "context" \in unsupported' <=> "context" \in unsupported

\* A step that changes nothing Mirror sees.
LEMMA Stutters ==
    ASSUME StateOf(world)' = StateOf(world), Kept, LatchKept, Refreshing' <=> Refreshing,
           UNCHANGED <<entities, shown>>, phase' = "running" <=> phase = "running"
    PROVE  UNCHANGED Mirrored!vars
<1>1. View' = View
    BY DEF Kept, View
<1>2. /\ (pc \notin {"idle", "state"})' = (pc \notin {"idle", "state"})
      /\ ("context" \in unsupported)' = ("context" \in unsupported)
      /\ (phase = "running")' = (phase = "running")
    BY DEF Refreshing, LatchKept
<1> QED
    BY <1>1, <1>2 DEF Mirrored!vars

\* The steps of the environment.
LEMMA EnvironmentMirrors == IInv /\ Environment => [Mirrored!Next]_(Mirrored!vars)
<1> SUFFICES ASSUME IInv, Environment PROVE [Mirrored!Next]_(Mirrored!vars)
    OBVIOUS
<1> USE DEF IInv, coordVars, envVars, contextVars, leafVars, haVars
<1>1. ASSUME NEW f \in Sources, ApplianceChanges(f)
      PROVE  [Mirrored!Next]_(Mirrored!vars)
    <2>1. /\ Kept /\ Frozen /\ UNCHANGED <<pc, shown, unsupported>>
          /\ world' = [world EXCEPT ![f] = @ + 1] /\ world \in [Sources -> Versions]
        BY <1>1 DEF ApplianceChanges, Kept, Frozen, TypeOK
    <2>2. CASE f \in Fields
        <3>1. StateOf(world)' = [StateOf(world) EXCEPT ![f] = @ + 1]
            BY <2>1, <2>2 DEF StateOf, Sources
        <3>2. Mirrored!Changes(f)
            BY <2>1, <3>1 DEF Mirrored!Changes, View, Kept, Frozen
        <3> QED
            BY <2>2, <3>2 DEF Mirrored!Next
    <2>3. CASE f \notin Fields
        <3>1. StateOf(world)' = StateOf(world)
            BY <2>1, <2>3 DEF StateOf, Sources
        <3> QED
            BY <2>1, <3>1, Stutters DEF Refreshing, LatchKept, Frozen
    <2> QED
        BY <2>2, <2>3
<1>2. ASSUME \/ \E p \in pushes : LosePush(p)
             \/ \E leaf \in Leaves : Elapse(leaf)
             \/ Answer
      PROVE  [Mirrored!Next]_(Mirrored!vars)
    <2>1. Kept /\ Frozen /\ UNCHANGED <<world, shown, unsupported, pc>>
        BY <1>2 DEF LosePush, Elapse, Answer, Kept, Frozen
    <2> QED
        BY <2>1, Stutters DEF Refreshing, LatchKept, Frozen, StateOf
<1> QED
    BY <1>1, <1>2 DEF Environment

\* A push of a field tells the mirror of it; any push shows.
LEMMA PushMirrors == IInv /\ Push => [Mirrored!Next]_(Mirrored!vars)
<1> SUFFICES ASSUME IInv, NEW p \in pushes, PushState(p) \/ PushIdent(p)
             PROVE  Mirrored!Told
    BY DEF Push, Mirrored!Next
<1> USE DEF IInv
<1>1. Complete(state)
    BY DEF PushState, PushIdent, PhaseInv, StateInv, Registered
<1>2. /\ UNCHANGED <<world, context, doorState, unsupported, pc, phase, entities>>
      /\ shown' = IF phase' = "running" THEN View' ELSE shown
    BY DEF PushState, PushIdent, Pushed, Notify, contextVars, leafVars
<1>3. \/ \E f \in Fields : \E v \in 0..StateOf(world)[f] :
            View' = [View EXCEPT !.state = [@ EXCEPT ![f] = v]]
      \/ View' = View
    <2>1. CASE PushState(p)
        <3>1. p.field \in Fields /\ state' = [state EXCEPT ![p.field] = p.value]
            BY <2>1 DEF PushState
        <3>2. p.value \in 0..StateOf(world)[p.field]
            <4>1. p.value <= world[p.field] /\ p.value \in Nat /\ world[p.field] \in Nat
                BY <3>1, BoundsAssumption
                DEF NoInventionInv, TypeOK, Pushes, Versions, Sources
            <4> QED
                BY <3>1, <4>1 DEF StateOf
        <3>3. View' = [View EXCEPT !.state = [@ EXCEPT ![p.field] = p.value]]
            BY <1>2, <3>1 DEF View
        <3> QED
            BY <3>1, <3>2, <3>3
    <2>2. CASE PushIdent(p)
        BY <1>2, <2>2 DEF PushIdent, View
    <2> QED
        BY <2>1, <2>2
<1>4. StateOf(world)' = StateOf(world)
    BY <1>2 DEF StateOf
<1>5. Mirrored!Complete
    BY <1>1 DEF Mirrored!Complete, Complete, View
<1> QED
    BY <1>2, <1>3, <1>4, <1>5 DEF Mirrored!Told, Mirrored!Reflect

\* A poll that stores /State refreshes every field.
LEMMA PollStateMirrors == IInv /\ PollState => Mirrored!Refresh
<1> SUFFICES ASSUME IInv, PollState PROVE Mirrored!Refresh
    OBVIOUS
<1> USE DEF IInv
<1>1. /\ state' = reply /\ pc' = "ident" /\ reply # NoReply
      /\ UNCHANGED <<world, context, doorState, unsupported, phase, entities, shown>>
    BY DEF PollState, envVars, contextVars, leafVars, haVars
<1>2. \A f \in Fields : reply[f] \in 0..StateOf(world)[f]
    <2> TAKE f \in Fields
    <2>1. reply[f] # None /\ reply[f] <= world[f]
        BY <1>1 DEF StateInv, Complete, NoInventionInv
    <2>2. reply[f] \in Nat /\ world[f] \in Nat
        BY <2>1, BoundsAssumption DEF TypeOK, MaybeVersion, Versions, Sources
    <2> QED
        BY <2>1, <2>2 DEF StateOf
<1>3. /\ View'.state = reply /\ View'.context = context /\ View'.door = doorState
      /\ View.context = context
    BY <1>1 DEF View
<1>4. doorState \in {None, context} /\ ("context" \in unsupported => context = None)
    BY DEF ContextInv, DoorIsFromThisPoll, LatchClearsContext
<1>5. StateOf(world)' = StateOf(world)
    BY <1>1 DEF StateOf
<1>6. /\ ("context" \in unsupported)' = ("context" \in unsupported)
      /\ (phase = "running")' = (phase = "running")
      /\ (pc \notin {"idle", "state"})' = TRUE
    BY <1>1
<1> QED
    BY <1>1, <1>2, <1>3, <1>4, <1>5, <1>6 DEF Mirrored!Refresh

\* An answer to a read of the levels refreshes them, with the door or without.
LEMMA AnswerMirrors ==
    ASSUME IInv, NEW k \in ContextReplies, ContextStored(k) \/ QuickStored(k)
    PROVE  Mirrored!Refresh
<1> USE DEF IInv
<1>1. /\ pc \in Reading /\ pc' = "filters" /\ reply # NoReply
      /\ context' \in {context, None, reply["Door"]}
      /\ doorState' \in {doorState, context'}
      /\ UNCHANGED <<world, state, unsupported, phase, entities, shown>>
    <2>1. \/ k = "garbled" /\ context' = context /\ doorState' = doorState
          \/ k = "bare" /\ context' = reply["Door"] /\ doorState' = doorState
          \/ k = "empty" /\ context' = None /\ doorState' = doorState
          \/ k = "ok" /\ context' = reply["Door"] /\ doorState' = reply["Door"]
        BY DEF ContextStored, QuickStored, StoreContext, DoorIn
    <2> QED
        BY <2>1 DEF ContextStored, QuickStored, ContextDone, Reading, envVars, haVars
<1>2. doorState = None /\ "context" \notin unsupported
    BY <1>1 DEF ContextInv, DoorIsFromThisPoll, Reading
<1>3. reply["Door"] \in 0..StateOf(world)["Door"]
    <2>1. "Door" \in Fields /\ reply["Door"] # None /\ reply["Door"] <= world["Door"]
        BY <1>1, FieldsAssumption DEF StateInv, Complete, NoInventionInv
    <2>2. reply["Door"] \in Nat /\ world["Door"] \in Nat
        BY <2>1, BoundsAssumption DEF TypeOK, MaybeVersion, Versions, Sources
    <2> QED
        BY <2>1, <2>2 DEF StateOf
<1>4. /\ View'.state = state /\ View'.context = context' /\ View'.door = doorState'
      /\ View.context = context /\ View.state = state
    BY <1>1 DEF View
<1>5. StateOf(world)' = StateOf(world)
    BY <1>1 DEF StateOf
<1>6. /\ ("context" \in unsupported)' = ("context" \in unsupported)
      /\ (phase = "running")' = (phase = "running")
      /\ (pc \notin {"idle", "state"})' = TRUE
    BY <1>1
<1> QED
    BY <1>1, <1>2, <1>3, <1>4, <1>5, <1>6 DEF Mirrored!Refresh

\* A refusal, and the miss that reaches the bound, give the levels up.
LEMMA LatchMirrors ==
    ASSUME IInv, pc \in Reading, LatchContext, ContextDone, UNCHANGED doorState
    PROVE  Mirrored!GiveUp
<1> USE DEF IInv
<1>1. /\ context' = None /\ pc' = "filters" /\ "context" \in unsupported'
      /\ UNCHANGED <<world, state, phase, entities, shown>>
    BY DEF LatchContext, ContextDone, envVars, haVars
<1>2. doorState' = None /\ "context" \notin unsupported
    BY DEF ContextInv, DoorIsFromThisPoll, Reading
<1>3. View' = [state |-> View.state, context |-> None, door |-> None]
    BY <1>1, <1>2 DEF View
<1>4. StateOf(world)' = StateOf(world)
    BY <1>1 DEF StateOf
<1>5. /\ (phase = "running")' = (phase = "running")
      /\ ("context" \in unsupported)' = TRUE
      /\ (pc \notin {"idle", "state"})' = (pc \notin {"idle", "state"})
    BY <1>1 DEF Reading
<1> QED
    BY <1>1, <1>2, <1>3, <1>4, <1>5 DEF Mirrored!GiveUp, Reading

\* The steps that read the levels.
LEMMA ReadContextMirrors == IInv /\ ReadContext => [Mirrored!Next]_(Mirrored!vars)
<1> SUFFICES ASSUME IInv, ReadContext PROVE [Mirrored!Next]_(Mirrored!vars)
    OBVIOUS
<1>1. ASSUME NEW k \in ContextReplies, ContextStored(k) \/ QuickStored(k)
      PROVE  Mirrored!Next
    BY <1>1, AnswerMirrors DEF Mirrored!Next
<1>2. CASE ContextRefused
    <2>1. pc \in Reading /\ LatchContext /\ ContextDone /\ UNCHANGED doorState
        BY <1>2 DEF ContextRefused, Reading
    <2> QED
        BY <2>1, LatchMirrors DEF Mirrored!Next
<1>3. CASE ContextMissed
    <2>1. pc \in Reading /\ Miss /\ ContextDone /\ UNCHANGED doorState
        BY <1>3 DEF ContextMissed, Reading
    <2>2. CASE LatchContext
        BY <2>1, <2>2, LatchMirrors DEF Mirrored!Next
    <2>3. CASE UNCHANGED <<unsupported, context>>
        <3>1. Kept /\ Frozen /\ UNCHANGED <<world, shown>> /\ pc' = "filters"
            BY <2>1, <2>3 DEF ContextDone, Kept, Frozen, envVars, haVars
        <3> QED
            BY <2>1, <2>3, <3>1, Stutters
            DEF Reading, Refreshing, LatchKept, Frozen, StateOf
    <2> QED
        BY <2>1, <2>2, <2>3 DEF Miss
<1>4. CASE ContextAsleep \/ Woken \/ QuickIgnored
    <2>1. /\ Kept /\ Frozen /\ UNCHANGED <<world, shown, unsupported>>
          /\ pc \in Reading /\ pc' \in {"wakeWait", "retryWait", "filters"}
        BY <1>4
        DEF ContextAsleep, Woken, QuickIgnored, ContextDone, Kept, Frozen, Reading,
            coordVars, envVars, contextVars, leafVars, haVars
    <2> QED
        BY <2>1, Stutters DEF Reading, Refreshing, LatchKept, Frozen, StateOf
<1> QED
    BY <1>1, <1>2, <1>3, <1>4 DEF ReadContext

\* The beginning of the context section drops the door.
LEMMA PollContextMirrors == IInv /\ PollContext => Mirrored!Refresh
<1> SUFFICES ASSUME IInv, PollContext PROVE Mirrored!Refresh
    OBVIOUS
<1> USE DEF IInv
<1>1. /\ doorState' = None /\ pc' \in {"filters", "quickWait", "contextWait"}
      /\ UNCHANGED <<world, state, context, unsupported, phase, entities, shown>>
    BY DEF PollContext, DropDoor, envVars, haVars
<1>2. "context" \in unsupported => context = None
    BY DEF ContextInv, LatchClearsContext
<1>3. /\ View'.state = state /\ View'.context = context /\ View'.door = None
      /\ View.context = context /\ View.state = state
    BY <1>1 DEF View
<1>4. StateOf(world)' = StateOf(world)
    BY <1>1 DEF StateOf
<1>5. /\ ("context" \in unsupported)' = ("context" \in unsupported)
      /\ (phase = "running")' = (phase = "running")
      /\ (pc \notin {"idle", "state"})' = TRUE
    BY <1>1
<1> QED
    BY <1>1, <1>2, <1>3, <1>4, <1>5 DEF Mirrored!Refresh

\* The end of a poll shows what it brought.
LEMMA FinishMirrors == IInv /\ FinishPoll => Mirrored!Refreshed
<1> SUFFICES ASSUME IInv, FinishPoll PROVE Mirrored!Refreshed
    OBVIOUS
<1> USE DEF IInv
<1>1. /\ pc = "finish" /\ pc' = "idle" /\ (phase' = "running" <=> phase = "running")
      /\ UNCHANGED <<world, state, context, doorState, unsupported, entities>>
      /\ shown' = IF phase' = "running" THEN View' ELSE shown
    BY DEF FinishPoll, Notify, envVars, contextVars, leafVars
<1>2. Complete(state)
    BY <1>1 DEF StateInv
<1>3. View' = View
    BY <1>1 DEF View
<1>4. StateOf(world)' = StateOf(world)
    BY <1>1 DEF StateOf
<1>5. /\ ("context" \in unsupported)' = ("context" \in unsupported)
      /\ (phase = "running")' = (phase = "running")
      /\ (pc \notin {"idle", "state"})' = FALSE
    BY <1>1
<1>6. Mirrored!Complete
    BY <1>2 DEF Mirrored!Complete, Complete, View
<1> QED
    BY <1>1, <1>3, <1>4, <1>5, <1>6 DEF Mirrored!Refreshed, Mirrored!Reflect

\* A poll that fails leaves everything as it was, and what it shows is shown already.
LEMMA FailMirrors == IInv /\ PollFails => UNCHANGED Mirrored!vars
<1> SUFFICES ASSUME IInv, PollFails PROVE UNCHANGED Mirrored!vars
    OBVIOUS
<1> USE DEF IInv
<1>1. /\ pc = "state" /\ pc' = "idle" /\ Kept /\ (phase' = "running" <=> phase = "running")
      /\ UNCHANGED <<world, unsupported, entities>>
      /\ shown' \in {shown, IF phase' = "running" THEN View' ELSE shown}
    BY DEF PollFails, Notify, Kept, envVars, contextVars, leafVars
<1>2. View' = View
    BY <1>1 DEF View, Kept
<1>3. phase = "running" => shown = View
    BY <1>1 DEF ShownInv
<1>4. shown' = shown
    BY <1>1, <1>2, <1>3
<1> QED
    BY <1>1, <1>4, Stutters DEF Refreshing, LatchKept, StateOf

\* The forward makes the entities there will be.
LEMMA ForwardMirrors == IInv /\ Forward => Mirrored!Forward
<1> SUFFICES ASSUME IInv, Forward PROVE Mirrored!Forward
    OBVIOUS
<1> USE DEF IInv
<1>1. /\ phase = "ensureIdent" /\ phase' = "running"
      /\ UNCHANGED <<world, state, context, doorState, unsupported, pc>>
      /\ entities' = GatedEntities /\ shown' = IF phase' = "running" THEN View' ELSE shown
    BY DEF Forward, Notify, envVars, contextVars, leafVars
<1>2. pc = "idle" /\ Complete(state)
    BY <1>1 DEF PhaseInv, StateInv, Registered
<1>3. View' = View
    BY <1>1 DEF View
<1>4. StateOf(world)' = StateOf(world)
    BY <1>1 DEF StateOf
<1>5. /\ ("context" \in unsupported)' = ("context" \in unsupported)
      /\ (phase = "running")' = TRUE
      /\ (pc \notin {"idle", "state"})' = (pc \notin {"idle", "state"})
    BY <1>1
<1>6. Mirrored!Complete
    BY <1>2 DEF Mirrored!Complete, Complete, View
<1>7. "contextSensors" \in entities' => View.context # None
    BY <1>1 DEF GatedEntities, View
<1> QED
    BY <1>1, <1>2, <1>3, <1>4, <1>5, <1>6, <1>7 DEF Mirrored!Forward, Mirrored!Reflect

\* Every step of the coordinator is one of its mirror, or stutters.
LEMMA StepMirrors == IInv /\ [Next]_vars => [Mirrored!Next]_(Mirrored!vars)
<1> SUFFICES ASSUME IInv, [Next]_vars PROVE [Mirrored!Next]_(Mirrored!vars)
    OBVIOUS
<1>1. ASSUME \/ StartPoll \/ PollIdent
             \/ \E r \in IdentReplies : IdentReply(r) \/ SetupRetry(r)
             \/ PollWlan \/ WlanReply \/ PollHours
             \/ \E k \in HoursKinds : HoursReply(k)
             \/ PollFilters \/ FilterReply \/ Discarded \/ UNCHANGED vars
      PROVE  [Mirrored!Next]_(Mirrored!vars)
    <2>1. /\ Kept /\ Frozen /\ UNCHANGED <<world, shown>>
          /\ LatchKept /\ (Refreshing' <=> Refreshing)
        BY <1>1
        DEF StartPoll, PollIdent, IdentReply, SetupRetry, PollWlan, WlanReply,
            AfterLostWlan, PollHours, HoursReply, PollFilters, FilterReply, Discarded,
            vars, coordVars, envVars, contextVars, leafVars, haVars, Kept, Frozen,
            LatchKept, Refreshing
    <2> QED
        BY <2>1, Stutters DEF Frozen, StateOf
<1> QED
    BY <1>1, EnvironmentMirrors, PushMirrors, PollStateMirrors, ReadContextMirrors,
       PollContextMirrors, FinishMirrors, FailMirrors, ForwardMirrors
    DEF Next, PollStep, Setup, Mirrored!Next

-----------------------------------------------------------------------------
(* The theorems.                                                           *)

\* The inductive invariant holds: whatever interleaving of polls, pushes, losses
\* and setup steps the event loop takes, the coordinator's attributes vouch for
\* each other as IInv says.
THEOREM Invariance == Spec => []IInv
<1>1. IInv /\ [Next]_vars => IInv'
    BY TypeStep, PhaseStep, IdentStep, ContextStep, AvailableStep, ShownStep,
       NoInventionStep, HoodStep DEF IInv
<1> QED
    BY InitInv, <1>1, PTL DEF Spec

\* Every attribute keeps its type; in particular the miss counter and the ident
\* budget never pass their bounds (coordinator.py:299-314, 467-474).
THEOREM TypeCorrect == Spec => []TypeOK
<1>1. IInv => TypeOK
    BY DEF IInv
<1> QED
    BY Invariance, <1>1, PTL

\* A latched 2/1585 leaves no cached level and no door behind
\* (_maybe_refresh_device_context, coordinator.py:467-474 and 515-523).
THEOREM LatchClears == Spec => []LatchClearsContext
<1>1. IInv => LatchClearsContext
    BY DEF IInv, ContextInv
<1> QED
    BY Invariance, <1>1, PTL

\* A poll that goes through leaves no door but one it has read itself, none is known
\* while 2/1585 is read, and a known one is that of the cached levels (coordinator.py:451,
\* 553-560).  A poll that fails leaves the door as it was: the run CoordinatorDoorLingers.
THEOREM DoorFresh == Spec => []DoorIsFromThisPoll
<1>1. IInv => DoorIsFromThisPoll
    BY DEF IInv, ContextInv
<1> QED
    BY Invariance, <1>1, PTL

\* Giving up on /Ident costs the whole budget of polls, whatever the setup
\* retries did (async_ensure_ident_ready, coordinator.py:239-287).
THEOREM IdentBudget == Spec => []IdentBudgetIsPolls
<1>1. IInv => IdentBudgetIsPolls
    BY DEF IInv, IdentInv
<1> QED
    BY Invariance, <1>1, PTL

\* A populated /Ident is never replaced or emptied (coordinator.py:299-314).
THEOREM IdentStays == Spec => IdentKept
<1>1. IInv /\ [Next]_vars => [ident \subseteq ident']_ident
    <2> SUFFICES ASSUME IInv, [Next]_vars, ident' # ident PROVE ident \subseteq ident'
        OBVIOUS
    <2>1. PICK r \in IdentReplies : IdentReply(r) \/ SetupRetry(r)
        BY DEF Next, Environment, ApplianceChanges, LosePush, Elapse, Answer, Push,
               PushState, PushIdent, Pushed, StartPoll, PollStep, PollFails,
               PollState, PollIdent, PollWlan, WlanReply, PollHours, HoursReply,
               PollContext, ReadContext, ContextStored, QuickStored,
               ContextRefused, ContextAsleep, Woken, ContextMissed,
               QuickIgnored, ContextDone, PollFilters, FilterReply, FinishPoll,
               Setup, Forward, Discarded, vars, coordVars, identVars
    <2> QED
        BY <2>1 DEF IInv, IdentInv, IdentReply, SetupRetry
<1> QED
    BY Invariance, <1>1, PTL DEF Spec, IdentKept

\* A forwarded appliance is unavailable only past the tolerated number of
\* consecutive failures (_async_update_data, coordinator.py:319-335).
THEOREM Availability == Spec => []UnavailableOnlyPastTolerance
<1>1. IInv => UnavailableOnlyPastTolerance
    BY DEF IInv, AvailableInv
<1> QED
    BY Invariance, <1>1, PTL

\* Between polls the entities show what _data holds, although it is one object
\* changed in the middle of a poll (apply_push, coordinator.py:675-678).
THEOREM ShownBetweenPolls == Spec => []ShownIsData
<1>1. IInv => ShownIsData
    BY DEF IInv, ShownInv, ShownIsData
<1> QED
    BY Invariance, <1>1, PTL

\* No field and no door shows a version the appliance has not reached, however
\* polls and pushes overtake each other (coordinator.py:289-297, 626-660).
THEOREM NothingInvented == Spec => []NoInvention
<1>1. IInv => NoInvention
    BY DEF IInv, NoInventionInv
<1> QED
    BY Invariance, <1>1, PTL

\* A registered coordinator holds a complete /State (__init__.py:330-342).
THEOREM RegisteredComplete == Spec => []RegisteredHasState
<1>1. IInv => RegisteredHasState
    BY DEF IInv, PhaseInv, StateInv, RegisteredHasState, Complete
<1> QED
    BY Invariance, <1>1, PTL

\* A forwarded hood lacks its controls only if every setup retry was used
\* (coordinator.py:261-287, __init__.py:396-404).
THEOREM HoodControls == Spec => []HoodControlsUnlessExhausted
<1>1. IInv => HoodControlsUnlessExhausted
    BY DEF IInv, HoodInv
<1> QED
    BY Invariance, <1>1, PTL

\* The coordinator implements Mirror: what it holds and shows is a mirror of the appliance,
\* over every interleaving of polls, pushes, losses and setup (coordinator.py:289-678).
THEOREM Mirrors == Spec => MirrorsAppliance
<1>1. Init => Mirrored!Init
    BY DEF Init, Mirrored!Init, Mirrored!Nothing, StateOf, View, NoReply, Sources
<1> QED
    BY <1>1, StepMirrors, Invariance, PTL DEF Spec, MirrorsAppliance, Mirrored!Spec

\* Once the entities are there they show every field, each at a version the appliance has
\* been at, also in the middle of a poll (apply_push, coordinator.py:675-678).
THEOREM ShowsAreReal ==
    Spec => [](phase = "running" =>
                \A f \in Fields : shown.state[f] # None /\ shown.state[f] <= world[f])
<1> DEFINE Real == \A f \in Fields : shown.state[f] # None /\ shown.state[f] <= world[f]
           RealInv == phase = "running" => Real
<1>1. Init => RealInv
    BY DEF Init
<1>2. IInv /\ RealInv /\ [Next]_vars => RealInv'
    <2> SUFFICES ASSUME IInv, RealInv, [Next]_vars, phase' = "running" PROVE Real'
        OBVIOUS
    <2>1. [Mirrored!Next]_(Mirrored!vars)
        BY StepMirrors
    <2>2. IInv'
        BY TypeStep, PhaseStep, IdentStep, ContextStep, AvailableStep, ShownStep,
           NoInventionStep, HoodStep DEF IInv
    <2>3. CASE shown' = View'
        <3>1. Complete(state)' /\ NoInvention'
            BY <2>2 DEF IInv, PhaseInv, StateInv, Registered, NoInventionInv
        <3> QED
            BY <2>3, <3>1 DEF View, Complete, NoInvention
    <2>4. CASE shown' # View' /\ phase = "running" /\ shown' = shown
        <3>1. \A f \in Fields : world[f] \in Nat /\ world'[f] \in Nat /\ world[f] <= world'[f]
            <4>1. \A f \in Fields : world[f] \in Nat /\ world'[f] \in Nat
                BY <2>2, BoundsAssumption DEF IInv, TypeOK, Sources, Versions
            <4>2. \/ \E g \in Sources : world' = [world EXCEPT ![g] = @ + 1]
                  \/ world' = world
                BY DEF Next, Environment, ApplianceChanges, LosePush, Elapse, Answer, Push,
                       PushState, PushIdent, Pushed, StartPoll, PollStep, PollFails,
                       PollState, PollIdent, IdentReply, PollWlan, WlanReply, PollHours,
                       HoursReply, PollContext, ReadContext, ContextStored, QuickStored,
                       ContextRefused, ContextAsleep, Woken, ContextMissed, QuickIgnored,
                       ContextDone, PollFilters, FilterReply, FinishPoll, Setup,
                       SetupRetry, Forward, Discarded, vars, envVars
            <4> QED
                BY <4>1, <4>2 DEF IInv, TypeOK, Sources
        <3>2. \A f \in Fields : shown.state[f] # None => shown.state[f] \in Nat
            BY BoundsAssumption DEF IInv, TypeOK, MaybeVersion, Versions
        <3> QED
            BY <2>4, <3>1, <3>2
    <2>5. shown' = View' \/ (phase = "running" /\ shown' = shown)
        BY <2>1
        DEF Mirrored!Next, Mirrored!Changes, Mirrored!Refresh, Mirrored!GiveUp,
            Mirrored!Refreshed, Mirrored!Told, Mirrored!Forward, Mirrored!Reflect,
            Mirrored!vars
    <2> QED
        BY <2>3, <2>4, <2>5
<1> QED
    BY <1>1, <1>2, Invariance, PTL DEF Spec

=============================================================================
