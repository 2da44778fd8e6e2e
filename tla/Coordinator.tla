---------------------------- MODULE Coordinator ----------------------------
(***************************************************************************)
(* One MieleLanCoordinator (src/custom_components/miele_lan/coordinator.py)*)
(* the appliance it reads, and the part of Home Assistant's                *)
(* DataUpdateCoordinator that schedules it and tells the entities.         *)
(*                                                                         *)
(* A poll is a coroutine.  It gives the event loop away only at its        *)
(* awaits, so `pc` names the await it is suspended in ("...Wait", "state") *)
(* or the synchronous section it is about to run; a push is handled only   *)
(* while the poll is suspended or absent (Yielded).                        *)
(*                                                                         *)
(* Abstractions.  /State is a function from Fields to versions: a field's  *)
(* value is the number of times the appliance has changed it.  /Ident is   *)
(* the set of the gate fields it came back with.  The 2/1585 leaf is the   *)
(* version of "Door" at the time it was read.  The clock is the set        *)
(* `fresh` of reads whose refresh interval has not elapsed.                *)
(*                                                                         *)
(* A few definitions stand in front of the one they resemble, under a name *)
(* that says how they differ (HealUnmarked, Heal): plausible slips of the  *)
(* code, which the runs' properties must tell from the real one.           *)
(***************************************************************************)
EXTENDS Naturals

CONSTANTS
    Candidates,        \* the families the appliance may be of
    ProtocolVersion,   \* its real ProtocolVersion (2 = legacy Dop1)
    Enrolled,          \* TRUE if SuperVision and a subscription were accepted
    Fields,            \* /State fields; "Status" and "Door" among them
    IdleVersions,      \* versions of "Status" that is_idle_state calls idle
    Changing,          \* bound: what the appliance changes ...
    MaxVersion,        \* ... and how often
    IdentReplies,      \* what a fetch of /Ident may yield ({} = failed)
    HoursReplies,      \* how 2/119 may answer
    ContextReplies,    \* how 2/1585 may answer
    FilterReplies,     \* the grades a pair of filter reads may yield
    Lossy,             \* requests that may time out or be refused
    MaxMissCycles,     \* DEVICE_CONTEXT_MAX_MISS_CYCLES
    MaxIdentAttempts,  \* IDENT_MAX_ATTEMPTS
    SetupRetries,      \* IDENT_SETUP_RETRY_ATTEMPTS
    FailureTolerance,  \* POLL_FAILURE_TOLERANCE
    None

Families == {"dishwasher", "laundry", "oven", "hood", "other"}
IdentFields == {"device_type", "protocol_version"}
Grades == {"grease", "charcoal"}
Leaves == {"wlan", "hours", "context", "filters"}
Versions == 0..MaxVersion
Sources == Fields \cup {"ident"}   \* what an appliance may push about
Pushes == [field : Sources, value : Versions]

ASSUME FamilyAssumption == Candidates \subseteq Families /\ ProtocolVersion \in Nat
ASSUME FieldsAssumption ==
    /\ {"Status", "Door"} \subseteq Fields /\ "ident" \notin Fields
    /\ Changing \subseteq Sources
ASSUME RepliesAssumption ==
    /\ IdentReplies \subseteq SUBSET IdentFields
    /\ HoursReplies \subseteq {"ok", "garbled", "refused"}
    /\ ContextReplies \subseteq {"ok", "bare", "empty", "garbled", "asleep", "refused"}
    /\ FilterReplies \subseteq SUBSET Grades
ASSUME BoundsAssumption ==
    /\ MaxVersion \in Nat
    /\ MaxMissCycles \in Nat \ {0}
    /\ MaxIdentAttempts \in Nat \ {0}
    /\ SetupRetries \in Nat
    /\ FailureTolerance \in Nat
    /\ Enrolled \in BOOLEAN
ASSUME NoneAssumption == None \notin Nat

VARIABLES
    family,         \* the appliance's real family; it never changes
    world,          \* the appliance's true /State, and its /Ident announcements
    pushes,         \* pushes the appliance has sent and nobody has handled
    phase,          \* where the config entry's setup is with this coordinator
    pc,             \* where the poll is
    reply,          \* the answer on its way to the poll, NoReply before it left
    \* self._data
    state, ident, wlan, hours, grades, context, doorState,
    \* the rest of the coordinator's attributes
    identLoaded, identAttempts, setupAttempts,
    fresh,          \* leaves whose last fetch is within its interval
    unsupported,    \* leaves latched off
    missCycles, answered,
    heard,          \* history: the latest poll has had a 200 of 2/1585
    pushed,         \* push_count > 0
    failures,       \* consecutive poll failures, up to FailureTolerance + 1
    everSucceeded,
    interval,       \* update_interval, "fallback" or "active"
    \* what Home Assistant holds
    available,      \* last_update_success, which entities report
    entities,       \* groups of gated entities created by the forward
    shown           \* the view of _data the entities last wrote

envVars == <<family, world, pushes>>
identVars == <<ident, identLoaded, identAttempts, setupAttempts>>
contextVars == <<context, doorState, missCycles, answered, heard>>
otherVars == <<wlan, hours, grades>>
leafVars == <<fresh, unsupported>>
healthVars == <<failures, everSucceeded, interval, available>>
haVars == <<entities, shown>>
coordVars == <<state, identVars, contextVars, otherVars, leafVars, pushed,
               healthVars, haVars>>
vars == <<family, world, pushes, phase, pc, reply, state, ident, wlan, hours, grades,
          context, doorState, identLoaded, identAttempts, setupAttempts, fresh,
          unsupported, missCycles, answered, heard, pushed, failures, everSucceeded,
          interval, available, entities, shown>>

StateOf(w) == [f \in Fields |-> w[f]]
NoReply == [f \in Fields |-> None]
MaybeVersion == Versions \cup {None}
View == [state |-> state, context |-> context, door |-> doorState]

Awaits == {"state", "identWait", "wlanWait", "hoursWait", "contextWait",
           "wakeWait", "retryWait", "quickWait", "filterWait"}
Sections == {"ident", "wlan", "hours", "context", "filters", "finish"}
Phases == {"firstRefresh", "notReady", "ensureIdent", "running"}

TypeOK ==
    /\ family \in Candidates
    /\ world \in [Sources -> Versions]
    /\ pushes \subseteq Pushes
    /\ phase \in Phases
    /\ pc \in {"idle"} \cup Awaits \cup Sections
    /\ reply \in [Fields -> MaybeVersion]
    /\ state \in [Fields -> MaybeVersion]
    /\ ident \subseteq IdentFields
    /\ wlan \in BOOLEAN /\ hours \in BOOLEAN
    /\ grades \subseteq Grades
    /\ context \in MaybeVersion /\ doorState \in MaybeVersion
    /\ identLoaded \in BOOLEAN
    /\ identAttempts \in 0..MaxIdentAttempts
    /\ setupAttempts \in 0..SetupRetries
    /\ fresh \subseteq Leaves /\ unsupported \subseteq Leaves
    /\ missCycles \in 0..MaxMissCycles
    /\ answered \in BOOLEAN /\ heard \in BOOLEAN /\ pushed \in BOOLEAN
    /\ failures \in 0..(FailureTolerance + 1)
    /\ everSucceeded \in BOOLEAN
    /\ interval \in {"fallback", "active"}
    /\ available \in BOOLEAN
    /\ entities \subseteq {"hoodControls", "filterSensors", "contextSensors"}
    /\ shown \in [state : [Fields -> MaybeVersion],
                  context : MaybeVersion, door : MaybeVersion]

-----------------------------------------------------------------------------
(* A new coordinator (__init__) and the gates its ident opens.             *)

Init ==
    /\ family \in Candidates
    /\ world = [f \in Sources |-> 0]
    /\ pushes = {}
    /\ phase = "firstRefresh"
    /\ pc = "idle" /\ reply = NoReply
    /\ state = NoReply
    /\ ident = {} /\ wlan = FALSE /\ hours = FALSE /\ grades = {}
    /\ context = None /\ doorState = None
    /\ identLoaded = FALSE /\ identAttempts = 0 /\ setupAttempts = 0
    /\ fresh = {} /\ unsupported = {}
    /\ missCycles = 0 /\ answered = FALSE /\ heard = FALSE
    /\ pushed = FALSE
    /\ failures = 0 /\ everSucceeded = FALSE
    /\ interval = "fallback" /\ available = TRUE
    /\ entities = {}
    /\ shown = [state |-> NoReply, context |-> None, door |-> None]

DeviceType == IF "device_type" \in ident THEN family ELSE "unknown"

HoodDop1Supported ==
    /\ DeviceType = "hood"
    /\ "protocol_version" \in ident
    /\ ProtocolVersion = 2

HasContextLeaf == DeviceType \in {"laundry", "dishwasher"}

Yielded == pc \in Awaits \cup {"idle"}
Registered == phase \in {"ensureIdent", "running"}

\* Once forwarded, the entities write _data into Home Assistant.
NotifyPollsOnly == shown' = IF phase' = "running" /\ pc' # pc THEN View' ELSE shown
Notify == shown' = IF phase' = "running" THEN View' ELSE shown

-----------------------------------------------------------------------------
(* The appliance, the network and the clock.                               *)

ApplianceChanges(f) ==
    /\ Yielded
    /\ f \in Changing /\ world[f] < MaxVersion
    /\ world' = [world EXCEPT ![f] = @ + 1]
    /\ pushes' = IF Enrolled
                 THEN pushes \cup {[field |-> f, value |-> world[f] + 1]}
                 ELSE pushes
    /\ UNCHANGED <<family, phase, pc, reply, coordVars>>

\* The listener never saw it, or had no coordinator registered for its fab.
LosePush(p) ==
    /\ Yielded
    /\ p \in pushes
    /\ pushes' = pushes \ {p}
    /\ UNCHANGED <<family, world, phase, pc, reply, coordVars>>

\* The refresh interval of a leaf elapses.
Elapse(leaf) ==
    /\ Yielded
    /\ leaf \in fresh
    /\ fresh' = fresh \ {leaf}
    /\ UNCHANGED <<envVars, phase, pc, reply, state, identVars, contextVars,
                   otherVars, unsupported, pushed, healthVars, haVars>>

\* The appliance answers the read the poll is waiting for.
Answer ==
    /\ pc \in {"state", "contextWait", "retryWait", "quickWait"}
    /\ reply = NoReply
    /\ reply' = StateOf(world)
    /\ UNCHANGED <<envVars, phase, pc, coordVars>>

-----------------------------------------------------------------------------
(* apply_push: synchronous, so it runs where the poll is suspended.        *)

\* async_set_updated_data: the data are good again, tell the entities.
Pushed ==
    /\ pushed' = TRUE
    /\ available' = TRUE
    /\ UNCHANGED <<family, world, phase, pc, reply, identVars, contextVars,
                   otherVars, leafVars, failures, everSucceeded, interval, entities>>
    /\ Notify

PushState(p) ==
    /\ Yielded /\ Registered
    /\ p \in pushes /\ p.field \in Fields
    /\ pushes' = pushes \ {p}
    /\ state' = [state EXCEPT ![p.field] = p.value]
    /\ Pushed

\* Merges keys of the peer's own spelling, which no gate reads.
PushIdent(p) ==
    /\ Yielded /\ Registered
    /\ p \in pushes /\ p.field = "ident"
    /\ pushes' = pushes \ {p}
    /\ UNCHANGED state
    /\ Pushed

-----------------------------------------------------------------------------
(* _async_update_data                                                      *)

\* The refresh timer fires.  Before the forward there are no listeners, hence no
\* timer, and the only poll is the one of async_config_entry_first_refresh.
StartPoll ==
    /\ pc = "idle"
    /\ phase \in {"firstRefresh", "running"}
    /\ pc' = "state"
    /\ heard' = FALSE
    /\ UNCHANGED <<envVars, phase, reply, state, identVars, context, doorState,
                   missCycles, answered, otherVars, leafVars, pushed, healthVars,
                   haVars>>

Tolerated(n) == n <= FailureTolerance /\ everSucceeded

\* get_state raised: the except branch of _async_update_data.
PollFails ==
    /\ pc = "state" /\ "state" \in Lossy
    /\ pc' = "idle" /\ reply' = NoReply
    /\ failures' = IF failures <= FailureTolerance THEN failures + 1 ELSE failures
    /\ available' = Tolerated(failures')
    /\ phase' = IF phase # "firstRefresh" THEN phase
                ELSE IF available' THEN "ensureIdent" ELSE "notReady"
    /\ UNCHANGED <<envVars, state, identVars, contextVars, otherVars, leafVars,
                   pushed, everSucceeded, interval, entities>>
    /\ IF available' THEN Notify ELSE UNCHANGED shown

PollStateTrustsPush ==
    /\ pc = "state" /\ reply # NoReply
    /\ state' = IF pushed THEN state ELSE reply
    /\ reply' = NoReply
    /\ pc' = "ident"
    /\ UNCHANGED <<envVars, phase, identVars, contextVars, otherVars, leafVars,
                   pushed, healthVars, haVars>>

PollState ==
    /\ pc = "state" /\ reply # NoReply
    /\ state' = reply
    /\ reply' = NoReply
    /\ pc' = "ident"
    /\ UNCHANGED <<envVars, phase, identVars, contextVars, otherVars, leafVars,
                   pushed, healthVars, haVars>>

PollIdent ==
    /\ pc = "ident"
    /\ pc' = IF identLoaded THEN "wlan" ELSE "identWait"
    /\ UNCHANGED <<envVars, phase, reply, coordVars>>

IdentReply(r) ==
    /\ pc = "identWait"
    /\ ident' = r
    /\ identAttempts' = identAttempts + 1
    /\ identLoaded' = (r # {} \/ identAttempts' >= MaxIdentAttempts)
    /\ pc' = "wlan"
    /\ UNCHANGED <<envVars, phase, reply, state, setupAttempts, contextVars,
                   otherVars, leafVars, pushed, healthVars, haVars>>

PollWlan ==
    /\ pc = "wlan"
    /\ pc' = IF wlan /\ "wlan" \in fresh THEN "hours" ELSE "wlanWait"
    /\ UNCHANGED <<envVars, phase, reply, coordVars>>

AfterLostWlan == "hours"

WlanReply ==
    /\ pc = "wlanWait"
    /\ \/ wlan' = TRUE /\ fresh' = fresh \cup {"wlan"} /\ pc' = "hours"
       \/ "wlan" \in Lossy /\ UNCHANGED <<wlan, fresh>> /\ pc' = AfterLostWlan
    /\ UNCHANGED <<envVars, phase, reply, state, identVars, contextVars, hours,
                   grades, unsupported, pushed, healthVars, haVars>>

PollHours ==
    /\ pc = "hours"
    /\ IF "hours" \notin unsupported \cup fresh /\ DeviceType = "oven"
       THEN pc' = "hoursWait" /\ fresh' = fresh \cup {"hours"}
       ELSE pc' = "context" /\ UNCHANGED fresh
    /\ UNCHANGED <<envVars, phase, reply, state, identVars, contextVars,
                   otherVars, unsupported, pushed, healthVars, haVars>>

HoursKinds == HoursReplies \cup (IF "hours" \in Lossy THEN {"lost"} ELSE {})

LatchesHoursOnAnyFailure(kind) == kind \in {"refused", "lost"}
LatchesHours(kind) == kind = "refused"

\* A lost request and a body that does not parse change nothing but the throttle.
HoursReply(kind) ==
    /\ pc = "hoursWait"
    /\ kind \in HoursKinds
    /\ pc' = "context"
    /\ hours' = (hours \/ kind = "ok")
    /\ unsupported' = IF LatchesHours(kind) THEN unsupported \cup {"hours"}
                                            ELSE unsupported
    /\ UNCHANGED <<envVars, phase, reply, state, identVars, contextVars, wlan,
                   grades, fresh, pushed, healthVars, haVars>>

-----------------------------------------------------------------------------
(* _maybe_refresh_device_context                                           *)

DropDoorNot == UNCHANGED doorState
DropDoor == doorState' = None

PollContext ==
    /\ pc = "context"
    /\ DropDoor
    /\ reply' = NoReply
    /\ IF "context" \in unsupported \/ ~HasContextLeaf
       THEN pc' = "filters" /\ UNCHANGED fresh
       ELSE IF "context" \in fresh
            THEN /\ pc' = IF answered /\ DeviceType = "dishwasher"
                          THEN "quickWait" ELSE "filters"
                 /\ UNCHANGED fresh
            ELSE pc' = "contextWait" /\ fresh' = fresh \cup {"context"}
    /\ UNCHANGED <<envVars, phase, state, identVars, context, missCycles,
                   answered, heard, otherVars, unsupported, pushed, healthVars,
                   haVars>>

DoorInWrongField(body) == body["Status"]
DoorIn(body) == body["Door"]

\* _store_device_context: a body that does not parse still counts as an answer and
\* keeps the levels; one too short for a header parses to none (dop2.py:256-257).
StoreContext(kind) ==
    /\ answered' = TRUE /\ heard' = TRUE
    /\ context' = CASE kind = "garbled" -> context
                    [] kind = "empty" -> None
                    [] OTHER -> DoorIn(reply)
    /\ doorState' = IF kind = "ok" THEN DoorIn(reply) ELSE doorState

MissLatches(n) == n >= MaxMissCycles

LatchContext == unsupported' = unsupported \cup {"context"} /\ context' = None

MissForgivesWake ==
    IF pc = "wakeWait" THEN UNCHANGED <<missCycles, unsupported, context>>
    ELSE /\ missCycles' = missCycles + 1
         /\ IF MissLatches(missCycles') THEN LatchContext
                                        ELSE UNCHANGED <<unsupported, context>>

\* _miss: count the cycle, and latch the leaf at the bound.
Miss ==
    /\ missCycles' = missCycles + 1
    /\ IF MissLatches(missCycles') THEN LatchContext
                                   ELSE UNCHANGED <<unsupported, context>>

\* Every outcome of an await in this section leads on to the hood filters.
ContextDone ==
    /\ pc' = "filters" /\ reply' = NoReply
    /\ UNCHANGED <<envVars, phase, state, identVars, otherVars, fresh, pushed,
                   healthVars, haVars>>

\* A 200 to a full read.
ContextStored(kind) ==
    /\ pc \in {"contextWait", "retryWait"} /\ reply # NoReply
    /\ kind \in ContextReplies \cap {"ok", "bare", "empty", "garbled"}
    /\ missCycles' = 0
    /\ StoreContext(kind)
    /\ UNCHANGED unsupported
    /\ ContextDone

\* A 403 or 404 to a full read.
ContextRefused ==
    /\ pc \in {"contextWait", "retryWait"} /\ reply # NoReply
    /\ "refused" \in ContextReplies
    /\ LatchContext
    /\ UNCHANGED <<doorState, missCycles, answered, heard>>
    /\ ContextDone

\* The first 500 of a cycle: wake the appliance.
ContextAsleep ==
    /\ pc = "contextWait" /\ reply # NoReply
    /\ "asleep" \in ContextReplies
    /\ pc' = "wakeWait" /\ reply' = NoReply
    /\ UNCHANGED <<envVars, phase, coordVars>>

\* The wake was accepted; three seconds later the read is sent again.
Woken ==
    /\ pc = "wakeWait"
    /\ pc' = "retryWait"
    /\ UNCHANGED <<envVars, phase, reply, coordVars>>

\* The cycle ends without a 200: still 500 after the wake, or a request failed.
ContextMissed ==
    /\ \/ pc \in {"contextWait", "retryWait"} /\ "context" \in Lossy
       \/ pc = "wakeWait" /\ "wake" \in Lossy
       \/ pc = "retryWait" /\ reply # NoReply /\ "asleep" \in ContextReplies
    /\ Miss
    /\ UNCHANGED <<doorState, answered, heard>>
    /\ ContextDone

\* _quick_refresh_device_context, answered 200.
QuickStored(kind) ==
    /\ pc = "quickWait" /\ reply # NoReply
    /\ kind \in ContextReplies \cap {"ok", "bare", "empty", "garbled"}
    /\ StoreContext(kind)
    /\ UNCHANGED <<missCycles, unsupported>>
    /\ ContextDone

\* _quick_refresh_device_context, any other outcome.
QuickIgnored ==
    /\ pc = "quickWait"
    /\ \/ "context" \in Lossy
       \/ reply # NoReply /\ ContextReplies \cap {"asleep", "refused"} # {}
    /\ UNCHANGED <<contextVars, unsupported>>
    /\ ContextDone

-----------------------------------------------------------------------------
(* _maybe_refresh_hood_filters, and the end of the poll.                   *)

PollFilters ==
    /\ pc = "filters"
    /\ IF /\ "filters" \notin unsupported /\ HoodDop1Supported
          /\ grades = {} \/ "filters" \notin fresh
       THEN pc' = "filterWait" /\ fresh' = fresh \cup {"filters"}
       ELSE pc' = "finish" /\ UNCHANGED fresh
    /\ UNCHANGED <<envVars, phase, reply, state, identVars, contextVars,
                   otherVars, unsupported, pushed, healthVars, haVars>>

FilterReply ==
    /\ pc = "filterWait"
    /\ pc' = "finish"
    /\ \/ \E g \in FilterReplies :
            /\ grades' = grades \cup g
            /\ unsupported' = IF g = {} THEN unsupported \cup {"filters"}
                                        ELSE unsupported
       \/ "filters" \in Lossy /\ UNCHANGED <<grades, unsupported>>
    /\ UNCHANGED <<envVars, phase, reply, state, identVars, contextVars, wlan,
                   hours, fresh, pushed, healthVars, haVars>>

IsIdle == state["Status"] = None \/ state["Status"] \in IdleVersions
PushActive == Enrolled /\ pushed

FinishPoll ==
    /\ pc = "finish"
    /\ pc' = "idle"
    /\ failures' = 0
    /\ everSucceeded' = TRUE
    /\ interval' = IF PushActive \/ IsIdle THEN "fallback" ELSE "active"
    /\ available' = TRUE
    /\ phase' = IF phase = "firstRefresh" THEN "ensureIdent" ELSE phase
    /\ UNCHANGED <<envVars, reply, state, identVars, contextVars, otherVars,
                   leafVars, pushed, entities>>
    /\ Notify

-----------------------------------------------------------------------------
(* The rest of the entry's setup: async_ensure_ident_ready, the forward of *)
(* the platforms, and the end of a coordinator whose first refresh failed. *)

HealUnmarked(r) == ident' = (IF r # {} THEN r ELSE ident) /\ UNCHANGED identLoaded
Heal(r) ==
    IF r # {} THEN ident' = r /\ identLoaded' = TRUE
              ELSE UNCHANGED <<ident, identLoaded>>

SetupRetry(r) ==
    /\ phase = "ensureIdent"
    /\ ident = {} /\ setupAttempts < SetupRetries
    /\ setupAttempts' = setupAttempts + 1
    /\ Heal(r)
    /\ UNCHANGED <<envVars, phase, pc, reply, state, identAttempts, contextVars,
                   otherVars, leafVars, pushed, healthVars, haVars>>

GatedEntities ==
    (IF HoodDop1Supported THEN {"hoodControls"} ELSE {})
    \cup (IF DeviceType = "hood" /\ grades # {} THEN {"filterSensors"} ELSE {})
    \cup (IF HasContextLeaf /\ context # None THEN {"contextSensors"} ELSE {})

IdentReadyAtOnce == TRUE
IdentReady == ident # {} \/ setupAttempts = SetupRetries

Forward ==
    /\ phase = "ensureIdent"
    /\ IdentReady
    /\ phase' = "running"
    /\ entities' = GatedEntities
    /\ UNCHANGED <<envVars, pc, reply, state, identVars, contextVars, otherVars,
                   leafVars, pushed, healthVars>>
    /\ Notify

\* ConfigEntryNotReady: this object is dropped, the next setup builds another.
Discarded == phase = "notReady" /\ UNCHANGED vars

-----------------------------------------------------------------------------
Environment ==
    \/ \E f \in Sources : ApplianceChanges(f)
    \/ \E p \in pushes : LosePush(p)
    \/ \E leaf \in Leaves : Elapse(leaf)
    \/ Answer

Push == \E p \in pushes : PushState(p) \/ PushIdent(p)

ReadContext ==
    \/ \E kind \in ContextReplies : ContextStored(kind) \/ QuickStored(kind)
    \/ ContextRefused \/ ContextAsleep \/ Woken \/ ContextMissed
    \/ QuickIgnored

\* Every step of a poll once it has begun; each await has a finite timeout.
PollStep ==
    \/ PollFails \/ PollState
    \/ PollIdent \/ (\E r \in IdentReplies : IdentReply(r))
    \/ PollWlan \/ WlanReply \/ PollHours \/ (\E kind \in HoursKinds : HoursReply(kind))
    \/ PollContext \/ ReadContext
    \/ PollFilters \/ FilterReply \/ FinishPoll

Setup == (\E r \in IdentReplies : SetupRetry(r)) \/ Forward \/ Discarded

Next == Environment \/ Push \/ StartPoll \/ PollStep \/ Setup

Spec == Init /\ [][Next]_vars

(* Every await of a poll is bounded by the client's timeout, so a poll that
   has begun goes on.  The timer keeps firing and intervals keep elapsing.  That
   an appliance asked again and again is reached again and again is an
   assumption about the network; so is that a leaf which may answer 200 does. *)
Fairness ==
    /\ WF_vars(StartPoll) /\ SF_vars(Answer)
    /\ WF_vars(PollStep) /\ SF_vars(PollState) /\ SF_vars(HoursReply("ok"))
    /\ WF_vars(Setup)
    /\ \A leaf \in Leaves : SF_vars(Elapse(leaf))

FairSpec == Spec /\ Fairness

-----------------------------------------------------------------------------
(* Properties                                                              *)

\* A latched 2/1585 leaves nothing behind: no cached levels, no door, whatever
\* pushes and reads were in flight when it was given up (coordinator.py:447-449).
LatchClearsContext ==
    "context" \in unsupported => context = None /\ doorState = None

\* Of the polls that go through none leaves a door that it has not read itself, by
\* whichever way it left the section; while 2/1585 is being read there is no door, and
\* one that exists is that of the cached levels (coordinator.py:451, 553-560).
DoorIsFromThisPoll ==
    /\ pc \in {"filters", "filterWait", "finish"} \/ (pc = "idle" /\ failures = 0)
          => (doorState # None => heard)
    /\ pc \in {"contextWait", "wakeWait", "retryWait", "quickWait"}
          => doorState = None
    /\ doorState # None => doorState = context

\* coordinator.py:87-88 of door_state: "read during the latest poll, None if that poll
\* did not read it".  A poll whose /State fails ends before the section that drops it.
DoorIsOfLatestPoll ==
    pc = "idle" /\ doorState # None => heard

\* Polling stops asking for /Ident only with the gate fields in hand or after
\* its whole budget: the retries made during setup never spend that budget
\* (coordinator.py:261-266).
IdentBudgetIsPolls ==
    identLoaded /\ ident = {} => identAttempts = MaxIdentAttempts

\* Once /Ident has come back with a gate field nothing replaces it: neither a
\* later failed fetch nor a poll that overtakes the setup retry.
IdentKept ==
    [][ident \subseteq ident']_ident

\* Entities are unavailable only past the tolerance; a push may make them
\* available earlier, never the reverse.
UnavailableOnlyPastTolerance ==
    phase = "running" /\ ~available => failures > FailureTolerance

\* _data is one object shared with the entities and changed in the middle of a
\* poll; still, whenever no poll runs, what the entities wrote is what it holds.
ShownIsData ==
    phase = "running" /\ pc = "idle" => shown = View

\* Nothing is invented: a field never shows a version the appliance has not
\* reached, even with stale answers and late pushes merged into one dict.
NoInvention ==
    /\ \A f \in Fields : state[f] # None => state[f] <= world[f]
    /\ context # None => context <= world["Door"]

\* The coordinator is a mirror of its appliance, as Mirror has it: what is held and shown
\* the appliance has shown, the levels are given up for good, a push shows at once and the
\* end of a poll shows all, and the entities are those of the forward.
Mirrored == INSTANCE Mirror WITH
    truth <- StateOf(world),
    held <- View,
    refreshing <- pc \notin {"idle", "state"},
    givenUp <- "context" \in unsupported,
    forwarded <- phase = "running"

MirrorsAppliance == Mirrored!Spec

\* The first forward sees data: no coordinator is registered, pushed to or
\* forwarded before its first poll has stored a complete /State.
RegisteredHasState ==
    Registered => \A f \in Fields : state[f] # None

\* A hood whose /Ident gate fields reached the setup retries in time has its
\* fan and light controls; otherwise every retry was used up.
HoodControlsUnlessExhausted ==
    phase = "running" /\ HoodDop1Supported /\ "hoodControls" \notin entities
        => setupAttempts = SetupRetries

\* Polling reconciles drift: once the appliance rests, the entities come to show
\* what it is and keep showing it, whatever was lost, late or out of order
\* (coordinator.py:4-6).
ReconcilesDrift == <>[](phase = "notReady" \/ shown.state = StateOf(world))

\* A dishwasher or washer whose 2/1585 never answers 200 is left alone in the
\* end (coordinator.py:442-445, checked where the leaf cannot answer).
DeadLeafIsLatched == HasContextLeaf ~> "context" \in unsupported

\* An oven whose statistics leaf fails for a while gets its hours all the same:
\* timeouts and garbage are retried, never latched (coordinator.py:388-391).
HoursArrive == DeviceType = "oven" ~> hours

=============================================================================
