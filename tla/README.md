# Miele@LAN: a verification project

TLA+ models of the Home Assistant integration `miele_lan`
(`src/custom_components/miele_lan/`), the TLC runs that check them on small
instances, and the theorems TLAPS proves about them for every value of their
constants.  Line numbers are those of the files under
`src/custom_components/miele_lan/` unless a path is given.

- [The system](#the-system): components, state, operations, interactions
- [The modules](#the-modules): what models what
- [The runs](#the-runs): properties, bounds, fairness
- [The proofs](#the-proofs)
- [What the code does otherwise than its documentation says](#disagreements)
- [What is not modelled](#what-is-not-modelled)
- [Plan](#plan)

`PROJECT.json` is the machine-readable side: components, runs, the lines each
definition stands for (`map`), the hazards with the properties that cover them,
and for every property of a passing run a mutant of the code that breaks it.

To check: `tlc -config <run>.cfg <module>.tla` with the pairs listed under *The
runs*; `tlapm <module>Proofs.tla` for the proofs.

## The system

The integration talks to Miele appliances over the local network, without the
cloud once it has the household's group key.  Everything runs in one asyncio
event loop: code between two awaits is atomic, and whatever is suspended at an
await may be overtaken by anything else.

| Component | State it keeps | Operations |
|---|---|---|
| **Coordinator** (`coordinator.py`, one per appliance) | `_data` (state, ident, wlan, hours, DOP2 grades, device context, door), latches and miss counters, last-fetch times, identity attempts, push count, failure count, poll interval | timed poll (`_async_update_data`), first refresh, identity retries during setup, `apply_push` |
| **Config entry lifecycle** (`__init__.py`) | `hass.data[DOMAIN][entry_id]` (listener, coordinators, clients), the repair issue, the token task, the update listener | set up, retry, reload on options or token change, unload, remove |
| **Push listener** (`push_listener.py`, one per entry) | HTTP site on the push port, mDNS registration, synthetic peer tree | start, stop, decrypt and dispatch a push |
| **Services** (`services.py`, one set for the domain) | whether they are registered | register, remove when no entry is loaded, two dumps |
| **Entities** (platform modules) | which gated groups were created; what each last wrote | created once at the forward, written at each notification; user commands |
| **Enrollment** (`enrollment.py`) | none in the integration; slots and peer entries in the appliance | verify, SuperVision PUT, subscription POSTs, sweep of stale slots, address resolution |
| **API client** (`api.py`) | an HTTP session | signed reads, DOP2 and Dop1 writes, process actions, power with wake and retry |
| **Cloud client** (`cloud.py`) | tokens; the challenge of a login | OAuth with its state and verifier, walk over the regional backends for the group key, token refresh |
| **Config and options flow** (`config_flow.py`, `options_validation.py`) | the flow's answers; the entries it creates | cloud, pasted-token and direct setup, discovery cards, static IPs, options |
| **Decoders** (`dop2.py`, `extended_state.py`) | none | DOP2 attribute walk, extended state |
| **Provisioning tool** (`src/tools/miele_lan_provision.py`) | the key file and the tokens file, both rewritten in place | send the WLAN, commission, or both (pair), over the appliance's own access point |
| Diagnostics, constants, country table | none worth modelling | |

How they interact:

- The entry's setup starts the listener (mDNS first, then the port), enrols every
  appliance it can resolve, sweeps each appliance's subscription table, builds
  a client and a coordinator per enrolled appliance, awaits each coordinator's
  first refresh, stores the bundle, lets hoods and unknown appliances retry
  their `/Ident`, and forwards to the platforms, which create their entities once.
- The listener calls back into `_on_push`, which finds the coordinator in a
  dictionary that is filled only after that coordinator's first refresh.
- `apply_push` and the poll write the *same* `_data` object, which the entities read.
- Two entries (two households) share the domain's services, Home Assistant's
  zeroconf, and, as both flows default to it, the push port 18082.
- Several installations (or households of one) share an appliance's subscription
  table, and nothing locks it.
- A setup layers options over the entry's data, merges what mDNS found over both,
  and hands one list of appliances and addresses to the enrolment.
- Several config flows may be open at once, and race for one household's id.
- The tool and the integration share nothing but the keys in the appliance.
- A stored token and a changed option are both entry updates, and an entry update
  reloads the entry.

What is hard here:

- *Interleaving*: pushes between the awaits of a poll, two entries' setups, two
  installations' walks over the same slots, two power commands.
- *Failure in the middle*: each poll has up to seven optional reads; each setup
  has a dozen exits, and must give back what it holds at each.
- *Ordering*: pushes may be lost, delayed, reordered; a poll's answer may be
  older than a push that overtakes it.
- *Retries and budgets*: identity budgets (one for polls, one for setup), miss
  counters, wake rounds, sweep misses; all with a boundary to get wrong.
- *Stale addresses*: DHCP moves appliances while a setup holds addresses from the
  data, the options, a browse and a cache.
- *Crashes*: the tool is run by hand and may stop between an appliance's taking its
  keys and the file that should remember them.
- *Remote leftovers*: what an installation leaves behind in an appliance when it
  is restarted, re-created or removed.

What makes each component correct, in one sentence each: the coordinator never
shows what the appliance never was, reconciles what it missed, and gives up
only on what is really dead; an entry holds exactly what its state entitles it
to and leaves nothing behind; a sweep or a removal deletes what it should and
nothing else, whoever else is at the table; a power command ends, executes at
most twice, and does what it asked if it was accepted; a flow makes one entry, for
the household it should, or leaves no trace; every appliance is sought where it is best
known to be, and enrolled or reported; the key file never claims keys the appliance
does not have; what is decoded is what was encoded.

## The modules

| Module | Models | Extended by |
|---|---|---|
| `Mirror` | what the integration promises of one appliance, however it reads it: abstract | `Coordinator` (by `INSTANCE`) |
| `Coordinator` | `coordinator.py`, `polling.py`, the slice of DataUpdateCoordinator it relies on, the appliance it reads | `MCCoordinator`, `CoordinatorProofs` |
| `Household` | `__init__.py`: entries, their listener, clients, issue and token task, the domain's services | `MCHousehold`, `HouseholdProofs` |
| `Subscriptions` | `enroll_device`, `cleanup_stale_subscriptions` (`enrollment.py`), `async_remove_entry` against one appliance's slots | `MCSubscriptions`, `SubscriptionsProofs` |
| `SetPower` | `MieleLanClient.set_power`, `wake`, `write_user_request` (`api.py`) as the power switch calls them | `MCSetPower`, `SetPowerProofs` |
| `Provisioning` | the commands of `src/tools/miele_lan_provision.py`, the appliances and the cloud they talk to | `MCProvisioning`, `ProvisioningProofs` |
| `Onboarding` | what the config flow promises whoever runs several of it: abstract | `Setup` (by `INSTANCE`) |
| `Setup` | `config_flow.py` and the cloud client (`cloud.py`) it uses | `MCSetup`, `SetupProofs` |
| `Addresses` | the addresses of a setup (`__init__.py`, `enrollment.py`, `enrollment_report.py`) and the options form | `MCAddresses`, `AddressesProofs` |
| `Wire` | the flat leaves of `dop2.py`, and of `api.py` and `push_listener.py` the padding, the written leaves, the echo of a hood setting and the gate of process actions | `Codec` |
| `Codec` | the walk over nested bodies of `dop2.py` | `MCCodec`, `CodecProofs` |

A few definitions stand in front of the one they resemble, under a name that says
how they differ (`HealUnmarked`, `Heal`).  They are the mutants
`PROJECT.json` lists; no specification uses them.

### Coordinator and Mirror

`pc` is the await the poll is suspended in (`"state"`, `"identWait"`,
`"wlanWait"`, `"hoursWait"`, `"contextWait"`, `"wakeWait"`, `"retryWait"`,
`"quickWait"`, `"filterWait"`) or the synchronous section it runs next; a push
is handled only when the poll is `Yielded`.  `StartPoll` ... `FinishPoll` are the
sections of `_async_update_data` in their order, one action per outcome of each
await.  `phase` is where the entry's setup is with this coordinator: its first
refresh, `async_ensure_ident_ready`, running, or dropped (`ConfigEntryNotReady`).

Abstractions: the value of a field is the number of times the appliance has changed it, so
"older" is `<`, and `Changing` bounds which fields change; `/Ident` is the set of gate
fields it came back with; 2/1585 is the version of the door it was read at, and a 200 with
a body too short for its header (`"empty"`) replaces the cached levels by none; the clock
is the set `fresh` of reads whose interval has not elapsed (`Elapse` is time passing); the
two filter grades are one read with the set of grades it yields.  `world` and `pushes` are
the appliance and the network, outside `src/`.  `heard` is history: whether the poll that
is running, or the last one, has stored an answer of 2/1585.

`Mirror` knows of no awaits, leaves, budgets or failures.  It holds a copy of the
appliance that lags; a refresh may bring any version the appliance has been at, a door
only with the levels it was read with, none of the levels when the leaf answers with
nothing or once they are given up; the appliance may tell of one field when all are known;
and the entities show at any moment what the mirror held at one moment, which is what it
holds now except during a refresh.  `Coordinator` implements it (`MirrorsAppliance`) with
`truth` as `world`, `held` as the fields, context and door of the view, `refreshing` as
the part of a poll after `/State` was stored, `givenUp` as the latch of 2/1585, and
`shown` as the same part of what the entities last wrote.  `PollState` and the end of a
read of 2/1585 are refreshes, `FinishPoll` ends them, a latch is `GiveUp`, `Pushed` is
`Told`, and the requests, the identity, the hours, the grades and every failure are
stutters.

### Household

`pc[e]` is the await the operation of entry `e` is suspended in.  `held[e]` is what the
current attempt's objects hold (mDNS record, port, bundle, update listener, token task),
`clients[e]` its open clients.  When an operation returns or raises, what it still holds
moves to `leaked[e]` (`Drop`): no object is left that could release it.  The bind of the
port fails when another entry has it and, as the fault `bind`, for any other reason of the
operating system's.  Home Assistant's `setup_lock` lets one operation of an entry run at a
time, so a reload that an update asks for waits in `pending`; causes of reloads are kept
as a set.  Entering and leaving a state follows `ConfigEntries` of Home Assistant: a raise
is `error` or `retry`, `False` is `error`. A user's *disable* is an unload.  Removal
deletes the issue and forgets the entry; its remote clean-up is in `Subscriptions`.
`enroll_all` collects failures per appliance, so its outcome is any subset of the resolved
ones, and the `enroll` fault is the exception that leaves it.  `async_unload_entry` when
the platforms refuse leaves everything as it is (`FailedUnloadHolds`).

### Subscriptions

One appliance, several installations with an own `ha_fab` each.  `table[n]` is
what slot `n` calls back: an installation's resource, the cloud or a peer
appliance, an installation that no longer exists, or nothing.  `next` is the
number the firmware hands out next; it never re-uses one
(`enrollment.py:279`, `__init__.py:314-317`).  Whether a repeated POST keeps its slot
is unspecified: `enrollment.py:13` says it overwrites, the sweep's comment that
slots accumulate, so `overwrites` is both.  Every signed request is a step; a
lost one may have been executed.  `walk[i]` has the position, the misses in a
row, the slots `i` lost a request about, and `next` as it was at its start (the
last two are history, read by properties only).  `Stop` ends whatever an
installation is doing: a restart of Home Assistant, an unload, a failed setup.
A removal that is cut short is taken up again from the start: the entry is still
there.

### SetPower

Each call is one press of the switch.  `pc` is the request or the sleep it is in,
`round` is `round_num`.  How a request may end: 2xx; 500 (the appliance sleeps);
another status; a timeout or a failed connect; any other client error.  A request
the client gave up on is executed, is executed later (`late`), or is gone.
`timeouts`, `executed` and `alone` are history.  Whether the press's two channels
(DOP2 leaf 2/1586 and the GLOBAL_USER_REQ opcode) ask for the same is the
operator `Asks`.

### Provisioning

One command runs at a time; `pc` is the step it is at, `run` its local variables.
Each request may be executed with its answer lost; a commissioning request is tried
over http and https, so a second attempt may be refused because the first was
taken.  `Crash` ends a command between any two steps.  Writing a file is two steps,
since `write_text` empties it first.  `file` is the key file by appliance (keys, and
whether there is a route), `oauth` the refresh token the cloud accepts and the one
that is stored.  Keys are generated by the command that uses them, the household's
(the user's choice), or the cloud's, which pairs an appliance that reaches it
unkeyed.  `saved`, `stale` and `faults` are history.

### Setup and Onboarding

A flow is a form or an await (`pc`) and its local variables.  The identity of
a flow stands for all that is fresh in it: challenge, entry id, synthetic fab.
`cloud` is what either backend lists for the account, fixed in a behaviour; which
household of a list is picked depends on order, so it is any that the rules allow.
`fetch_groupkey` is `AskRaises`, `AskNone` and `AskAnswers`, one backend each.
A browse sees any subset of what is advertised, the listeners of the
integration's own entries included.  `Remove` is the user removing an entry.

`Onboarding` has the flows that have not ended and the ids that are configured, and
three actions: give up, configure an id that is free, remove.  `Setup` implements it
with `open` as the flows that have not ended and `configured` as the entries' ids
with the flow that made each; everything else a flow does is a stutter.

### Addresses

`at` and `group` are where an appliance is and to whom it belongs, `record` what its
mDNS record says of both, which is true when it is announced and stale from then on.  A
setup goes through `phase`: it reads data and options, browses a service at a time
(`Hit`), probes each hit (`found`), merges (`static`, `todo`), and per item of the
worklist passes over it when it has no fab number (`Skip`), or resolves and verifies it,
goes through the dance of requests and enrols it (`enrolled`), or reports it with a
reason (`failed`); a second browse reads the households of those reported (`Sight`,
`sighted`) and refines the reasons (`Refine`).  Between any two awaits an appliance
moves, changes household or announces itself, and the options form is saved.  `been`
and `settled` are history: every household an appliance has belonged to, and which
appliances have kept address and household since the setup began.  `Addresses` says
nothing of the listener (`Household`) or of what an enrolment writes
(`Subscriptions`).  The resolver's cache is filled only by its own answers, and a
resolver lives for one setup.  Where the code skips an item without a fab number, with
a warning and in neither list, the tests want it so (`src/tests/test_mdns_adoption.py:87`).

### Wire and Codec

The variable is the message being handled; each action chooses one, and the
properties relate what the code's operators make of it to an encoder written from the
wire format in the head of `dop2.py`, to the least number of cipher blocks, or to the
same message with less known.  Numbers stay the bytes they are on the wire.  A loop of
the code is a recursive function in `Wire`: of the rounds that are over
(`parse_simple_leaf`), of where it goes on (`parse_dop1_setting_pf_value`).

`_walk_fields` calls itself, so in `Codec` one round of each of its loops (`WalkFields`,
`WalkElements`) is an operator of what the calls it makes return, and `Walk(buf)[n]` has
the results of all calls with at most n others below them.  `ParseStruct` takes `Len(buf)`
for n, which no walk needs: a call begins two bytes or more behind the one that makes it,
and makes none at the end of the bytes.  `Stored` is the dictionary's assignment.  The
constant `Fields` has the fields that occur in a body at any depth, closed under what
is inside of them, and `Depth` a rank for each, so that nothing nests without end.

## The runs

All bounds are constants of the configurations; they are small enough to
exhaust and large enough for the case to happen, as said for each.  A run
checks the properties that relate most to each other; the type invariants and the
plainer invariants of the modules (`LatchClearsContext`, `RegisteredHasState`,
`UnavailableOnlyPastTolerance`, `IdentBudgetIsPolls`, `MissesAreGap`, `RegistersOnce`,
`NoInvention`, `EntriesStay`, `DuplicatesAreSpellings`, `RegionHolds`, `OwnAddressFindsNobody`, and
`TypeOK` everywhere but in `Wire`) are theorems, for every value of the constants,
and have no run of their own.

| Run (cfg) | Module | States | Question |
|---|---|---|---|
| `CoordinatorDishwasher` | `MCCoordinator` | 1.87 M | A pushing dishwasher whose 2/1585 answers, answers garbage or nothing, sleeps, is refused or times out, with failing polls and pushes at every await |
| `CoordinatorLeaves` | `MCCoordinator` | 23 k | A hood, oven or washer on a booting XKM, whose leaves fail in every way |
| `CoordinatorDrift` | `MCCoordinator` | 104 k | Lost, late and reordered pushes against stale poll answers |
| `Household` | `MCHousehold` | 543 k | Two households, of two appliances and of one, every fault |
| `Subscriptions` | `MCSubscriptions` | 1.4 M | Two installations at one appliance, requests lost |
| `SetPower` | `MCSetPower` | 45 k | An on and an off, together or in turn, whose requests end in every way |
| `Provisioning` | `MCProvisioning` | 1.06 M | Three commands on two appliances, interrupted anywhere, answers lost |
| `Setup` | `MCSetup` | 162 k | Two flows beside an earlier entry, by every path, against five accounts |
| `Addresses` | `MCAddresses` | 5.9 M | Two setups while two appliances move or change household, records go stale and the options are saved |
| `Codec` | `MCCodec` | 34 k | Nested, cut and framed bytes, every length of a body, every cached state |
| `UnknownEndsTheWalk` | `MCCodec` | | Violated: a field of an unknown type inside a struct (see [below](#disagreements)) |
| `CoordinatorDoorLingers` | `MCCoordinator` | | Violated: the door after a poll that failed (see [below](#disagreements)) |

### What they show

*CoordinatorDishwasher.*
`DoorIsFromThisPoll`: a poll that goes through leaves no door but one it has read itself,
and a door always agrees with the cached levels.  A poll that fails at `/State` leaves the
old one (`CoordinatorDoorLingers`, [below](#disagreements)).  `ShownIsData`: the shared
`_data` is changed in the middle of a poll, yet between polls the entities show exactly
it.  `MirrorsAppliance`: whatever is lost, late or stale, the coordinator is a `Mirror`:
no merge of pushes and answers shows what the appliance never was, nothing changes on
display behind the entities' back, and a latch is for good. Bounds: one change per field
already gives old and new values; tolerance 1 has a tolerated and an untolerated failure.

*CoordinatorLeaves.*
`IdentKept`: a populated identity is never replaced by a poorer one.
`HoodControlsUnlessExhausted`: a hood lacks its controls only if every setup retry was
used.  `HoursArrive`, `DeadLeafIsLatched`: a statistics leaf that times out is retried
until it answers; a 2/1585 that is never 200 is given up; both need every poll to end,
whatever fails.  Three identity attempts and two setup retries leave room for each to run
out first; `ContextReplies = {"asleep"}` is what makes the leaf dead.  No field changes
here (`MaxVersion = 0`); that is the other runs' business.

*CoordinatorDrift.*
`ReconcilesDrift`: once the appliance rests, the entities come to show what it is and
keep doing so.  Two changes of either of two fields (`MaxVersion = 2`, `Changing`): a
push may carry a value that has been overtaken, arrive behind the push of the newer one,
or overtake a `/State` answer.

*Household.*
`NothingButMdnsLeaks`: wherever a setup fails, never the port, a client, the
update listener or the token task outlive it.  `LeaksOnlyAtBind`: however often a setup
is retried, only the step in which the bind of the port fails leaks anything, and that is
an mDNS record.  `LoadedServes`: a loaded entry has
a client and a coordinator for every enrolled appliance, also after a refused
unload.  `IssueIsCurrent`: the repair issue is that of the latest setup.
`OperationsEnd`: no operation hangs.
Two appliances of one entry are needed for a refresh that fails after another has
succeeded.  Both entries can be loaded only with ports of their own (both config flows
default to the same); that the other entry has the port is then one of the causes that
`"bind"` stands for, so every behaviour on a shared port is among those checked.

*Subscriptions.*
`SweptClean`: behind a sweep nothing stale is left of what it began with, except where
a request was lost.  `RemovedClean`: the same for a removal.  `FreedRightly`: between a GET and its
DELETE the slot may change; still no DELETE frees what its own GET would not have
chosen (this rests on slot numbers not being re-used).  `SoleKeepsReported`: a
lone installation keeps what it reports through its own sweeps and restarts.
One resource, one old slot, four slots against a walk of three and two misses: a
walk reaches its end, gives up at a gap, and is overtaken by a fourth slot beyond
its range.

*SetPower.*
`WithinCeiling`: at most one waited-out request per round and two writes, which
with 10 s timeouts and 3 s sleeps is the 46 s of `api.py:716-722`.
`ExecutedAtMostTwice`: a lost write is followed by the fall-back only.
`AcceptedHolds`: a command nothing overlapped with leaves the appliance as it
asked.  `MaxRounds = 2` is the code's own.

*Provisioning.*
`RoutedEntriesWork`: an entry with a route holds the keys the appliance has, although
a 403 is taken for success and either scheme's answer may be lost.
`PairBeatsCloud`: the order of `pair` keys the appliance before it meets the cloud.
`TakenKeysAreSaved`: a commission that heard of its success saves the keys, also when
it learnt so from a refused second attempt.  `StoredTokenWorks`: without a fault the
stored refresh token is the one the cloud accepts.  Three commands allow a
second commissioning after a reset, or a pair after both; one rotation is one
chance to lose it.  One appliance asks for a TAN, one does not.

*Setup.*
`LocalWins`: a household the LAN does not show is taken only after both backends
were asked and none that answered has one it shows.  `FailureHasCause`: a household kept
aside is not forgotten when the second backend has none.  `CardsAreNewcomers`: no card is
for one of the integration's own listeners or for an appliance its entry knows,
also after removals and additions while it waits.  `OnboardsOnce` is the refinement.
Two flows are what a race takes; the five accounts put the household at home with the
second backend, beside a retired one, without devices, or nowhere.

*Addresses.*
`BestAddressIsUsed`: mDNS before options before data, for each appliance
that is verified.  `EverybodyIsAccountedFor`: whoever is listed with a fab number or answered
is enrolled or reported.  `TheSettledAreNotMistaken`: an appliance that keeps its place
and household is enrolled only there, and once found never reported as the address of
another, though the second one moves to an address the first is sought at.
`BlameFits`: an appliance is called foreign or uncommissioned only if it has been that,
however stale its record, in whatever case.  That it *is* so still cannot be had of a
cached record.  One save and two changes can fall before, within
or between the two setups; two appliances on two free addresses can swap.  `Origins`
starts the listed appliance in the household, which it may leave, and the other anywhere.
One of the entries lists an item without a fab number.

*Codec.*
`BodiesDecode`: up to three flat fields, or two with nested ones; structs and arrays of
structs in each other to two levels.  The theorem has every other body.  `LeavesReadBack`: cut
by 0 to 12 bytes, which reaches into the header; and what the integration writes
itself.  `PaddingIsLeast`: every length to 130, two blocks past the JSON minimum of 64.
`EchoedValueIsRead`: all framings of up to seven digits with ids and values of the digits
0 and 1, so that the id turns up across byte boundaries and in the value.
`UnknownNeverBlocks`: what is sent would be sent with any field of the cached state unknown.

### Fairness

- `Coordinator`: weak fairness of a poll's steps (each await has the client's
  timeout), of the refresh timer and of the setup's steps (the event loop).  Strong
  fairness of the appliance's answer, of a poll's success, of a statistics leaf
  that may answer, and of the passing of each interval: assumptions about
  the network and the clock, without which no polling can promise anything.
  Nothing is assumed of pushes.
- `Household`: weak fairness of each entry's running operation (`Step(e)`), not of
  the events that start one.
- The other modules state safety only; that every command, flow and setup has an end
  to come to shows in the deadlock check.

Deadlock is checked in every run; the states in which a system may rest
(`Discarded`, `AllRemoved`, `AllEnded`) have a stuttering action that says so.

## The proofs

Each `...Proofs` module proves `Spec => []IInv` for a strengthening `IInv` of the
invariants, with one lemma or step per action, and derives the properties from
it.  Assumptions on the constants are the named ASSUMEs of the component's module;
TLC evaluates them in every run.

| Module | Theorems | For every |
|---|---|---|
| `CoordinatorProofs` | `TypeCorrect`, `LatchClears`, `DoorFresh`, `IdentBudget`, `IdentStays`, `Availability`, `ShownBetweenPolls`, `NothingInvented`, `RegisteredComplete`, `HoodControls`, `Mirrors`, `ShowsAreReal` | family, field set, reply sets, bound, set of lossy requests |
| `HouseholdProofs` | `TypeCorrect`, `LeaksAreMdns`, `LeaksFromBind`, `LoadedIsServing`, `IssueCurrent` | set of entries and appliances, assignment of ports, faults |
| `SubscriptionsProofs` | `TypeCorrect`, `SweepCleans`, `MissesConsecutive`, `RemovalCleans`, `SlotsFreedRightly`, `SoleKeeps` | set of installations and resources, number of slots, walk length, miss bound |
| `SetPowerProofs` | `TypeCorrect`, `Ceiling`, `AtMostTwice` | number of commands, rounds, outcomes |
| `ProvisioningProofs` | `TypeCorrect`, `EntriesWithRouteWork`, `PairComesBeforeTheCloud`, `CommissionSavesTakenKeys`, `StoredTokenStaysValid`, `CallbackRegisteredOnce`, `NoEntryDisappears` | set of appliances, of gated ones, number of commands and rotations |
| `SetupProofs` | `TypeCorrect`, `DuplicatesSpelled`, `LocalHouseholdWins`, `GivesUpWithCause`, `RegionIsRight`, `CardsStayRight`, `FlowsOnboard` | set of flows, households, appliances, accounts and earlier entries |
| `AddressesProofs` | `TypeCorrect`, `BestAddress`, `EverybodyAccounted`, `OwnAddress`, `TheSettled`, `BlameIsFair` | set of appliances, addresses, households and spellings, entries, submissions |
| `CodecProofs` | `BodiesAreDecoded`, `LeavesAreReadBack`, `EchoIsRead`, `PaddingIsTheLeast`, `UnknownBlocksNothing` | body whose counts have 16 bits, nested to any depth; leaf of up to 65535 scalars, cut anywhere; framing, id of a setting, value, length of a body |

The inductive invariants, and why the properties alone do not do:

- *Coordinator* (`PhaseInv`, `StateInv`, `IdentInv`, `ContextInv`, `AvailableInv`,
  `ShownInv`, `NoInventionInv`, `HoodInv`).  A property about the latch needs to know
  that a poll suspended in the leaf's read started with the latch off and
  no door; `NoInvention` needs the same of the pushes and the answer in flight;
  `ShownIsData` needs that the first section of a poll changes nothing.  `Mirrors`
  uses all of it: each action, under `IInv`, is an action of `Mirror` or a stutter
  (`StepMirrors`).  `ShowsAreReal` is proved of `Mirror`'s steps alone and carried
  back: every field on display is one the appliance has been at, in the middle of
  a poll too, where `ShownIsData` says nothing.
- *Household* (`EntryInv(e)`: `OperationInv`, `HeldInv`, `IssueInv`, `LeakInv`).  What
  an entry holds at each await.  It speaks of one entry, and a step of another
  leaves it alone; entries meet only in `Bind` and in the services.
- *Subscriptions* (`NextInv`, `WalkInv(i)`).  Slots from `next` on are free, hence an
  appended slot is never one a walk has begun with; a slot behind a walk can only be
  freed.  `SoleKeeps` has an invariant of its own, which follows the lone
  installation from its first POST.
- *SetPower* (`LateInv`, `WaitInv`, `EffectInv`).  How many waits and executions,
  due ones included, a call can have behind it at each place.  `AcceptedHolds` has an
  invariant of its own, `AloneInv`: while nothing has overlapped with a call, only it
  runs and only its requests are due.
- *Provisioning* (`CommandInv`, `TookInv`, `KeyedInv`, `TokenInv`, `RegisterInv`,
  `KeptInv`).  What the running command knows at each step against what the appliance
  has: keys it has sent and not heard of may be in force or not, and only a step
  with a reason to believe so leads to a saved route.
- *Setup* (`LocalInv(f)`, `AskInv(f)`, `EntryInv`, `CardInv(f)`).  What has been asked, heard
  and kept aside between two backends; that a flow of the cloud path spells as
  the cloud does; that a listener's name is fresh.  `FlowsOnboard` shows that each
  action maps to an action of `Onboarding` or a stutter: only `CreateEntry`
  configures, and it claims the id in the same step.
- *Addresses* (`RankInv`, `AccountInv`, `OwnInv`, `SettledInv`, `BlameInv`).  The merged
  addresses against their three sources; every appliance of the worklist is still in it,
  current, enrolled or reported; the excluded address is that of this setup; whom a probe
  or the signed read has found and who has not moved since is still there, and so nobody
  else is (`VerifiedWhereFound`); all that a record, the sweep or a report tells of a
  household has been true.  The model takes it that no two
  appliances share the host name derived from the last eight digits of the fab
  number modulo 2^24.

*Wire* and *Codec* have no state to speak of; their proofs are about what the loops
compute, by induction.  The library's induction theorems take an operator, which none of the
installed provers can instantiate, so `CodecProofs` begins with some of its own that
speak of sets and functions instead: a set of naturals that holds 0 and with each n the
next holds them all (`Induction`), a function defined by one step from its
predecessor has the value that step gives (`RecursionUnique`, `Recursion`), and one
defined by what it has inside, however deep, has the value its definition gives when a rank
falls on the way in (`DeepRecursion`).

- `BodiesAreDecoded`: the bytes of a field are those of its value behind a tag, and the
  encoder and `HoldsUnknown` are what they are defined as (`EncodedValueIs`,
  `HoldsUnknownIs`, by `DeepRecursion` on `Depth`); a round of the walker with n calls
  below it is the body of the loop (`WalkIs`, `RoundByType`).  A field is read if the
  fields inside of it are (`FieldFromInside`), a body if its fields are (`BodyFromFields`),
  an array of structs if its bodies are (`ListFromBodies`); the induction on
  `Depth` ties the three together (`AllFieldsRead`).  Its statement is of any offset
  in any bytes with the encoding there, and of any n above the bytes that are left: only so
  does it serve the calls within.  `BodyToUnknown` is the walk that ends early.
- `LeavesAreReadBack`: the bytes of the first k fields of a leaf are a prefix of it
  (`EncodedFields`), so a cut takes whole fields from its end and then a part of
  one (`CutField`).  A round of the loop on a whole field appends its attribute
  (`Round`, `WholeRounds`), one on a part ends it, and the rest change nothing
  (`StoppedRounds`).
- `EchoIsRead`: every hit of the search before the echo is off the byte boundary
  (`NoHitBefore`), and two digits on from one is never behind the echo itself, since
  an id of four digits that are not all the same cannot begin there
  too (`PfAssumption`; see [below](#disagreements)).  The search is well-founded
  in what is left of the digits (`SearchSteps`).
- `PaddingIsTheLeast` is arithmetic (`BlocksOf`), `UnknownBlocksNothing` a case per field.

Model-checked only: the liveness properties (`HoursArrive`, `DeadLeafIsLatched`,
`ReconcilesDrift`, `OperationsEnd`), since liveness under fairness and ENABLED are beyond
the installed provers.  Every other property of a passing run has a theorem.

<a id="disagreements"></a>
## What the code does otherwise than its documentation says

With a run:

- `UnknownEndsTheWalk`: a field of an unknown type inside a struct, or an array of
  structs, ends only the inner walk; the outer one takes the offset where that stopped
  for the end of the struct and reports fields nobody sent (`dop2.py:154`, `:167`),
  against "stop rather than read the following bytes at a wrong offset" (`:193-194`).
- `CoordinatorDoorLingers` (`DoorIsOfLatestPoll`): a poll that fails at `/State` returns
  before the door is dropped (`coordinator.py:319-334`, `:451`), so the reading of an
  earlier poll stays, against "None if that poll did not read it" (`:87-88`).

In the models, or met while reading, without a run.  In the coordinator and the entry:

- A hood whose `/Ident` heals in the setup retries gets its controls, but no poll
  reads its grades before the forward, and the filter sensors are created only from
  grades already read (`sensor.py:1101`), against `__init__.py:397-399`.
- The quick read stores a 200 without resetting the miss counter
  (`coordinator.py:551`), against "Any 200 resets the counter" (`:445-446`).
- An identity with a device type *or* a protocol version ends the setup retries
  (`coordinator.py:268`), against "already has what the gates need" (`:256-257`).
- A bind that fails, be it a port in use or any other `OSError`, returns with the mDNS
  record registered (`__init__.py:277-283`), against "used by every failure path"
  (`:413`).
- If the last loaded entry is unloaded while another one's setup is under way, the
  services are removed and the other ends loaded without them (`services.py:175`),
  against "once the last config entry has unloaded" (`:174`).  This needs a Home
  Assistant that has a state for an entry being unloaded; before that the unloading
  entry counts itself as loaded and the services stay for ever.
- A 200 of 2/1585 with fewer than 12 bytes, or none, is taken for a reading: it replaces
  the cached levels by nothing and counts as an answer (`coordinator.py:556`,
  `dop2.py:256`).
- A push while 2/1585 is being read publishes the door cleared at `:451`.
- Two empty filter answers latch the leaf but keep earlier grades on display
  (`coordinator.py:596`, against `:571-573`).
- `hours_of_operation_supported` says "answered 200 at least once"
  (`coordinator.py:199`) and is `not _hours_unsupported`.
- Storing a rotated token reloads the household (`__init__.py:441` with `:408`).
- Power commands are not serialised: of two that overlap, an older one that had to
  wake the appliance is retried last and wins.
- A 500 may take almost 10 s to come and does not count in the ceiling of
  `api.py:718`.
- If a firmware appends on a repeated POST, an installation's own slots
  accumulate with each reload; the sweep keeps its own.
- The sweep cannot tell an abandoned installation from a second, living one and
  deletes its slots (`enrollment.py:304-305`).
- The sweep ends at slot 63 and after 16 misses, while slot numbers only grow.
- `coordinator.py:4-5` gives a cadence; each push re-arms the timer (`:678`).

In requests to appliances:

- Removal visits only appliances with a static IP (`__init__.py:490-494`), and slots up to
  63, against "on every appliance" (`:476`).
- A connection dropped in the middle of a write is no timeout and no failed connect,
  and passes every handler of `set_power` (`api.py:758`, mapping at `:420-423`),
  against "a network error ... falls back" (`:713`).
- The search for an echoed PF id goes on two digits behind an unaligned hit
  (`api.py:330`), so an id of one digit repeated can hide itself behind a
  framing that ends in that digit.
- Bytes that end within a nested DOP2 body leave it with the fields read so far, and the
  outer walk goes on; `parse_global_device_context` returns what it has, not
  "an empty dict on any structural error" (`dop2.py:254`).

In the config flow and the cloud client:

- A backend that raises ends the walk with a household kept aside forgotten
  (`cloud.py:432`), against the trial of the others in `cloud.py:154-166`.
- A household without devices may be taken when the first backend answers and the LAN
  shows nothing, or as the one kept aside (`cloud.py:440`, `:455`), against `_pick_household`.
- The cloud's group id becomes the unique id as it is spelled (`config_flow.py:198`),
  the direct path's in upper case (`:298`): two spellings are two entries.
- The household of one of the integration's own listeners counts as shown by the LAN.
- The listener of a former entry or of another installation gets a card as a newcomer;
  a confirmed card only reloads the entry, so it comes back; confirmed after the
  entry was removed it reloads what is not there.

In the addresses of a setup:

- An address cleared in the options comes back from the entry's data
  (`__init__.py:142-145`, against `options_validation.py:31`).
- The resolver's documented order is cache, mDNS, static (`enrollment.py:481`), the
  code's cache, static, mDNS (`:510-516`).
- Two options forms open at once lose the update of one; options saved while
  a setup runs, before its update listener is registered, wait for the next reload.
- An appliance that moves between two probes is adopted twice (`_merge_mdns_adoptions`).
- An appliance that has come back to the household, or joined it, may be reported as
  foreign by its cached mDNS record (`enrollment.py:442`), for as long as that lives.
- A record with only an IPv6 address is turned into text that is no address.

In the provisioning tool (`src/tools/miele_lan_provision.py`):

- A refused second commissioning writes fresh keys over the saved ones (`:289-294`,
  `:330-334`): a 403 is what a commissioned appliance answers to *any* keys, against
  "device already has these keys" (`:290`).
- `pair` drops the keys it has installed when the WLAN is refused (`:418`), against "full
  value will be saved" (`:368`) and "Keys ARE installed though" (`:417`).
- A registration of the callback that succeeded is repeated by the next method when the
  listing that should confirm it is refused (`:510-513`).
- `--enable-only` without keys overwrites the saved ones with new ones.
- Two appliances added under the default endpoint name share its entry.
- Keys are checked for their length only, not for being hexadecimal.
- A run that is interrupted while it writes leaves an empty key file (`write_text`).

## What is not modelled

- Cryptography and signing: `asyncmiele`'s, and pure functions of bytes.
- The push listener's fixed answers (the synthetic peer tree) and the decoding of a
  delivery.  Its start, stop, delivery and padding are modelled.
- The platform entities' `value_fn`s, the named picks from a decoded device context and
  the hob's fixed offsets: pure mappings of one field each.
- The Dop1 request strings: formatting.
- The bodies of the OAuth requests, the layout of the forms, translations,
  diagnostics, enumerations, the country table.
- In `Household`: a forward of the platforms that raises and a setup that is
  cancelled after the bundle was stored; mDNS name conflicts
  (`allow_name_change=True`).
- In `Subscriptions`: firmware whose slot numbers wrap.
- In `Addresses`: the records of the integration's listeners, which the browse skips by
  their type; they answer no probe on port 80.
- The timer as each push re-arms it: `Coordinator` lets it fire between pushes.

## Plan

Done, in this order: `Coordinator` (the integration's core), `Household`,
`Subscriptions`, `SetPower`, `Provisioning`, `Setup` with `Onboarding`, `Addresses`,
each with its proofs, `Codec`, `Mirror` and the proof that `Coordinator` implements it,
`Wire` with its proofs, and the walker of `Codec` proved for every nesting.

Next, most important first:

1. The refresh timer as pushes and polls re-arm it; a subscription that dies.
2. A composition of `Addresses` with `Household`: the failures of a setup beside the
   moves of its appliances.
3. The decoding of a delivery and the slots other peers create in the listener.
