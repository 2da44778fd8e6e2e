--------------------------- MODULE Subscriptions ---------------------------
(***************************************************************************)
(* The subscription table of one appliance, and the Home Assistant         *)
(* installations (or households of one) that enrol with it, sweep it and   *)
(* remove themselves from it: enroll_device and                            *)
(* cleanup_stale_subscriptions (src/custom_components/miele_lan/           *)
(* enrollment.py) and async_remove_entry (__init__.py).                    *)
(*                                                                         *)
(* Every signed request is an await, so two installations interleave       *)
(* between the GET of a slot and its DELETE.  A lost request is one whose  *)
(* answer never came; the appliance may have executed it all the same.     *)
(* Home Assistant may stop at any await and start again.                   *)
(***************************************************************************)
EXTENDS Naturals

CONSTANTS
    Instances,   \* installations, by their own ha_fab
    Static,      \* those whose entry holds a static IP of this appliance
    Resources,   \* PUSH_RESOURCES
    MaxSlots,    \* bound: slots the appliance hands out before it refuses
    FirstSlots,  \* bound: slots in use, or used and freed, at the start
    ScanEnd,     \* the last slot a walk looks at (63)
    MaxMisses,   \* consecutive misses that end a sweep (16)
    Lossy,       \* TRUE if requests may be lost
    Free, Cloud, Former  \* a free slot; the cloud's or a peer appliance's; that
                         \* of an installation which no longer exists

Slots == 1..MaxSlots
Subscriptions == Instances \X Resources

ASSUME SlotsAssumption ==
    /\ MaxSlots \in Nat /\ FirstSlots \in 0..MaxSlots
    /\ ScanEnd \in Nat \ {0} /\ MaxMisses \in Nat \ {0}
    /\ Lossy \in BOOLEAN
ASSUME OwnersAssumption ==
    /\ Free \notin Subscriptions \cup {Cloud, Former}
    /\ Former \notin Subscriptions /\ Cloud \notin Subscriptions \cup {Former}

VARIABLES
    table,       \* the appliance: who each slot calls back
    next,        \* ... and the number it hands out next; never a used one
    shown,       \* ... and the peers it shows (SuperVision Show = true)
    overwrites,  \* a repeated POST keeps its slot; firmwares differ on it
    pc,          \* the await an installation is in, or where it has settled
    toPost,      \* resources still to subscribe to
    ok,          \* EnrolledDevice.subscriptions_ok
    walk         \* its walk over the slots: the slot it is at, the misses in a
                 \* row, the slots it lost a request about, `next` at its start

applianceVars == <<table, next, shown>>
vars == <<table, next, shown, overwrites, pc, toPost, ok, walk>>

Settled == {"new", "off", "failed", "up", "removed"}
Awaits == {"verify", "supervise", "subscribe", "sweepGet", "sweepDelete",
           "hide", "removeGet", "removeDelete"}
Owners == Subscriptions \cup {Free, Cloud, Former}
Walks == [pos : 1..ScanEnd, misses : 0..MaxMisses, lost : SUBSET (1..ScanEnd),
          began : 1..(MaxSlots + 1)]
WalkFrom(n) == [pos |-> 1, misses |-> 0, lost |-> {}, began |-> n]
NoWalk == WalkFrom(1)

TypeOK ==
    /\ table \in [Slots -> Owners]
    /\ next \in 1..(MaxSlots + 1)
    /\ shown \subseteq Instances
    /\ overwrites \in BOOLEAN
    /\ pc \in [Instances -> Settled \cup Awaits]
    /\ toPost \in [Instances -> SUBSET Resources]
    /\ ok \in [Instances -> SUBSET Resources]
    /\ walk \in [Instances -> Walks]

Init ==
    /\ table \in {t \in [Slots -> {Free, Cloud, Former}] :
                    \A n \in Slots : n > FirstSlots => t[n] = Free}
    /\ next = FirstSlots + 1
    /\ shown = {}
    /\ overwrites \in BOOLEAN
    /\ pc = [i \in Instances |-> "new"]
    /\ toPost = [i \in Instances |-> {}]
    /\ ok = [i \in Instances |-> {}]
    /\ walk = [i \in Instances |-> NoWalk]

At(i, await) == pc[i] = await
GoTo(i, await) == pc' = [pc EXCEPT ![i] = await]

SlotsOf(i) == {n \in Slots : table[n] \in {i} \X Resources}
\* A GET of a slot nobody holds, or one beyond the table, is a 404.
Taken(n) == n \in Slots /\ table[n] # Free
FreeSlot(n) == table' = [table EXCEPT ![n] = Free]

-----------------------------------------------------------------------------
(* enroll_device                                                           *)

\* A setup begins: the first one, a reload, or one after a restart.
Enroll(i) ==
    /\ pc[i] \in {"new", "off", "failed", "up"}
    /\ GoTo(i, "verify")
    /\ ok' = [ok EXCEPT ![i] = {}]
    /\ UNCHANGED <<applianceVars, overwrites, toPost, walk>>

\* The signed read of /Devices: without it, or if it does not list the fab, the
\* appliance is a FailedDevice.
Verify(i) ==
    /\ At(i, "verify")
    /\ \/ GoTo(i, "supervise")
       \/ GoTo(i, "failed")
    /\ UNCHANGED <<applianceVars, overwrites, toPost, ok, walk>>

\* PUT SuperVision: accepted, refused by a basic device, or lost.
Supervise(i) ==
    /\ At(i, "supervise")
    /\ shown' \in {shown, shown \cup {i}}
    /\ GoTo(i, "subscribe")
    /\ toPost' = [toPost EXCEPT ![i] = Resources]
    /\ UNCHANGED <<table, next, overwrites, ok, walk>>

\* The appliance takes a POST for a resource.
Append(i, r) ==
    /\ next <= MaxSlots
    /\ table' = [table EXCEPT ![next] = <<i, r>>]
    /\ next' = next + 1

Kept(i, r) == \E n \in Slots : table[n] = <<i, r>>

Accept(i, r) ==
    IF overwrites /\ Kept(i, r) THEN UNCHANGED <<table, next>> ELSE Append(i, r)

ReportAttempted(i, r) == ok' = [ok EXCEPT ![i] = @ \cup {r}]
ReportRefused(i, r) == UNCHANGED ok

Subscribe(i) ==
    /\ At(i, "subscribe")
    /\ \E r \in toPost[i] :
        /\ toPost' = [toPost EXCEPT ![i] = @ \ {r}]
        /\ \/ Accept(i, r) /\ ok' = [ok EXCEPT ![i] = @ \cup {r}]
           \/ UNCHANGED <<table, next>> /\ ReportRefused(i, r)
           \/ Lossy /\ Accept(i, r) /\ ReportRefused(i, r)
    /\ UNCHANGED <<shown, overwrites, pc, walk>>

-----------------------------------------------------------------------------
(* The walks over the slots.                                               *)

Here(i) == walk[i].pos
BeginWalkAtSecond(i) == walk' = [walk EXCEPT ![i] = [WalkFrom(next) EXCEPT !.pos = 2]]
BeginWalk(i) == walk' = [walk EXCEPT ![i] = WalkFrom(next)]

\* On to the next slot with what the walk w knows, or to its end.
Advance(i, w, get, done) ==
    IF Here(i) = ScanEnd
    THEN GoTo(i, done) /\ walk' = [walk EXCEPT ![i] = NoWalk]
    ELSE GoTo(i, get) /\ walk' = [walk EXCEPT ![i] = [w EXCEPT !.pos = @ + 1]]

Losing(i) == [walk[i] EXCEPT !.lost = @ \cup {Here(i)}]

\* Every enrolled appliance is swept once all of them are enrolled.
BeginSweep(i) ==
    /\ At(i, "subscribe") /\ toPost[i] = {}
    /\ GoTo(i, "sweepGet")
    /\ BeginWalk(i)
    /\ UNCHANGED <<applianceVars, overwrites, toPost, ok>>

StaleAll(i, n) == Taken(n) /\ n \notin SlotsOf(i)
\* The callback names the fab of a listener like ours that is not ours.
Stale(i, n) == Taken(n) /\ table[n] # Cloud /\ n \notin SlotsOf(i)

StartOver(w) == [w EXCEPT !.misses = 0]

\* The slot is in use: delete it if it is stale.
SweepFinds(i) ==
    /\ At(i, "sweepGet") /\ Taken(Here(i))
    /\ IF Stale(i, Here(i))
       THEN /\ GoTo(i, "sweepDelete")
            /\ walk' = [walk EXCEPT ![i] = StartOver(@)]
       ELSE Advance(i, StartOver(walk[i]), "sweepGet", "up")
    /\ UNCHANGED <<applianceVars, overwrites, toPost, ok>>

\* A 404, or a lost request; enough of them in a row end the sweep.
SweepMisses(i) ==
    /\ At(i, "sweepGet")
    /\ \E w \in (IF Taken(Here(i)) THEN {} ELSE {walk[i]})
                 \cup (IF Lossy THEN {Losing(i)} ELSE {}) :
          IF w.misses + 1 >= MaxMisses
          THEN GoTo(i, "up") /\ walk' = [walk EXCEPT ![i] = NoWalk]
          ELSE Advance(i, [w EXCEPT !.misses = @ + 1], "sweepGet", "up")
    /\ UNCHANGED <<applianceVars, overwrites, toPost, ok>>

\* The DELETE of the slot, and what it leaves of the walk.
Delete(i, get, done) ==
    \/ FreeSlot(Here(i)) /\ Advance(i, walk[i], get, done)
    \/ Lossy /\ (FreeSlot(Here(i)) \/ UNCHANGED table) /\ Advance(i, Losing(i), get, done)

SweepDeletes(i) ==
    /\ At(i, "sweepDelete")
    /\ Delete(i, "sweepGet", "up")
    /\ UNCHANGED <<next, shown, overwrites, toPost, ok>>

-----------------------------------------------------------------------------
(* async_remove_entry                                                      *)

\* Only the appliances of static_ips are visited.
Remove(i) ==
    /\ pc[i] \in {"off", "failed", "up"}
    /\ GoTo(i, IF i \in Static THEN "hide" ELSE "removed")
    /\ UNCHANGED <<applianceVars, overwrites, toPost, ok, walk>>

Hide(i) ==
    /\ At(i, "hide")
    /\ shown' \in {shown \ {i}} \cup (IF Lossy THEN {shown} ELSE {})
    /\ GoTo(i, "removeGet")
    /\ BeginWalk(i)
    /\ UNCHANGED <<table, next, overwrites, toPost, ok>>

OursButLast(i, n) == n \in SlotsOf(i) /\ \E m \in SlotsOf(i) : n < m
Ours(i, n) == n \in SlotsOf(i)

RemoveGets(i) ==
    /\ At(i, "removeGet")
    /\ \/ /\ Ours(i, Here(i))
          /\ GoTo(i, "removeDelete")
          /\ UNCHANGED walk
       \/ ~Ours(i, Here(i)) /\ Advance(i, walk[i], "removeGet", "removed")
       \/ Lossy /\ Advance(i, Losing(i), "removeGet", "removed")
    /\ UNCHANGED <<applianceVars, overwrites, toPost, ok>>

RemoveDeletes(i) ==
    /\ At(i, "removeDelete")
    /\ Delete(i, "removeGet", "removed")
    /\ UNCHANGED <<next, shown, overwrites, toPost, ok>>

-----------------------------------------------------------------------------
\* Home Assistant stops, in the middle of a removal too: the entry is still
\* there when it starts again.
Stop(i) ==
    /\ pc[i] \in Awaits \cup {"up"}
    /\ GoTo(i, "off")
    /\ toPost' = [toPost EXCEPT ![i] = {}]
    /\ ok' = [ok EXCEPT ![i] = {}]
    /\ walk' = [walk EXCEPT ![i] = NoWalk]
    /\ UNCHANGED <<applianceVars, overwrites>>

Step(i) ==
    \/ Verify(i) \/ Supervise(i) \/ Subscribe(i)
    \/ BeginSweep(i) \/ SweepFinds(i) \/ SweepMisses(i) \/ SweepDeletes(i)
    \/ Hide(i) \/ RemoveGets(i) \/ RemoveDeletes(i)

AllRemoved == (\A i \in Instances : pc[i] = "removed") /\ UNCHANGED vars

Next ==
    \/ \E i \in Instances : Enroll(i) \/ Remove(i) \/ Step(i) \/ Stop(i)
    \/ AllRemoved

Spec == Init /\ [][Next]_vars

-----------------------------------------------------------------------------
(* Properties                                                              *)

\* Behind a sweep nothing stale is left of what it began with, except where a
\* request was lost; what another installation adds meanwhile does not confuse
\* it, and neither does what another one deletes (enrollment.py:280-325).
SweptClean ==
    \A i \in Instances : pc[i] \in {"sweepGet", "sweepDelete"} =>
        \A n \in 1..(Here(i) - 1) :
            n < walk[i].began /\ Stale(i, n) => n \in walk[i].lost

\* A sweep gives up early only at a gap: the slots it counts as misses are
\* consecutive and were free, or their requests lost (enrollment.py:278-297).
MissesAreGap ==
    \A i \in Instances : pc[i] \in {"sweepGet", "sweepDelete"} =>
        /\ walk[i].misses < Here(i)
        /\ \A n \in (Here(i) - walk[i].misses)..(Here(i) - 1) :
              n < walk[i].began /\ Taken(n) => n \in walk[i].lost

\* Behind a removal nothing of the installation is left, however often it has
\* enrolled and been restarted, except where a request was lost
\* (__init__.py:508-531).
RemovedClean ==
    \A i \in Instances : pc[i] \in {"removeGet", "removeDelete"} =>
        \A n \in 1..(Here(i) - 1) : n \in SlotsOf(i) => n \in walk[i].lost

\* The only installation keeps every subscription it reports, through all its
\* reloads, restarts and sweeps (enrollment.py:266-269).
SoleKeepsReported ==
    \A i \in Instances :
        /\ \A j \in Instances \ {i} : pc[j] = "new"
        /\ pc[i] \in {"subscribe", "sweepGet", "sweepDelete", "up"}
        => \A r \in ok[i] : Kept(i, r)

\* A slot is freed by its own installation's removal or by another's sweep; the
\* cloud's and the appliances' never are, whatever happened to the table between
\* the GET of a slot and its DELETE (enrollment.py:266-269).
FreedRightly ==
    [][\A n \in Slots : table[n] # Free /\ table'[n] # table[n] =>
          \E i \in Instances : Here(i) = n /\
             \/ At(i, "sweepDelete") /\ table[n] # Cloud /\ n \notin SlotsOf(i)
             \/ At(i, "removeDelete") /\ n \in SlotsOf(i)]_table

=============================================================================
