------------------------ MODULE SubscriptionsProofs ------------------------
(***************************************************************************)
(* What TLAPS proves of Subscriptions for any number of installations,     *)
(* resources and slots, and every bound on a walk.                         *)
(*                                                                         *)
(* The argument rests on NextInv: the appliance never hands out a slot     *)
(* again.  So a slot an installation has seen taken is, by the time its    *)
(* DELETE arrives, the one it saw or free (SeenInv), and whatever others   *)
(* add while it walks lies beyond `began`, where its walk began.           *)
(***************************************************************************)
EXTENDS Subscriptions, TLAPS

Sweeping == {"sweepGet", "sweepDelete"}
Removing == {"removeGet", "removeDelete"}

(* Slots that have not been handed out are free.                            *)
NextInv == \A n \in Slots : n >= next => table[n] = Free

(* The slot about to be deleted is still one this walk may delete.          *)
SeenInv(i) ==
    /\ pc[i] \in Sweeping => walk[i].began <= next
    /\ pc[i] = "sweepDelete" =>
          /\ Here(i) \in Slots /\ Here(i) < next /\ walk[i].misses = 0
          /\ table[Here(i)] = Free \/ Stale(i, Here(i))
    /\ pc[i] = "removeDelete" =>
          /\ Here(i) \in Slots /\ Here(i) < next
          /\ table[Here(i)] = Free \/ Ours(i, Here(i))

SweptInv(i) ==
    pc[i] \in Sweeping => \A n \in 1..(Here(i) - 1) :
        n < walk[i].began /\ Stale(i, n) => n \in walk[i].lost

GapInv(i) ==
    pc[i] \in Sweeping =>
        /\ walk[i].misses < Here(i)
        /\ \A n \in (Here(i) - walk[i].misses)..(Here(i) - 1) :
              n < walk[i].began /\ Taken(n) => n \in walk[i].lost

RemovedInv(i) ==
    pc[i] \in Removing => \A n \in 1..(Here(i) - 1) :
        n \in SlotsOf(i) => n \in walk[i].lost

WalkInv(i) == SeenInv(i) /\ SweptInv(i) /\ GapInv(i) /\ RemovedInv(i)

IInv == TypeOK /\ NextInv /\ \A i \in Instances : WalkInv(i)

(* What a step may do to the table as far as i is concerned: free slots, and *)
(* hand out new ones to others.                                             *)
TableStep(i) ==
    /\ next' >= next
    /\ \A n \in Slots : \/ table'[n] = table[n] \/ table'[n] = Free
                        \/ n >= next /\ table'[n] \notin {i} \X Resources

Idle(i) == pc'[i] \notin Sweeping \cup Removing

-----------------------------------------------------------------------------
(* Facts about one installation's view of the table.                       *)

\* A slot in use has been handed out.
LEMMA TakenIsOld ==
    ASSUME TypeOK, NextInv, NEW n, Taken(n)
    PROVE  n \in Slots /\ n < next
BY SlotsAssumption DEF TypeOK, NextInv, Taken, Slots

\* What holds of i's walk survives whatever others do to the table.
LEMMA Frame ==
    ASSUME TypeOK, TypeOK', NextInv, NEW i \in Instances, WalkInv(i),
           TableStep(i), pc'[i] = pc[i], walk'[i] = walk[i]
    PROVE  WalkInv(i)'
<1> DEFINE w == walk[i]
<1>0. /\ w \in Walks /\ w.pos \in 1..ScanEnd /\ w.began \in 1..(MaxSlots + 1)
      /\ w.misses \in 0..MaxMisses
      /\ next \in Nat /\ next' \in Nat
      /\ \A n \in Slots : n \in Nat
    BY SlotsAssumption DEF TypeOK, Walks, Slots
<1>1. ASSUME NEW n \in Slots, n < next, Stale(i, n)'
      PROVE  Stale(i, n)
    BY <1>0, <1>1 DEF Stale, Taken, SlotsOf, TableStep
<1>2. ASSUME NEW n \in Slots, n < next, Taken(n)'
      PROVE  Taken(n)
    BY <1>0, <1>2 DEF Taken, TableStep
<1>3. ASSUME NEW n, n \in SlotsOf(i)'
      PROVE  n \in SlotsOf(i)
    BY <1>3, OwnersAssumption DEF SlotsOf, TableStep, Subscriptions
<1>4. ASSUME NEW n, Stale(i, n)'
      PROVE  n \in Slots
    BY <1>4 DEF Stale, Taken
<1>5. ASSUME NEW n, Taken(n)'
      PROVE  n \in Slots
    BY <1>5 DEF Taken
<1>6. next <= next'
    BY <1>0 DEF TableStep
<1>7. SeenInv(i)'
    <2>1. pc[i] \in Sweeping => w.began <= next'
        BY <1>0, <1>6 DEF WalkInv, SeenInv
    <2>2. CASE pc[i] = "sweepDelete"
        <3>1. /\ w.pos \in Slots /\ w.pos < next /\ w.misses = 0
              /\ table[w.pos] = Free \/ Stale(i, w.pos)
            BY <2>2 DEF WalkInv, SeenInv, Here
        <3>2. table'[w.pos] = Free \/ table'[w.pos] = table[w.pos]
            BY <3>1, <1>0 DEF TableStep
        <3>3. table'[w.pos] = Free \/ Stale(i, w.pos)'
            BY <3>1, <3>2 DEF Stale, Taken, SlotsOf
        <3>4. w.pos < next'
            BY <3>1, <1>0, <1>6
        <3> QED
            BY <2>1, <2>2, <3>1, <3>3, <3>4 DEF SeenInv, Here
    <2>3. CASE pc[i] = "removeDelete"
        <3>1. /\ w.pos \in Slots /\ w.pos < next
              /\ table[w.pos] = Free \/ Ours(i, w.pos)
            BY <2>3 DEF WalkInv, SeenInv, Here
        <3>2. table'[w.pos] = Free \/ table'[w.pos] = table[w.pos]
            BY <3>1, <1>0 DEF TableStep
        <3>3. table'[w.pos] = Free \/ Ours(i, w.pos)'
            BY <3>1, <3>2 DEF Ours, SlotsOf
        <3>4. w.pos < next'
            BY <3>1, <1>0, <1>6
        <3> QED
            BY <2>1, <2>3, <3>1, <3>3, <3>4 DEF SeenInv, Here
    <2> QED
        BY <2>1, <2>2, <2>3 DEF SeenInv
<1>8. SweptInv(i)'
    <2> SUFFICES ASSUME pc[i] \in Sweeping, NEW n \in 1..(w.pos - 1),
                        n < w.began, Stale(i, n)'
                 PROVE  n \in w.lost
        BY DEF SweptInv, Here
    <2>1. n \in Slots /\ n < next
        BY <1>0, <1>4 DEF WalkInv, SeenInv
    <2> QED
        BY <1>1, <2>1 DEF WalkInv, SweptInv, Here
<1>9. GapInv(i)'
    <2> SUFFICES ASSUME pc[i] \in Sweeping
                 PROVE  /\ w.misses < w.pos
                        /\ \A n \in (w.pos - w.misses)..(w.pos - 1) :
                              n < w.began /\ Taken(n)' => n \in w.lost
        BY DEF GapInv, Here
    <2>1. w.misses < w.pos
        BY DEF WalkInv, GapInv, Here
    <2>2. ASSUME NEW n \in (w.pos - w.misses)..(w.pos - 1), n < w.began, Taken(n)'
          PROVE  n \in w.lost
        <3>1. n \in Slots /\ n < next
            BY <2>2, <1>0, <1>5 DEF WalkInv, SeenInv
        <3>2. Taken(n)
            BY <2>2, <3>1, <1>2
        <3> QED
            BY <2>2, <3>2 DEF WalkInv, GapInv, Here
    <2> QED
        BY <2>1, <2>2
<1>10. RemovedInv(i)'
    BY <1>3 DEF WalkInv, RemovedInv, Here
<1> QED
    BY <1>7, <1>8, <1>9, <1>10 DEF WalkInv

-----------------------------------------------------------------------------
(* The initial states, types and the table.                                *)

AnyStep(i) == Enroll(i) \/ Remove(i) \/ Step(i) \/ Stop(i)

\* Nobody has begun a walk.
LEMMA InitInv == Init => IInv
<1> SUFFICES ASSUME Init PROVE IInv
    OBVIOUS
<1>1. TypeOK
    BY SlotsAssumption DEF Init, TypeOK, Slots, Owners, Walks, NoWalk, WalkFrom, Settled
<1>2. NextInv
    BY SlotsAssumption DEF Init, NextInv, Slots
<1>3. ASSUME NEW i \in Instances PROVE WalkInv(i)
    BY DEF Init, WalkInv, SeenInv, SweptInv, GapInv, RemovedInv, Sweeping, Removing
<1> QED
    BY <1>1, <1>2, <1>3 DEF IInv

\* A walk that goes on keeps its type.
LEMMA AdvanceType ==
    ASSUME TypeOK, NEW i \in Instances, NEW w \in Walks, w.pos = Here(i),
           NEW get \in Awaits, NEW done \in Settled, Advance(i, w, get, done)
    PROVE  /\ pc' \in [Instances -> Settled \cup Awaits]
           /\ walk' \in [Instances -> Walks]
<1>1. pc' \in [Instances -> Settled \cup Awaits]
    BY DEF Advance, GoTo, TypeOK
<1>2. NoWalk \in Walks
    BY SlotsAssumption DEF NoWalk, WalkFrom, Walks
<1>3. Here(i) # ScanEnd => [w EXCEPT !.pos = @ + 1] \in Walks
    BY SlotsAssumption DEF Walks
<1> QED
    BY <1>1, <1>2, <1>3 DEF Advance, TypeOK

\* A walk that has lost a request about its slot keeps its type.
LEMMA LosingType ==
    ASSUME TypeOK, NEW i \in Instances
    PROVE  /\ walk[i] \in Walks /\ Losing(i) \in Walks
           /\ Here(i) \in 1..ScanEnd /\ Losing(i).pos = Here(i)
           /\ Losing(i).misses = walk[i].misses /\ Losing(i).began = walk[i].began
           /\ Losing(i).lost = walk[i].lost \cup {Here(i)}
BY DEF TypeOK, Losing, Walks, Here

\* A slot that is freed keeps the table's type.
LEMMA FreeType ==
    ASSUME TypeOK, NEW n, FreeSlot(n) \/ UNCHANGED table
    PROVE  table' \in [Slots -> Owners]
BY DEF TypeOK, FreeSlot, Owners

\* Every action keeps the types.
LEMMA TypeStep ==
    ASSUME TypeOK, [Next]_vars
    PROVE  TypeOK'
<1>1. CASE UNCHANGED vars
    BY <1>1 DEF TypeOK, vars
<1>2. ASSUME NEW i \in Instances, AnyStep(i)
      PROVE  TypeOK'
    <2> USE DEF applianceVars
    <2>0. NoWalk \in Walks /\ WalkFrom(next) \in Walks
        BY SlotsAssumption DEF NoWalk, WalkFrom, Walks, TypeOK
    <2>1. CASE Enroll(i)
        BY <2>1 DEF Enroll, GoTo, TypeOK, Awaits
    <2>2. CASE Remove(i)
        BY <2>2 DEF Remove, GoTo, TypeOK, Awaits, Settled
    <2>3. CASE Stop(i)
        BY <2>3, <2>0 DEF Stop, GoTo, TypeOK, Awaits, Settled
    <2>4. CASE Verify(i)
        BY <2>4 DEF Verify, GoTo, TypeOK, Awaits, Settled
    <2>5. CASE Supervise(i)
        BY <2>5 DEF Supervise, GoTo, TypeOK, Awaits
    <2>6. CASE Subscribe(i)
        <3>1. PICK r \in toPost[i] :
                  /\ toPost' = [toPost EXCEPT ![i] = @ \ {r}]
                  /\ ok' = [ok EXCEPT ![i] = @ \cup {r}] \/ UNCHANGED ok
                  /\ Accept(i, r) \/ UNCHANGED <<table, next>>
            BY <2>6 DEF Subscribe, ReportRefused
        <3>2. r \in Resources
            BY <3>1 DEF TypeOK
        <3>3. toPost' \in [Instances -> SUBSET Resources]
              /\ ok' \in [Instances -> SUBSET Resources]
            BY <3>1, <3>2 DEF TypeOK
        <3>4. CASE Append(i, r)
            <4>1. <<i, r>> \in Owners
                BY <3>2 DEF Owners, Subscriptions
            <4>2. table' \in [Slots -> Owners]
                BY <3>4, <4>1 DEF Append, TypeOK
            <4>3. next' \in 1..(MaxSlots + 1)
                BY <3>4, SlotsAssumption DEF Append, TypeOK
            <4> QED
                BY <2>6, <3>3, <4>2, <4>3 DEF Subscribe, TypeOK
        <3>5. CASE UNCHANGED <<table, next>>
            BY <2>6, <3>3, <3>5 DEF Subscribe, TypeOK
        <3> QED
            BY <3>1, <3>4, <3>5 DEF Accept
    <2>7. CASE BeginSweep(i)
        BY <2>7, <2>0 DEF BeginSweep, BeginWalk, GoTo, TypeOK, Awaits
    <2>8. CASE SweepFinds(i)
        <3>1. StartOver(walk[i]) \in Walks /\ StartOver(walk[i]).pos = Here(i)
            BY SlotsAssumption DEF TypeOK, StartOver, Walks, Here
        <3>2. CASE Advance(i, StartOver(walk[i]), "sweepGet", "up")
            BY <2>8, <3>1, <3>2, AdvanceType DEF SweepFinds, TypeOK, Awaits, Settled
        <3>3. CASE /\ GoTo(i, "sweepDelete")
                   /\ walk' = [walk EXCEPT ![i] = StartOver(@)]
            BY <2>8, <3>1, <3>3 DEF SweepFinds, GoTo, TypeOK, Awaits
        <3> QED
            BY <2>8, <3>2, <3>3 DEF SweepFinds
    <2>9. CASE SweepMisses(i)
        <3>1. PICK w \in {walk[i], Losing(i)} :
                  IF w.misses + 1 >= MaxMisses
                  THEN GoTo(i, "up") /\ walk' = [walk EXCEPT ![i] = NoWalk]
                  ELSE Advance(i, [w EXCEPT !.misses = @ + 1], "sweepGet", "up")
            BY <2>9 DEF SweepMisses
        <3>2. w \in Walks /\ w.pos = Here(i)
            BY <3>1, LosingType DEF Here
        <3>3. CASE w.misses + 1 >= MaxMisses
            BY <2>9, <3>1, <3>3, <2>0 DEF SweepMisses, GoTo, TypeOK, Settled
        <3>4. CASE ~(w.misses + 1 >= MaxMisses)
            <4>1. /\ [w EXCEPT !.misses = @ + 1] \in Walks
                  /\ [w EXCEPT !.misses = @ + 1].pos = Here(i)
                BY <3>2, <3>4, SlotsAssumption DEF Walks
            <4> QED
                BY <2>9, <3>1, <3>4, <4>1, AdvanceType DEF SweepMisses, TypeOK, Awaits, Settled
        <3> QED
            BY <3>3, <3>4
    <2>10. CASE SweepDeletes(i)
        BY <2>10, LosingType, AdvanceType, FreeType
           DEF SweepDeletes, Delete, Here, TypeOK, Awaits, Settled
    <2>11. CASE Hide(i)
        BY <2>11, <2>0 DEF Hide, BeginWalk, GoTo, TypeOK, Awaits
    <2>12. CASE RemoveGets(i)
        <3>1. CASE GoTo(i, "removeDelete") /\ UNCHANGED walk
            BY <2>12, <3>1 DEF RemoveGets, GoTo, TypeOK, Awaits
        <3> QED
            BY <2>12, <3>1, LosingType, AdvanceType
               DEF RemoveGets, Here, TypeOK, Awaits, Settled
    <2>13. CASE RemoveDeletes(i)
        BY <2>13, LosingType, AdvanceType, FreeType
           DEF RemoveDeletes, Delete, Here, TypeOK, Awaits, Settled
    <2> QED
        BY <1>2, <2>1, <2>2, <2>3, <2>4, <2>5, <2>6, <2>7, <2>8, <2>9, <2>10,
           <2>11, <2>12, <2>13 DEF AnyStep, Step
<1> QED
    BY <1>1, <1>2 DEF Next, AllRemoved, AnyStep

-----------------------------------------------------------------------------
(* What a step does to the table.                                          *)

\* A step of j frees slots and appends at most one slot, which is j's.
LEMMA TableEffect ==
    ASSUME TypeOK, NEW j \in Instances, AnyStep(j)
    PROVE  /\ next' >= next
           /\ \A n \in Slots : \/ table'[n] = table[n] \/ table'[n] = Free
                              \/ /\ pc[j] = "subscribe"
                                 /\ n = next /\ next' = next + 1
                                 /\ table'[n] \in {j} \X Resources
<1> USE DEF applianceVars
<1>0. next \in Nat
    BY SlotsAssumption DEF TypeOK
<1>1. CASE UNCHANGED <<table, next>>
    BY <1>0, <1>1
<1>2. CASE Subscribe(j)
    <2>1. PICK r \in toPost[j] : Accept(j, r) \/ UNCHANGED <<table, next>>
        BY <1>2 DEF Subscribe
    <2>2. CASE Append(j, r)
        <3>1. <<j, r>> \in {j} \X Resources
            BY DEF TypeOK
        <3> QED
            BY <1>0, <1>2, <2>2, <3>1 DEF Append, Subscribe, At, TypeOK
    <2> QED
        BY <1>1, <2>1, <2>2 DEF Accept
<1>3. CASE SweepDeletes(j) \/ RemoveDeletes(j)
    BY <1>0, <1>3 DEF SweepDeletes, RemoveDeletes, Delete, FreeSlot, TypeOK
<1> QED
    BY <1>1, <1>2, <1>3
       DEF AnyStep, Step, Enroll, Remove, Stop, Verify, Supervise, BeginSweep,
           SweepFinds, SweepMisses, Hide, RemoveGets

\* The slot appended is the next one, so those beyond stay free.
LEMMA NextStep ==
    ASSUME TypeOK, TypeOK', NextInv, NEW j \in Instances, AnyStep(j)
    PROVE  NextInv'
<1> SUFFICES ASSUME NEW n \in Slots, n >= next' PROVE table'[n] = Free
    BY DEF NextInv
<1>1. next \in Nat /\ next' \in Nat /\ n \in Nat /\ next' >= next
    BY TableEffect, SlotsAssumption DEF TypeOK, Slots
<1>2. table[n] = Free /\ ~(n = next /\ next' = next + 1)
    BY <1>1 DEF NextInv
<1> QED
    BY <1>2, TableEffect

\* For an installation that is not subscribing, no step adds a slot of its own.
LEMMA TableSteps ==
    ASSUME TypeOK, NEW i \in Instances, NEW j \in Instances, AnyStep(j),
           i # j \/ pc[i] # "subscribe"
    PROVE  TableStep(i)
<1>1. next \in Nat
    BY SlotsAssumption DEF TypeOK
<1>2. ASSUME NEW n \in Slots, table'[n] \in {j} \X Resources, i # j
      PROVE  table'[n] \notin {i} \X Resources
    BY <1>2
<1> QED
    BY <1>1, <1>2, TableEffect DEF TableStep

\* A step of j leaves the walk of every other installation alone.
LEMMA OthersStand ==
    ASSUME TypeOK, NEW i \in Instances, NEW j \in Instances, AnyStep(j), i # j
    PROVE  pc'[i] = pc[i] /\ walk'[i] = walk[i] /\ ok'[i] = ok[i]
BY DEF TypeOK, AnyStep, Step, Enroll, Remove, Stop, Verify, Supervise, Subscribe,
       ReportRefused, BeginSweep, SweepFinds, SweepMisses, SweepDeletes, Hide,
       RemoveGets, RemoveDeletes, Delete, Advance, BeginWalk, GoTo

-----------------------------------------------------------------------------
(* The walks.                                                              *)

\* A sweep goes on: what it has just passed is clean or was lost.
LEMMA SweepGoesOn ==
    ASSUME TypeOK, TypeOK', NextInv, NEW i \in Instances, WalkInv(i),
           pc[i] \in Sweeping, TableStep(i),
           NEW w \in Walks, w.pos = Here(i), w.began = walk[i].began,
           walk[i].lost \subseteq w.lost, Advance(i, w, "sweepGet", "up"),
           Stale(i, w.pos)' => w.pos \in w.lost,
           w.misses <= w.pos,
           \A n \in (w.pos + 1 - w.misses)..w.pos :
              n < w.began /\ Taken(n)' => n \in w.lost
    PROVE  WalkInv(i)'
<1> DEFINE v == [w EXCEPT !.pos = @ + 1]
<1>0. /\ w.pos \in 1..ScanEnd /\ w.began \in 1..(MaxSlots + 1)
      /\ w.misses \in 0..MaxMisses /\ next \in Nat /\ next' \in Nat
      /\ next' >= next /\ \A n \in Slots : n \in Nat
    BY SlotsAssumption DEF TypeOK, Walks, Slots, TableStep
<1>1. CASE Here(i) = ScanEnd
    BY <1>1 DEF Advance, GoTo, TypeOK, WalkInv, SeenInv, SweptInv, GapInv,
                RemovedInv, Sweeping, Removing
<1>2. CASE Here(i) # ScanEnd
    <2>1. pc'[i] = "sweepGet" /\ walk'[i] = v
        BY <1>2 DEF Advance, GoTo, TypeOK
    <2>2. /\ v.pos = w.pos + 1 /\ v.misses = w.misses
          /\ v.lost = w.lost /\ v.began = w.began
        BY DEF Walks
    <2>3. w.began <= next
        BY DEF WalkInv, SeenInv
    <2>4. SeenInv(i)'
        BY <2>1, <2>2, <2>3, <1>0 DEF SeenInv, Removing
    <2>5. ASSUME NEW n \in 1..w.pos, n < w.began, Stale(i, n)'
          PROVE  n \in w.lost
        <3>1. CASE n = w.pos
            BY <2>5, <3>1
        <3>2. CASE n # w.pos
            <4>1. n \in Slots /\ n < next /\ n \in 1..(Here(i) - 1)
                BY <1>0, <2>3, <2>5, <3>2 DEF Stale, Taken
            <4>2. Stale(i, n)
                BY <1>0, <2>5, <4>1 DEF Stale, Taken, SlotsOf, TableStep
            <4> QED
                BY <2>5, <4>1, <4>2 DEF WalkInv, SweptInv
        <3> QED
            BY <3>1, <3>2
    <2>6. SweptInv(i)'
        BY <2>1, <2>2, <2>5, <1>0 DEF SweptInv, Here
    <2>7. GapInv(i)'
        BY <2>1, <2>2, <1>0 DEF GapInv, Here
    <2>8. RemovedInv(i)'
        BY <2>1 DEF RemovedInv, Removing
    <2> QED
        BY <2>4, <2>6, <2>7, <2>8 DEF WalkInv
<1> QED
    BY <1>1, <1>2

\* So does a removal.
LEMMA RemovalGoesOn ==
    ASSUME TypeOK, TypeOK', NextInv, NEW i \in Instances, WalkInv(i),
           pc[i] \in Removing, TableStep(i),
           NEW w \in Walks, w.pos = Here(i), walk[i].lost \subseteq w.lost,
           Advance(i, w, "removeGet", "removed"),
           w.pos \in SlotsOf(i)' => w.pos \in w.lost
    PROVE  WalkInv(i)'
<1> DEFINE v == [w EXCEPT !.pos = @ + 1]
<1>0. w.pos \in 1..ScanEnd
    BY DEF Walks
<1>1. CASE Here(i) = ScanEnd
    BY <1>1 DEF Advance, GoTo, TypeOK, WalkInv, SeenInv, SweptInv, GapInv,
                RemovedInv, Sweeping, Removing
<1>2. CASE Here(i) # ScanEnd
    <2>1. pc'[i] = "removeGet" /\ walk'[i] = v
        BY <1>2 DEF Advance, GoTo, TypeOK
    <2>2. v.pos = w.pos + 1 /\ v.lost = w.lost
        BY DEF Walks
    <2>3. ASSUME NEW n \in 1..w.pos, n \in SlotsOf(i)'
          PROVE  n \in w.lost
        <3>1. CASE n = w.pos
            BY <2>3, <3>1
        <3>2. CASE n # w.pos
            <4>1. n \in SlotsOf(i)
                BY <2>3, OwnersAssumption DEF SlotsOf, TableStep, Subscriptions
            <4>2. n \in 1..(Here(i) - 1)
                BY <1>0, <2>3, <3>2
            <4> QED
                BY <4>1, <4>2 DEF WalkInv, RemovedInv
        <3> QED
            BY <3>1, <3>2
    <2>4. RemovedInv(i)'
        BY <2>1, <2>2, <2>3, <1>0 DEF RemovedInv, Here
    <2> QED
        BY <2>1, <2>4 DEF WalkInv, SeenInv, SweptInv, GapInv, Sweeping
<1> QED
    BY <1>1, <1>2

\* Finding a slot in use resets the misses and nothing else.
LEMMA StartOverType ==
    ASSUME TypeOK, NEW i \in Instances
    PROVE  /\ StartOver(walk[i]) \in Walks
           /\ StartOver(walk[i]).pos = walk[i].pos
           /\ StartOver(walk[i]).misses = 0
           /\ StartOver(walk[i]).began = walk[i].began
           /\ StartOver(walk[i]).lost = walk[i].lost
BY SlotsAssumption DEF TypeOK, StartOver, Walks

\* Each action of an installation keeps its own walk sound.
LEMMA OwnStep ==
    ASSUME TypeOK, TypeOK', NextInv, NEW i \in Instances, WalkInv(i), AnyStep(i)
    PROVE  WalkInv(i)'
<1> USE DEF applianceVars
<1>p. PICK p \in 1..ScanEnd : p = walk[i].pos
    BY DEF TypeOK, Walks
<1>0. /\ walk[i] \in Walks /\ Losing(i) \in Walks /\ p \in 1..ScanEnd /\ Here(i) = p
      /\ walk[i].misses \in 0..MaxMisses /\ next \in Nat
      /\ Losing(i).pos = p /\ Losing(i).misses = walk[i].misses
      /\ Losing(i).began = walk[i].began /\ Losing(i).lost = walk[i].lost \cup {p}
    BY <1>p, LosingType, SlotsAssumption DEF Here, Walks, TypeOK
<1>a. \A w \in {walk[i], Losing(i)} :
         /\ w \in Walks /\ w.pos = p /\ w.misses = walk[i].misses
         /\ w.began = walk[i].began /\ walk[i].lost \subseteq w.lost
    <2>1. walk[i].pos = p /\ walk[i].lost \subseteq Losing(i).lost
        BY <1>p, <1>0
    <2> QED
        BY <2>1, <1>0
<1>1. CASE pc'[i] \notin Sweeping \cup Removing
    BY <1>1 DEF WalkInv, SeenInv, SweptInv, GapInv, RemovedInv, Sweeping, Removing
<1>2. CASE Enroll(i) \/ Remove(i) \/ Stop(i) \/ Verify(i) \/ Supervise(i)
    BY <1>1, <1>2 DEF Enroll, Remove, Stop, Verify, Supervise, GoTo, TypeOK,
                      Sweeping, Removing
<1>3. CASE Subscribe(i)
    BY <1>1, <1>3 DEF Subscribe, At, Sweeping, Removing
<1>4. CASE BeginSweep(i) \/ Hide(i)
    <2>1. walk'[i] = WalkFrom(next) /\ pc'[i] \in {"sweepGet", "removeGet"}
          /\ next' = next
        BY <1>4 DEF BeginSweep, Hide, BeginWalk, GoTo, TypeOK
    <2>2. /\ walk'[i].pos = 1 /\ walk'[i].misses = 0 /\ walk'[i].began = next
        BY <2>1 DEF WalkFrom
    <2> QED
        BY <1>0, <2>1, <2>2 DEF WalkInv, SeenInv, SweptInv, GapInv, RemovedInv, Here
<1>5. CASE SweepFinds(i)
    <2>0. /\ StartOver(walk[i]) \in Walks /\ StartOver(walk[i]).pos = p
          /\ StartOver(walk[i]).misses = 0
          /\ StartOver(walk[i]).began = walk[i].began
          /\ StartOver(walk[i]).lost = walk[i].lost
        BY <1>p, StartOverType
    <2>w. PICK w \in Walks : w = StartOver(walk[i])
        BY <2>0
    <2>1. /\ w = StartOver(walk[i]) /\ w.pos = p /\ w.misses = 0
          /\ w.began = walk[i].began /\ w.lost = walk[i].lost
        BY <2>w, <2>0
    <2>2. p \in Slots /\ p < next
        BY <1>0, <1>5, TakenIsOld DEF SweepFinds
    <2>3. pc[i] \in Sweeping /\ pc[i] \notin Removing /\ UNCHANGED <<table, next>>
        BY <1>5 DEF SweepFinds, At, Sweeping, Removing
    <2>4. CASE Stale(i, p)
        <3>1. pc'[i] = "sweepDelete" /\ walk'[i] = w
            BY <1>0, <1>5, <2>1, <2>4 DEF SweepFinds, GoTo, TypeOK
        <3>2. ASSUME NEW n PROVE Stale(i, n)' <=> Stale(i, n)
            BY <2>3 DEF Stale, Taken, SlotsOf
        <3>3. SeenInv(i)'
            BY <2>1, <2>2, <2>3, <2>4, <3>1, <3>2 DEF WalkInv, SeenInv, Here
        <3>4. SweptInv(i)'
            BY <1>0, <2>1, <2>3, <3>1, <3>2 DEF WalkInv, SweptInv, Here
        <3>5. GapInv(i)' /\ RemovedInv(i)'
            BY <1>0, <2>1, <3>1 DEF GapInv, RemovedInv, Removing, Here
        <3> QED
            BY <3>3, <3>4, <3>5 DEF WalkInv
    <2>5. CASE ~Stale(i, p)
        <3>1. Advance(i, w, "sweepGet", "up")
            BY <1>0, <1>5, <2>1, <2>5 DEF SweepFinds
        <3>2. TableStep(i)
            BY <2>3, <1>0 DEF TableStep
        <3>3. ~Stale(i, w.pos)'
            BY <2>1, <2>3, <2>5 DEF Stale, Taken, SlotsOf
        <3> QED
            BY <2>1, <2>3, <3>1, <3>2, <3>3, <1>0, SweepGoesOn
    <2> QED
        BY <2>4, <2>5
<1>6. CASE SweepMisses(i)
    <2>1. PICK u \in {walk[i], Losing(i)} :
              /\ u = walk[i] => ~Taken(p) \/ u = Losing(i)
              /\ IF u.misses + 1 >= MaxMisses
                 THEN GoTo(i, "up") /\ walk' = [walk EXCEPT ![i] = NoWalk]
                 ELSE Advance(i, [u EXCEPT !.misses = @ + 1], "sweepGet", "up")
        BY <1>0, <1>6 DEF SweepMisses
    <2>2. pc[i] \in Sweeping /\ UNCHANGED <<table, next>>
        BY <1>6 DEF SweepMisses, At, Sweeping
    <2>3. CASE u.misses + 1 >= MaxMisses
        BY <1>1, <2>1, <2>3 DEF GoTo, TypeOK, Sweeping, Removing
    <2>4. CASE ~(u.misses + 1 >= MaxMisses)
        <3>w. PICK w \in Walks : w = [u EXCEPT !.misses = @ + 1]
            BY <1>0, <2>1, <2>4, SlotsAssumption DEF Walks
        <3>1. /\ w.pos = p /\ w.misses = walk[i].misses + 1
              /\ w.began = walk[i].began /\ walk[i].lost \subseteq w.lost
              /\ Taken(p) => p \in w.lost
              /\ Advance(i, w, "sweepGet", "up")
            <4>1. w.pos = u.pos /\ w.misses = u.misses + 1 /\ w.began = u.began
                  /\ w.lost = u.lost
                BY <3>w, <1>a DEF Walks
            <4>2. Taken(p) => p \in w.lost
                BY <4>1, <1>0, <2>1
            <4> QED
                BY <3>w, <4>1, <4>2, <1>a, <2>1, <2>4
        <3>2. TableStep(i)
            BY <2>2, <1>0 DEF TableStep
        <3>3. ASSUME NEW n PROVE Taken(n)' <=> Taken(n)
            BY <2>2 DEF Taken
        <3>4. Stale(i, w.pos)' => w.pos \in w.lost
            BY <3>1, <3>3 DEF Stale
        <3>5. w.misses <= w.pos
            BY <1>0, <2>2, <3>1 DEF WalkInv, GapInv
        <3>6. \A n \in (w.pos + 1 - w.misses)..w.pos :
                 n < w.began /\ Taken(n)' => n \in w.lost
            <4> SUFFICES ASSUME NEW n \in (w.pos + 1 - w.misses)..w.pos,
                                n < w.began, Taken(n)
                         PROVE  n \in w.lost
                BY <3>3
            <4>1. CASE n = p
                BY <3>1, <4>1
            <4>2. CASE n # p
                <5>0. ASSUME NEW m \in Nat, NEW q \in Nat,
                             n \in (q + 1 - (m + 1))..q, n # q
                      PROVE  n \in (q - m)..(q - 1)
                    BY <5>0
                <5>1. n \in (p - walk[i].misses)..(p - 1)
                    BY <1>0, <3>1, <4>2, <5>0
                <5> QED
                    BY <1>0, <2>2, <3>1, <5>1 DEF WalkInv, GapInv
            <4> QED
                BY <4>1, <4>2
        <3> QED
            BY <1>0, <2>2, <3>1, <3>2, <3>4, <3>5, <3>6, SweepGoesOn
    <2> QED
        BY <2>3, <2>4
<1>7. CASE SweepDeletes(i)
    <2>1. pc[i] = "sweepDelete" /\ pc[i] \in Sweeping /\ next' = next
        BY <1>7 DEF SweepDeletes, At, Sweeping
    <2>2. PICK w \in {walk[i], Losing(i)} :
              /\ w = walk[i] => FreeSlot(p) \/ w = Losing(i)
              /\ Advance(i, w, "sweepGet", "up")
        BY <1>0, <1>7 DEF SweepDeletes, Delete
    <2>3. walk[i].misses = 0 /\ p \in Slots
        BY <1>0, <2>1 DEF WalkInv, SeenInv
    <2>4. w \in Walks /\ w.pos = p /\ w.misses = 0 /\ w.began = walk[i].began
          /\ walk[i].lost \subseteq w.lost
        BY <1>a, <2>2, <2>3
    <2>5. TableStep(i)
        BY <1>7, <2>1, TableSteps DEF AnyStep, Step
    <2>6. Stale(i, w.pos)' => w.pos \in w.lost
        <3>1. FreeSlot(p) => ~Taken(p)'
            BY <2>3 DEF FreeSlot, Taken, TypeOK
        <3> QED
            BY <1>0, <2>2, <2>4, <3>1 DEF Stale
    <2> QED
        BY <1>0, <2>1, <2>2, <2>4, <2>5, <2>6, SweepGoesOn
<1>8. CASE RemoveGets(i)
    <2>1. pc[i] = "removeGet" /\ pc[i] \in Removing /\ pc[i] \notin Sweeping
          /\ UNCHANGED <<table, next>>
        BY <1>8 DEF RemoveGets, At, Removing, Sweeping
    <2>2. TableStep(i)
        BY <1>0, <2>1 DEF TableStep
    <2>3. CASE Ours(i, p) /\ GoTo(i, "removeDelete") /\ UNCHANGED walk
        <3>1. pc'[i] = "removeDelete" /\ walk'[i] = walk[i]
            BY <2>3 DEF GoTo, TypeOK
        <3>2. p \in Slots /\ p < next
            BY <2>3, TakenIsOld, OwnersAssumption DEF Ours, SlotsOf, Taken, Subscriptions
        <3>3. SeenInv(i)'
            BY <1>0, <2>1, <2>3, <3>1, <3>2 DEF SeenInv, Here, Ours, SlotsOf, Sweeping
        <3>4. RemovedInv(i)'
            BY <2>1, <3>1 DEF WalkInv, RemovedInv, Here, SlotsOf
        <3>5. SweptInv(i)' /\ GapInv(i)'
            BY <3>1 DEF SweptInv, GapInv, Sweeping
        <3> QED
            BY <3>3, <3>4, <3>5 DEF WalkInv
    <2>4. ASSUME NEW w \in {walk[i], Losing(i)}, Advance(i, w, "removeGet", "removed"),
                 p \in SlotsOf(i) => w = Losing(i)
          PROVE  WalkInv(i)'
        <3>1. w \in Walks /\ w.pos = p /\ walk[i].lost \subseteq w.lost
            BY <1>a
        <3>2. w.pos \in SlotsOf(i)' => w.pos \in w.lost
            BY <1>0, <2>1, <2>4, <3>1 DEF SlotsOf
        <3> QED
            BY <1>0, <2>1, <2>2, <2>4, <3>1, <3>2, RemovalGoesOn
    <2> QED
        BY <1>0, <1>8, <2>3, <2>4 DEF RemoveGets, Ours
<1>9. CASE RemoveDeletes(i)
    <2>1. pc[i] = "removeDelete" /\ pc[i] \in Removing
        BY <1>9 DEF RemoveDeletes, At, Removing
    <2>2. PICK w \in {walk[i], Losing(i)} :
              /\ w = walk[i] => FreeSlot(p) \/ w = Losing(i)
              /\ Advance(i, w, "removeGet", "removed")
        BY <1>0, <1>9 DEF RemoveDeletes, Delete
    <2>3. p \in Slots
        BY <1>0, <2>1 DEF WalkInv, SeenInv
    <2>4. w \in Walks /\ w.pos = p /\ walk[i].lost \subseteq w.lost
        BY <1>a, <2>2
    <2>5. TableStep(i)
        BY <1>9, <2>1, TableSteps DEF AnyStep, Step
    <2>6. w.pos \in SlotsOf(i)' => w.pos \in w.lost
        <3>1. FreeSlot(p) => p \notin SlotsOf(i)'
            BY <2>3, OwnersAssumption DEF FreeSlot, SlotsOf, TypeOK, Subscriptions
        <3> QED
            BY <1>0, <2>2, <2>4, <3>1
    <2> QED
        BY <1>0, <2>1, <2>2, <2>4, <2>5, <2>6, RemovalGoesOn
<1> QED
    BY <1>2, <1>3, <1>4, <1>5, <1>6, <1>7, <1>8, <1>9 DEF AnyStep, Step

-----------------------------------------------------------------------------
(* The theorems.                                                           *)

\* The invariant is inductive: every action of every installation keeps it.
LEMMA IInvStep == IInv /\ [Next]_vars => IInv'
<1> SUFFICES ASSUME IInv, [Next]_vars PROVE IInv'
    OBVIOUS
<1>0. TypeOK /\ TypeOK' /\ NextInv /\ \A i \in Instances : WalkInv(i)
    BY TypeStep DEF IInv
<1>1. CASE UNCHANGED vars
    BY <1>0, <1>1 DEF IInv, vars, NextInv, WalkInv, SeenInv, SweptInv, GapInv,
                      RemovedInv, Here, Stale, Ours, Taken, SlotsOf
<1>2. ASSUME NEW j \in Instances, AnyStep(j)
      PROVE  IInv'
    <2>1. NextInv'
        BY <1>0, <1>2, NextStep
    <2>2. ASSUME NEW i \in Instances
          PROVE  WalkInv(i)'
        <3>1. CASE i = j
            BY <1>0, <1>2, <3>1, OwnStep
        <3>2. CASE i # j
            BY <1>0, <1>2, <3>2, TableSteps, OthersStand, Frame
        <3> QED
            BY <3>1, <3>2
    <2> QED
        BY <1>0, <2>1, <2>2 DEF IInv
<1> QED
    BY <1>1, <1>2 DEF Next, AllRemoved, AnyStep

\* What each walk has passed is clean or was lost, in every reachable state.
THEOREM Invariance == Spec => []IInv
BY InitInv, IInvStep, PTL DEF Spec

\* Every variable keeps its type, whatever the bounds.
THEOREM TypeCorrect == Spec => []TypeOK
<1>1. IInv => TypeOK
    BY DEF IInv
<1> QED
    BY <1>1, Invariance, PTL

\* A sweep leaves nothing stale of what it began with behind it, except where a
\* request was lost.
THEOREM SweepCleans == Spec => []SweptClean
<1>1. IInv => SweptClean
    BY DEF IInv, WalkInv, SweptInv, SweptClean, Sweeping
<1> QED
    BY <1>1, Invariance, PTL

\* The misses a sweep counts are consecutive.
THEOREM MissesConsecutive == Spec => []MissesAreGap
<1>1. IInv => MissesAreGap
    BY DEF IInv, WalkInv, GapInv, MissesAreGap, Sweeping
<1> QED
    BY <1>1, Invariance, PTL

\* A removal leaves nothing of its installation behind it, except where a
\* request was lost.
THEOREM RemovalCleans == Spec => []RemovedClean
<1>1. IInv => RemovedClean
    BY DEF IInv, WalkInv, RemovedInv, RemovedClean, Removing
<1> QED
    BY <1>1, Invariance, PTL

\* Slots are freed only by their own installation's removal or another's sweep,
\* although the table may change between the GET and the DELETE.
THEOREM SlotsFreedRightly == Spec => FreedRightly
<1> DEFINE Rightly == \A n \in Slots : table[n] # Free /\ table'[n] # table[n] =>
          \E i \in Instances : Here(i) = n /\
             \/ At(i, "sweepDelete") /\ table[n] # Cloud /\ n \notin SlotsOf(i)
             \/ At(i, "removeDelete") /\ n \in SlotsOf(i)
<1>1. IInv /\ [Next]_vars => [Rightly]_table
    <2> SUFFICES ASSUME IInv, [Next]_vars, table' # table,
                        NEW n \in Slots, table[n] # Free, table'[n] # table[n]
                 PROVE  \E i \in Instances : Here(i) = n /\
                           \/ At(i, "sweepDelete") /\ table[n] # Cloud
                              /\ n \notin SlotsOf(i)
                           \/ At(i, "removeDelete") /\ n \in SlotsOf(i)
        OBVIOUS
    <2>1. PICK j \in Instances : AnyStep(j)
        BY DEF Next, AllRemoved, vars, AnyStep
    <2>2. TypeOK /\ NextInv /\ WalkInv(j) /\ n # next
        BY SlotsAssumption DEF IInv, NextInv, TypeOK, Slots
    <2>3. CASE Subscribe(j)
        <3>1. PICK r \in toPost[j] : Append(j, r)
            BY <2>3 DEF Subscribe, Accept
        <3> QED
            BY <2>2, <3>1 DEF Append, TypeOK
    <2>4. CASE SweepDeletes(j)
        <3>1. FreeSlot(Here(j)) /\ At(j, "sweepDelete")
            BY <2>4 DEF SweepDeletes, Delete
        <3>2. Here(j) = n
            BY <2>2, <3>1 DEF FreeSlot, TypeOK
        <3>3. Stale(j, n)
            BY <2>2, <3>1, <3>2 DEF WalkInv, SeenInv, At
        <3> QED
            BY <3>1, <3>2, <3>3 DEF Stale
    <2>5. CASE RemoveDeletes(j)
        <3>1. FreeSlot(Here(j)) /\ At(j, "removeDelete")
            BY <2>5 DEF RemoveDeletes, Delete
        <3>2. Here(j) = n
            BY <2>2, <3>1 DEF FreeSlot, TypeOK
        <3>3. n \in SlotsOf(j)
            BY <2>2, <3>1, <3>2 DEF WalkInv, SeenInv, At, Ours
        <3> QED
            BY <3>1, <3>2, <3>3
    <2>6. CASE UNCHANGED table
        BY <2>6
    <2> QED
        BY <2>1, <2>3, <2>4, <2>5, <2>6
           DEF AnyStep, Step, applianceVars, Enroll, Remove, Stop, Verify, Supervise,
               BeginSweep, SweepFinds, SweepMisses, Hide, RemoveGets
<1> QED
    BY <1>1, Invariance, PTL DEF Spec, FreedRightly

(* Nothing is reported before the appliance has been asked.                 *)
NothingReported ==
    \A i \in Instances : pc[i] \in {"verify", "supervise"} => ok[i] = {}

\* An enrolment reports nothing before its first subscription.
LEMMA NothingReportedStep ==
    ASSUME TypeOK, NothingReported, [Next]_vars
    PROVE  NothingReported'
<1>1. CASE UNCHANGED vars
    BY <1>1 DEF NothingReported, vars
<1>2. ASSUME NEW j \in Instances, AnyStep(j), NEW i \in Instances,
             pc'[i] \in {"verify", "supervise"}
      PROVE  ok'[i] = {}
    <2>1. CASE i # j
        BY <1>2, <2>1, OthersStand DEF NothingReported
    <2>2. CASE i = j
        <3>1. CASE Enroll(j) \/ Verify(j)
            BY <1>2, <2>2, <3>1
               DEF Enroll, Verify, At, GoTo, TypeOK, NothingReported
        <3>2. CASE SweepFinds(j) \/ SweepMisses(j) \/ SweepDeletes(j)
                   \/ RemoveGets(j) \/ RemoveDeletes(j)
            BY <1>2, <2>2, <3>2
               DEF SweepFinds, SweepMisses, SweepDeletes, RemoveGets,
                   RemoveDeletes, Delete, Advance, GoTo, TypeOK
        <3> QED
            BY <1>2, <2>2, <3>1, <3>2
               DEF AnyStep, Step, Remove, Stop, Supervise, Subscribe, BeginSweep,
                   Hide, At, GoTo, TypeOK
    <2> QED
        BY <2>1, <2>2
<1> QED
    BY <1>1, <1>2 DEF NothingReported, Next, AllRemoved, AnyStep

\* Once an installation has acted it is not new.
LEMMA ActedIsNotNew ==
    ASSUME TypeOK, NEW j \in Instances, AnyStep(j)
    PROVE  pc'[j] # "new"
BY DEF TypeOK, AnyStep, Step, Enroll, Remove, Stop, Verify, Supervise, Subscribe,
       BeginSweep, SweepFinds, SweepMisses, SweepDeletes, Hide, RemoveGets,
       RemoveDeletes, Delete, Advance, At, GoTo

\* No step takes from the only installation a subscription it reports.
LEMMA SoleStep ==
    ASSUME IInv, NothingReported, SoleKeepsReported, [Next]_vars
    PROVE  SoleKeepsReported'
<1> DEFINE Reporting == {"subscribe", "sweepGet", "sweepDelete", "up"}
<1>0. CASE UNCHANGED vars
    BY <1>0 DEF SoleKeepsReported, vars, Kept
<1>1. CASE ~ UNCHANGED vars
    <2> SUFFICES ASSUME NEW i \in Instances,
                        \A j \in Instances \ {i} : pc'[j] = "new",
                        pc'[i] \in Reporting, NEW r \in ok'[i]
                 PROVE  Kept(i, r)'
        BY DEF SoleKeepsReported
    <2>0. TypeOK /\ NextInv /\ WalkInv(i)
        BY DEF IInv
    <2>1. AnyStep(i)
        <3>1. PICK j \in Instances : AnyStep(j)
            BY <1>1 DEF Next, AllRemoved, AnyStep
        <3> QED
            BY <2>0, <3>1, ActedIsNotNew
    <2>2. \A j \in Instances \ {i} : pc[j] = "new"
        BY <2>0, <2>1, OthersStand
    <2>3. pc[i] \in Reporting => \A q \in ok[i] : Kept(i, q)
        BY <2>2 DEF SoleKeepsReported
    <2>4. ASSUME NEW q, pc[i] \in Reporting, q \in ok[i], \A n \in Slots :
                    table[n] = <<i, q>> => table'[n] = table[n]
          PROVE  Kept(i, q)'
        BY <2>3, <2>4 DEF Kept
    <2>5. CASE Subscribe(i)
        <3>1. PICK q \in toPost[i] :
                  \/ Accept(i, q) /\ ok' = [ok EXCEPT ![i] = @ \cup {q}]
                  \/ UNCHANGED <<table, next, ok>>
                  \/ Accept(i, q) /\ UNCHANGED ok
            BY <2>5 DEF Subscribe, ReportRefused
        <3>2. pc[i] \in Reporting
            BY <2>5 DEF Subscribe, At
        <3>3. q \in Resources /\ <<i, q>> # Free /\ <<i, q>> \in Subscriptions
            BY <2>0, <3>1, OwnersAssumption DEF TypeOK, Subscriptions
        <3>4. \A n \in Slots : table[n] # Free => table'[n] = table[n]
            BY <2>0, <3>1, SlotsAssumption
               DEF Accept, Append, NextInv, TypeOK, Slots
        <3>5. CASE r \in ok[i]
            <4>1. <<i, r>> # Free
                BY <2>0, <3>5, OwnersAssumption DEF TypeOK, Subscriptions
            <4> QED
                BY <2>4, <3>2, <3>4, <3>5, <4>1
        <3>6. CASE r \notin ok[i]
            <4>1. r = q /\ Accept(i, q)
                BY <2>0, <3>1, <3>6 DEF TypeOK
            <4>2. CASE Append(i, q)
                <5>1. next \in Slots /\ table'[next] = <<i, q>>
                    BY <2>0, <4>2, SlotsAssumption DEF Append, TypeOK, Slots
                <5> QED
                    BY <4>1, <5>1 DEF Kept
            <4>3. CASE Kept(i, q) /\ UNCHANGED <<table, next>>
                BY <4>1, <4>3 DEF Kept
            <4> QED
                BY <4>1, <4>2, <4>3 DEF Accept
        <3> QED
            BY <3>5, <3>6
    <2>6. CASE SweepDeletes(i)
        <3>1. /\ At(i, "sweepDelete") /\ ok'[i] = ok[i]
              /\ FreeSlot(Here(i)) \/ UNCHANGED table
            BY <2>6 DEF SweepDeletes, Delete
        <3>2. <<i, r>> # Free /\ <<i, r>> \in {i} \X Resources
            BY <2>0, <3>1, OwnersAssumption DEF TypeOK, Subscriptions
        <3>3. table[Here(i)] # <<i, r>>
            BY <2>0, <3>1, <3>2 DEF WalkInv, SeenInv, Stale, SlotsOf, At
        <3>4. \A n \in Slots : table[n] = <<i, r>> => table'[n] = table[n]
            BY <2>0, <3>1, <3>3 DEF FreeSlot, TypeOK
        <3> QED
            BY <2>4, <3>1, <3>4 DEF At
    <2>7. CASE Supervise(i)
        BY <2>7 DEF Supervise, At, NothingReported
    <2>8. CASE BeginSweep(i) \/ SweepFinds(i) \/ SweepMisses(i)
        BY <2>4, <2>8 DEF BeginSweep, SweepFinds, SweepMisses, At, applianceVars
    <2>9. CASE Hide(i) \/ RemoveGets(i) \/ RemoveDeletes(i)
        BY <2>0, <2>9 DEF Hide, RemoveGets, RemoveDeletes, Delete, Advance, GoTo, TypeOK
    <2>10. CASE Enroll(i) \/ Remove(i) \/ Stop(i) \/ Verify(i)
        BY <2>0, <2>10 DEF Enroll, Remove, Stop, Verify, GoTo, TypeOK
    <2> QED
        BY <2>1, <2>5, <2>6, <2>7, <2>8, <2>9, <2>10 DEF AnyStep, Step
<1> QED
    BY <1>0, <1>1

\* The only installation keeps every subscription it reports, through all its
\* reloads, restarts and sweeps.
THEOREM SoleKeeps == Spec => []SoleKeepsReported
<1>1. Init => NothingReported /\ SoleKeepsReported
    BY DEF Init, NothingReported, SoleKeepsReported
<1>2. IInv => TypeOK
    BY DEF IInv
<1> QED
    BY <1>1, <1>2, Invariance, NothingReportedStep, SoleStep, PTL DEF Spec

=============================================================================
