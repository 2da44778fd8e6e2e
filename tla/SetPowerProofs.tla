--------------------------- MODULE SetPowerProofs ---------------------------
(***************************************************************************)
(* What TLAPS proves of SetPower for any number of commands and rounds, and*)
(* any outcomes of their requests.                                         *)
(*                                                                         *)
(* A call has a budget at each of its awaits, which IInv spells out: of    *)
(* timeouts, because only wakes may time out without ending its rounds     *)
(* (WaitInv), and of executions, because a 500 executes nothing and        *)
(* whatever may have executed leads to the fall-back (EffectInv).          *)
(***************************************************************************)
EXTENDS SetPower, TLAPS

Effects(c) == executed[c] + Due(c, "write") + Due(c, "retry") + Due(c, "fallback")

(* Timeouts so far: one per wake, one more for a write before the fall-back. *)
WaitInv(c) ==
    /\ pc[c] \in {"idle", "write"} => round[c] = 0 /\ timeouts[c] = 0
    /\ pc[c] = "wake" => round[c] >= 1 /\ timeouts[c] + 1 <= round[c]
    /\ pc[c] \in {"sleep", "retry"} => timeouts[c] <= round[c]
    /\ pc[c] = "fallback" => timeouts[c] <= round[c] + 1
    /\ pc[c] \in Ended => timeouts[c] <= round[c] + 2

(* Executions, made or due: none before a write is given up or accepted.    *)
EffectInv(c) ==
    /\ pc[c] \in {"idle", "write", "wake", "sleep", "retry"} => Effects(c) = 0
    /\ pc[c] = "fallback" => Effects(c) <= 1
    /\ Effects(c) <= 2

LateInv == \A request \in late : request[2] \in {"write", "retry", "fallback"}

IInv == TypeOK /\ LateInv /\ \A c \in Calls : WaitInv(c) /\ EffectInv(c)

-----------------------------------------------------------------------------
\* No command has begun.
LEMMA InitInv == Init => IInv
BY RoundsAssumption, CallsAssumption
   DEF Init, IInv, TypeOK, LateInv, WaitInv, EffectInv, Effects, Due, Places, Ended

\* An execution, made or due, keeps the types.
LEMMA ExecuteType ==
    ASSUME TypeOK, NEW c \in Calls, Execute(c)
    PROVE  power' \in Powers /\ executed' \in [Calls -> Nat]
<1>1. power' \in Powers
    BY CallsAssumption DEF Execute, Asks
<1>2. executed[c] + 1 \in Nat
    BY DEF TypeOK
<1> QED
    BY <1>1, <1>2 DEF Execute, TypeOK

\* Every action keeps the types.
LEMMA TypeStep ==
    ASSUME TypeOK, LateInv, [Next]_vars
    PROVE  TypeOK' /\ LateInv'
<1> USE DEF callVars
<1>1. CASE UNCHANGED vars
    BY <1>1 DEF TypeOK, LateInv, vars
<1>2. CASE ExecuteLate
    <2>1. PICK request \in late : late' = late \ {request} /\ Execute(request[1])
        BY <1>2 DEF ExecuteLate
    <2>2. request[1] \in Calls
        BY <2>1 DEF TypeOK
    <2> QED
        BY <1>2, <2>1, <2>2, ExecuteType DEF ExecuteLate, TypeOK, LateInv
<1>3. ASSUME NEW c \in Calls, Press(c) \/ Step(c)
      PROVE  TypeOK' /\ LateInv'
    <2>1. CASE Press(c)
        BY <2>1 DEF Press, GoTo, TypeOK, LateInv, Places, Requests
    <2>2. CASE Accepted(c)
        BY <2>2, ExecuteType DEF Accepted, GoTo, TypeOK, LateInv, Places, Ended
    <2>3. CASE Asleep(c)
        <3>1. RoundsLeft(c) => round[c] + 1 \in 0..MaxRounds
            BY RoundsAssumption DEF RoundsLeft, TypeOK
        <3> QED
            BY <2>3, <3>1 DEF Asleep, WakeAgain, GoTo, TypeOK, LateInv, Places, Requests
    <2>4. CASE Refused(c)
        BY <2>4 DEF Refused, GoTo, TypeOK, LateInv, Places, Requests, Ended
    <2>5. ASSUME Abandon(c), pc[c] \in {"write", "retry", "fallback"}
          PROVE  /\ power' \in Powers /\ executed' \in [Calls -> Nat]
                 /\ late' \subseteq Calls \X Requests /\ LateInv'
        BY <2>5, ExecuteType DEF Abandon, TypeOK, LateInv, Requests
    <2>6. CASE Lost(c)
        BY <2>5, <2>6 DEF Lost, AfterLost, At, GoTo, TypeOK, Places, Requests, Ended
    <2>7. CASE Wake(c)
        BY <2>7 DEF Wake, GoTo, TypeOK, LateInv, Places
    <2>8. CASE Slept(c)
        BY <2>8 DEF Slept, GoTo, TypeOK, LateInv, Places, Requests
    <2>9. CASE Broken(c)
        <3>1. pc' \in [Calls -> Places]
            BY <2>9 DEF Broken, GoTo, TypeOK, Places, Ended
        <3>2. CASE At(c, "wake")
            BY <2>9, <3>1, <3>2 DEF Broken, TypeOK, LateInv
        <3>3. CASE ~At(c, "wake")
            BY <2>5, <2>9, <3>1, <3>3 DEF Broken, At, Requests, TypeOK
        <3> QED
            BY <3>2, <3>3
    <2> QED
        BY <1>3, <2>1, <2>2, <2>3, <2>4, <2>6, <2>7, <2>8, <2>9 DEF Step
<1> QED
    BY <1>1, <1>2, <1>3 DEF Next, AllEnded

\* The budget of timeouts.
LEMMA WaitStep ==
    ASSUME TypeOK, [Next]_vars, NEW c \in Calls, WaitInv(c)
    PROVE  WaitInv(c)'
<1>0. round[c] \in Nat /\ timeouts[c] \in Nat /\ pc[c] \in Places
    BY RoundsAssumption DEF TypeOK
<1>1. CASE UNCHANGED <<pc, round, timeouts>>
    BY <1>1 DEF WaitInv
<1>2. ASSUME NEW d \in Calls, Press(d) \/ Step(d), d # c
      PROVE  WaitInv(c)'
    <2>1. pc'[c] = pc[c] /\ round'[c] = round[c] /\ timeouts'[c] = timeouts[c]
        BY <1>2 DEF TypeOK, Step, Press, Accepted, Asleep, WakeAgain, Refused, Lost,
                    AfterLost, Wake, Slept, Broken, GoTo
    <2> QED
        BY <2>1 DEF WaitInv
<1>3. CASE Press(c)
    BY <1>0, <1>3 DEF Press, At, GoTo, TypeOK, WaitInv, Ended
<1>4. CASE Accepted(c) \/ Refused(c) \/ Broken(c)
    <2>1. /\ pc'[c] \in {"fallback"} \cup Ended
          /\ pc[c] \in Requests /\ (pc'[c] = "fallback" => pc[c] \in {"write", "retry"})
          /\ round'[c] = round[c] /\ timeouts'[c] = timeouts[c]
        BY <1>4 DEF Accepted, Refused, Broken, At, GoTo, TypeOK, Requests, Ended
    <2> QED
        BY <1>0, <2>1 DEF WaitInv, Requests, Ended
<1>5. CASE Asleep(c)
    BY <1>0, <1>5 DEF Asleep, WakeAgain, GoTo, TypeOK, WaitInv, Ended
<1>6. CASE Lost(c)
    BY <1>0, <1>6 DEF Lost, AfterLost, At, GoTo, TypeOK, WaitInv, Ended
<1>7. CASE Wake(c)
    BY <1>0, <1>7 DEF Wake, At, GoTo, TypeOK, WaitInv, Ended
<1>8. CASE Slept(c)
    BY <1>0, <1>8 DEF Slept, At, GoTo, TypeOK, WaitInv, Ended
<1> QED
    BY <1>1, <1>2, <1>3, <1>4, <1>5, <1>6, <1>7, <1>8
       DEF Next, Step, ExecuteLate, AllEnded, vars, callVars

\* An execution that was due and one that is made count alike.
LEMMA EffectStep ==
    ASSUME TypeOK, LateInv, [Next]_vars, NEW c \in Calls, EffectInv(c)
    PROVE  EffectInv(c)'
<1>0. /\ executed[c] \in Nat /\ pc[c] \in Places
      /\ \A r : Due(c, r) \in {0, 1} /\ Due(c, r)' \in {0, 1}
      /\ Effects(c) \in Nat
    BY DEF TypeOK, Due, Effects
<1>1. CASE UNCHANGED <<pc, executed, late>>
    BY <1>1 DEF EffectInv, Effects, Due
<1>2. CASE ExecuteLate
    <2>1. PICK request \in late : late' = late \ {request} /\ Execute(request[1])
        BY <1>2 DEF ExecuteLate
    <2>2. PICK d \in Calls, r \in {"write", "retry", "fallback"} : request = <<d, r>>
        BY <2>1 DEF TypeOK, LateInv
    <2>3. CASE d = c
        <3>1. executed'[c] = executed[c] + 1
            BY <2>1, <2>2, <2>3 DEF Execute, TypeOK
        <3>2. Due(c, r) = 1 /\ Due(c, r)' = 0
            BY <2>1, <2>2, <2>3 DEF Due
        <3>3. \A q : q # r => Due(c, q)' = Due(c, q)
            BY <2>1, <2>2 DEF Due
        <3>4. Effects(c)' = Effects(c)
            BY <1>0, <2>2, <3>1, <3>2, <3>3 DEF Effects
        <3> QED
            BY <1>2, <3>4 DEF EffectInv, ExecuteLate, callVars
    <2>4. CASE d # c
        <3>1. executed'[c] = executed[c] /\ \A q : Due(c, q)' = Due(c, q)
            BY <2>1, <2>2, <2>4 DEF Execute, TypeOK, Due
        <3> QED
            BY <1>2, <3>1 DEF EffectInv, Effects, ExecuteLate, callVars
    <2> QED
        BY <2>3, <2>4
<1>3. ASSUME NEW d \in Calls, Press(d) \/ Step(d), d # c
      PROVE  EffectInv(c)'
    <2>1. Abandon(d) => /\ executed'[c] = executed[c]
                        /\ \A r : <<c, r>> \in late' <=> <<c, r>> \in late
        BY <1>3 DEF TypeOK, Abandon, Execute
    <2>2. Execute(d) => executed'[c] = executed[c]
        BY <1>3 DEF TypeOK, Execute
    <2>3. pc'[c] = pc[c]
        BY <1>3 DEF TypeOK, Step, Press, Accepted, Asleep, WakeAgain, Refused, Lost,
                    AfterLost, Wake, Slept, Broken, GoTo
    <2>4. /\ executed'[c] = executed[c]
          /\ \A r : <<c, r>> \in late' <=> <<c, r>> \in late
        BY <1>3, <2>1, <2>2 DEF Step, Press, Accepted, Asleep, Refused, Lost, Wake,
                                Slept, Broken
    <2> QED
        BY <2>3, <2>4 DEF EffectInv, Effects, Due
<1>4. CASE Press(c) \/ Asleep(c) \/ Refused(c) \/ Wake(c) \/ Slept(c)
    <2>1. /\ UNCHANGED <<executed, late>>
          /\ pc'[c] \in {"write", "wake", "retry", "sleep"} =>
                pc[c] \in {"idle", "write", "wake", "sleep", "retry"}
          /\ pc'[c] # "idle"
          /\ pc'[c] = "fallback" => pc[c] \in {"write", "retry"}
        BY <1>4 DEF Press, Asleep, WakeAgain, Refused, Wake, Slept, At, GoTo, TypeOK
    <2>2. Effects(c)' = Effects(c)
        BY <2>1 DEF Effects, Due
    <2> QED
        BY <1>0, <2>1, <2>2 DEF EffectInv
<1>5. ASSUME Abandon(c), pc[c] \in {"write", "retry", "fallback"}
      PROVE  Effects(c)' \in Nat /\ Effects(c)' <= Effects(c) + 1
    <2>1. CASE Execute(c) /\ UNCHANGED late
        BY <1>0, <2>1 DEF Execute, TypeOK, Effects, Due
    <2>2. CASE late' = late \cup {<<c, pc[c]>>} /\ UNCHANGED <<power, executed>>
        <3>1. \A q : q # pc[c] => Due(c, q)' = Due(c, q)
            BY <2>2 DEF Due
        <3> QED
            BY <1>0, <1>5, <2>2, <3>1 DEF Effects
    <2>3. CASE UNCHANGED <<power, executed, late>>
        BY <1>0, <2>3 DEF Effects, Due
    <2> QED
        BY <1>5, <2>1, <2>2, <2>3 DEF Abandon
<1>6. CASE Accepted(c)
    <2>1. pc'[c] = "accepted" /\ pc[c] \in {"write", "retry", "fallback"}
          /\ executed'[c] = executed[c] + 1 /\ UNCHANGED late
        BY <1>6 DEF Accepted, Execute, GoTo, TypeOK
    <2>2. Effects(c)' = Effects(c) + 1
        BY <1>0, <2>1 DEF Effects, Due
    <2> QED
        BY <1>0, <2>1, <2>2 DEF EffectInv
<1>7. CASE Lost(c)
    <2>1. /\ Abandon(c) /\ pc[c] \in {"write", "retry", "fallback"}
          /\ pc'[c] = IF pc[c] = "fallback" THEN "failed" ELSE "fallback"
        BY <1>7 DEF Lost, AfterLost, At, GoTo, TypeOK
    <2> QED
        BY <1>0, <1>5, <2>1 DEF EffectInv
<1>8. CASE Broken(c)
    <2>1. pc'[c] = "failed"
        BY <1>8 DEF Broken, GoTo, TypeOK
    <2>2. CASE At(c, "wake")
        <3>1. UNCHANGED <<executed, late>>
            BY <1>8, <2>2 DEF Broken
        <3>2. Effects(c)' = Effects(c)
            BY <3>1 DEF Effects, Due
        <3> QED
            BY <1>0, <2>1, <3>2 DEF EffectInv
    <2>3. CASE ~At(c, "wake")
        <3>1. Abandon(c) /\ pc[c] \in {"write", "retry", "fallback"}
            BY <1>8, <2>3 DEF Broken, At, Requests
        <3> QED
            BY <1>0, <1>5, <2>1, <3>1 DEF EffectInv
    <2> QED
        BY <2>2, <2>3
<1> QED
    BY <1>1, <1>2, <1>3, <1>4, <1>6, <1>7, <1>8
       DEF Next, Step, AllEnded, vars

-----------------------------------------------------------------------------
(* While nothing has overlapped with a call, only it runs and only its      *)
(* requests are due, so whatever is executed is what it asks.              *)
AloneInv(c) ==
    alone[c] =>
        /\ \A d \in Calls : Running(d) => d = c
        /\ \A request \in late : request[1] = c
        /\ pc[c] = "accepted" => power = Target[c]

\* No action of another call can come between without ending the solitude.
LEMMA AloneStep ==
    ASSUME TypeOK, [Next]_vars, NEW c \in Calls, AloneInv(c)
    PROVE  AloneInv(c)'
<1>1. CASE UNCHANGED <<pc, late, power, alone>>
    BY <1>1 DEF AloneInv, Running
<1>2. CASE ExecuteLate
    <2>1. PICK request \in late : late' = late \ {request} /\ Execute(request[1])
        BY <1>2 DEF ExecuteLate
    <2>2. alone[c] => power' = Target[c]
        BY <2>1 DEF AloneInv, Execute, Asks
    <2> QED
        BY <1>2, <2>1, <2>2 DEF AloneInv, Running, ExecuteLate, callVars
<1>3. ASSUME NEW d \in Calls, Press(d)
      PROVE  AloneInv(c)'
    <2>1. CASE d # c
        <3>1. alone'[c] = FALSE
            BY <1>3, <2>1 DEF Press
        <3> QED
            BY <3>1 DEF AloneInv
    <2>2. CASE d = c
        <3>1. pc' = [pc EXCEPT ![c] = "write"] /\ pc'[c] = "write" /\ late' = late
            BY <1>3, <2>2 DEF Press, GoTo, TypeOK
        <3>2. alone'[c] => late = {} /\ \A o \in Calls : ~Running(o)
            BY <1>3, <2>2 DEF Press
        <3>3. \A o \in Calls : o # c => pc'[o] = pc[o]
            BY <3>1 DEF TypeOK
        <3> QED
            BY <3>1, <3>2, <3>3 DEF AloneInv, Running
    <2> QED
        BY <2>1, <2>2
<1>4. ASSUME NEW d \in Calls, Step(d), alone[c]
      PROVE  AloneInv(c)'
    <2>1. d = c
        <3>1. pc[d] \in Requests \cup {"sleep"}
            BY <1>4 DEF Step, Accepted, Asleep, Refused, Lost, Wake, Slept, Broken,
                        At, Requests
        <3>2. Running(d)
            BY <3>1 DEF Running, Requests, Ended
        <3> QED
            BY <1>4, <3>2 DEF AloneInv
    <2>2. \A o \in Calls : o # c => pc'[o] = pc[o]
        BY <1>4, <2>1 DEF TypeOK, Step, Accepted, Asleep, WakeAgain, Refused, Lost,
                          AfterLost, Wake, Slept, Broken, GoTo
    <2>3. \A o \in Calls : Running(o)' => o = c
        BY <1>4, <2>2 DEF AloneInv, Running
    <2>4. Abandon(c) => \A request \in late' : request[1] = c
        BY <1>4 DEF Abandon, AloneInv
    <2>5. \A request \in late' : request[1] = c
        BY <1>4, <2>1, <2>4 DEF AloneInv, Step, Accepted, Asleep, Refused, Lost, Wake,
                                Slept, Broken
    <2>6. pc'[c] = "accepted" => power' = Target[c]
        BY <1>4, <2>1 DEF TypeOK, Step, Accepted, Execute, Asks, Asleep, WakeAgain,
                          Refused, Lost, AfterLost, Wake, Slept, Broken, At, GoTo
    <2> QED
        BY <2>3, <2>5, <2>6 DEF AloneInv
<1>5. ASSUME NEW d \in Calls, Step(d), ~alone[c]
      PROVE  AloneInv(c)'
    <2>1. UNCHANGED alone
        BY <1>5 DEF Step, Accepted, Asleep, Refused, Lost, Wake, Slept, Broken
    <2> QED
        BY <1>5, <2>1 DEF AloneInv
<1> QED
    BY <1>1, <1>2, <1>3, <1>4, <1>5 DEF Next, AllEnded, vars

-----------------------------------------------------------------------------
\* The two budgets, of timeouts and of executions, hold in every reachable state.
THEOREM Invariance == Spec => []IInv
<1>1. IInv /\ [Next]_vars => IInv'
    BY TypeStep, WaitStep, EffectStep DEF IInv
<1> QED
    BY <1>1, InitInv, PTL DEF Spec

\* Every variable keeps its type.
THEOREM TypeCorrect == Spec => []TypeOK
<1>1. IInv => TypeOK
    BY DEF IInv
<1> QED
    BY <1>1, Invariance, PTL

\* A call waits out at most one request per round and two writes besides, so with
\* the code's numbers it ends within 46 seconds when answers are prompt.
THEOREM Ceiling == Spec => []WithinCeiling
<1>1. IInv => WithinCeiling
    <2> SUFFICES ASSUME IInv, NEW c \in Calls PROVE timeouts[c] <= MaxRounds + 2
        BY DEF WithinCeiling
    <2>1. /\ timeouts[c] \in Nat /\ round[c] \in 0..MaxRounds /\ MaxRounds \in Nat
          /\ pc[c] \in Places /\ WaitInv(c)
        BY RoundsAssumption DEF IInv, TypeOK
    <2> QED
        BY <2>1 DEF WaitInv, Places, Requests, Ended
<1> QED
    BY <1>1, Invariance, PTL

\* The appliance executes a command at most twice, however its requests are lost.
THEOREM AtMostTwice == Spec => []ExecutedAtMostTwice
<1>1. IInv => ExecutedAtMostTwice
    BY DEF IInv, EffectInv, Effects, ExecutedAtMostTwice
<1> QED
    BY <1>1, Invariance, PTL

\* A command that nothing overlapped with and that was accepted leaves the
\* appliance as it asked, whatever of its lost requests is still executed.
THEOREM Holds == Spec => []AcceptedHolds
<1> DEFINE Inv == \A c \in Calls : AloneInv(c)
<1>1. Init => Inv
    BY DEF Init, AloneInv
<1>2. TypeOK /\ Inv /\ [Next]_vars => Inv'
    BY AloneStep
<1>3. Inv => AcceptedHolds
    BY DEF AloneInv, AcceptedHolds
<1> QED
    BY <1>1, <1>2, <1>3, TypeCorrect, PTL DEF Spec
=============================================================================
