------------------------------ MODULE SetPower ------------------------------
(***************************************************************************)
(* Power commands to one appliance: MieleLanClient.set_power               *)
(* (src/custom_components/miele_lan/api.py) with the wake and the fall-back*)
(* request it makes, as the switch calls it (switch.py).                   *)
(*                                                                         *)
(* Nothing serialises the commands of a user who presses twice, so they    *)
(* interleave at every request and every sleep.  A request whose answer    *)
(* does not come in time may have been executed, or be executed later.     *)
(***************************************************************************)
EXTENDS Naturals

CONSTANTS
    Calls,        \* calls of async_turn_on and async_turn_off
    Target,       \* what each of them asks for
    MaxRounds,    \* max_rounds
    Outcomes      \* how a request may end, a subset of AllOutcomes

\* Answered 2xx; answered 500; another status; timed out or not connected; any
\* other error of the HTTP client, which nothing in api.py maps.
AllOutcomes == {"ok", "asleep", "refused", "lost", "broken"}
Powers == {"on", "off"}

ASSUME CallsAssumption == Target \in [Calls -> Powers]
ASSUME RoundsAssumption == MaxRounds \in Nat \ {0}
ASSUME OutcomesAssumption == Outcomes \subseteq AllOutcomes

VARIABLES
    power,      \* the appliance's
    late,       \* requests the appliance has yet to execute, the client gone
    pc,         \* the await each call is in
    round,      \* round_num, 0 before the first
    timeouts,   \* requests of the call that timed out
    executed,   \* how often the appliance has executed the call
    alone       \* no other command has overlapped with the call

callVars == <<pc, round, timeouts>>
vars == <<power, late, pc, round, timeouts, executed, alone>>

Requests == {"write", "wake", "retry", "fallback"}
Ended == {"accepted", "failed"}
Places == Requests \cup Ended \cup {"idle", "sleep"}

TypeOK ==
    /\ power \in Powers
    /\ late \subseteq Calls \X Requests
    /\ pc \in [Calls -> Places]
    /\ round \in [Calls -> 0..MaxRounds]
    /\ timeouts \in [Calls -> Nat]
    /\ executed \in [Calls -> Nat]
    /\ alone \in [Calls -> BOOLEAN]

Init ==
    /\ power \in Powers
    /\ late = {}
    /\ pc = [c \in Calls |-> "idle"]
    /\ round = [c \in Calls |-> 0]
    /\ timeouts = [c \in Calls |-> 0]
    /\ executed = [c \in Calls |-> 0]
    /\ alone = [c \in Calls |-> FALSE]

At(c, place) == pc[c] = place
GoTo(c, place) == pc' = [pc EXCEPT ![c] = place]
Running(c) == pc[c] \notin {"idle"} \cup Ended

-----------------------------------------------------------------------------
(* The appliance.                                                          *)

OpcodeAlwaysOn(c) == IF pc[c] = "fallback" THEN "on" ELSE Target[c]
\* What the payload of the call's request asks for.
Asks(c) == Target[c]

Execute(c) ==
    /\ power' = Asks(c)
    /\ executed' = [executed EXCEPT ![c] = @ + 1]

\* A request of the client that gave up on it: executed, to be executed, or gone.
Abandon(c) ==
    \/ Execute(c) /\ UNCHANGED late
    \/ late' = late \cup {<<c, pc[c]>>} /\ UNCHANGED <<power, executed>>
    \/ UNCHANGED <<power, executed, late>>

ExecuteLate ==
    \E request \in late :
        /\ late' = late \ {request}
        /\ Execute(request[1])
        /\ UNCHANGED <<callVars, alone>>

-----------------------------------------------------------------------------
(* set_power                                                               *)

\* The user presses the switch.
Press(c) ==
    /\ At(c, "idle")
    /\ GoTo(c, "write")
    /\ alone' = [d \in Calls |->
                    IF d = c THEN late = {} /\ \A o \in Calls : ~Running(o)
                             ELSE FALSE]
    /\ UNCHANGED <<power, late, round, timeouts, executed>>

\* A 2xx to any of the writes ends the call.
Accepted(c) ==
    /\ pc[c] \in {"write", "retry", "fallback"} /\ "ok" \in Outcomes
    /\ GoTo(c, "accepted")
    /\ Execute(c)
    /\ UNCHANGED <<late, round, timeouts, alone>>

RoundsLeft(c) == round[c] < MaxRounds

WakeAgain(c) ==
    /\ round' = [round EXCEPT ![c] = @ + 1]
    /\ GoTo(c, "wake")

\* A 500: wake and retry, while rounds are left.
Asleep(c) ==
    /\ pc[c] \in {"write", "retry"} /\ "asleep" \in Outcomes
    /\ IF RoundsLeft(c) THEN WakeAgain(c) ELSE GoTo(c, "fallback") /\ UNCHANGED round
    /\ UNCHANGED <<power, late, timeouts, executed, alone>>

\* Another status falls back; the fall-back itself fails on every status.
Refused(c) ==
    /\ \/ pc[c] \in {"write", "retry"} /\ "refused" \in Outcomes /\ GoTo(c, "fallback")
       \/ At(c, "fallback") /\ {"refused", "asleep"} \cap Outcomes # {} /\ GoTo(c, "failed")
    /\ UNCHANGED <<power, late, round, timeouts, executed, alone>>

AfterLostKeepsTrying(c) ==
    IF At(c, "fallback") THEN GoTo(c, "failed") /\ UNCHANGED round
    ELSE IF RoundsLeft(c) THEN WakeAgain(c) ELSE GoTo(c, "fallback") /\ UNCHANGED round
AfterLost(c) ==
    /\ GoTo(c, IF At(c, "fallback") THEN "failed" ELSE "fallback")
    /\ UNCHANGED round

\* NetworkTimeoutError or NetworkConnectionError from a write.
Lost(c) ==
    /\ pc[c] \in {"write", "retry", "fallback"} /\ "lost" \in Outcomes
    /\ timeouts' = [timeouts EXCEPT ![c] = @ + 1]
    /\ Abandon(c)
    /\ AfterLost(c)
    /\ UNCHANGED alone

\* wake() and its catch: an answer of any status and a lost request alike.
Wake(c) ==
    /\ At(c, "wake")
    /\ GoTo(c, "sleep")
    /\ \/ Outcomes \cap {"ok", "asleep", "refused"} # {} /\ UNCHANGED timeouts
       \/ "lost" \in Outcomes /\ timeouts' = [timeouts EXCEPT ![c] = @ + 1]
    /\ UNCHANGED <<power, late, round, executed, alone>>

Slept(c) ==
    /\ At(c, "sleep")
    /\ GoTo(c, "retry")
    /\ UNCHANGED <<power, late, round, timeouts, executed, alone>>

\* Any other error of the HTTP client leaves set_power from wherever it is.
Broken(c) ==
    /\ pc[c] \in Requests /\ "broken" \in Outcomes
    /\ GoTo(c, "failed")
    /\ IF At(c, "wake") THEN UNCHANGED <<power, executed, late>> ELSE Abandon(c)
    /\ UNCHANGED <<round, timeouts, alone>>

Step(c) ==
    \/ Accepted(c) \/ Asleep(c) \/ Refused(c) \/ Lost(c)
    \/ Wake(c) \/ Slept(c) \/ Broken(c)

AllEnded == (\A c \in Calls : pc[c] \in Ended) /\ late = {} /\ UNCHANGED vars

Next == (\E c \in Calls : Press(c) \/ Step(c)) \/ ExecuteLate \/ AllEnded

Spec == Init /\ [][Next]_vars

-----------------------------------------------------------------------------
(* Properties                                                              *)

\* Of all its requests a call waits out at most two writes and one wake in each
\* round: with rounds of two, timeouts of ten and sleeps of three seconds that is
\* the documented ceiling of 46 (api.py:716-722).
WithinCeiling ==
    \A c \in Calls : timeouts[c] <= MaxRounds + 2

Due(c, request) == IF <<c, request>> \in late THEN 1 ELSE 0

\* The appliance executes a command at most twice, counting what it has yet to
\* execute: a write whose answer was lost is followed by nothing but the fall-back
\* (api.py:712-715).
ExecutedAtMostTwice ==
    \A c \in Calls : executed[c] + Due(c, "write") + Due(c, "retry")
                                  + Due(c, "fallback") <= 2

\* A command that nothing has overlapped with and that was accepted leaves the
\* appliance as it asked, by whichever of its two channels.
AcceptedHolds ==
    \A c \in Calls : alone[c] /\ pc[c] = "accepted" => power = Target[c]

=============================================================================
