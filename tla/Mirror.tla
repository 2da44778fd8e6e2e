------------------------------- MODULE Mirror -------------------------------
(***************************************************************************)
(* What the integration promises of one appliance: a mirror of it.  The    *)
(* mirror lags, but what it holds the appliance has shown; what the        *)
(* entities show is at any moment all that the mirror held at one moment,  *)
(* and never lags behind it but during a refresh.                          *)
(***************************************************************************)
EXTENDS Naturals

CONSTANTS
    Fields,     \* of the appliance's state, the door among them
    None

VARIABLES
    truth,      \* the version of each field the appliance is at
    held,       \* what the mirror holds: fields, levels and the door read with them
    refreshing, \* a refresh has begun to change what is held
    givenUp,    \* the levels are no longer asked for
    entities,   \* the entities there are, once
    forwarded,  \* they are there
    shown       \* what they show

vars == <<truth, held, refreshing, givenUp, entities, forwarded, shown>>

Nothing == [state |-> [f \in Fields |-> None], context |-> None, door |-> None]
Complete == \A f \in Fields : held.state[f] # None

Init ==
    /\ truth = [f \in Fields |-> 0]
    /\ held = Nothing /\ refreshing = FALSE /\ givenUp = FALSE
    /\ entities = {} /\ forwarded = FALSE /\ shown = Nothing

Changes(f) ==
    /\ truth' = [truth EXCEPT ![f] = @ + 1]
    /\ UNCHANGED <<held, refreshing, givenUp, entities, forwarded, shown>>

\* A refresh brings versions the appliance has been at, or no levels when the appliance
\* has answered that it has none; a door only with the levels it was read with, and
\* neither once the levels are given up.
Refresh ==
    /\ \A f \in Fields : held'.state[f] \in {held.state[f]} \cup 0..truth[f]
    /\ held'.context \in {held.context, None} \cup 0..truth["Door"]
    /\ held'.door \in {None, held'.context}
    /\ givenUp => held'.context = None
    /\ refreshing' = TRUE
    /\ UNCHANGED <<truth, givenUp, entities, forwarded, shown>>

\* For good, and nothing of them is left.
GiveUp ==
    /\ refreshing /\ ~ givenUp
    /\ givenUp' = TRUE
    /\ held' = [state |-> held.state, context |-> None, door |-> None]
    /\ UNCHANGED <<truth, refreshing, entities, forwarded, shown>>

\* Whoever looks sees what is held.
Reflect == shown' = IF forwarded' THEN held' ELSE shown

Refreshed ==
    /\ refreshing /\ Complete
    /\ refreshing' = FALSE
    /\ Reflect
    /\ UNCHANGED <<truth, held, givenUp, entities, forwarded>>

\* The appliance tells of one field, when all are known; that shows at once.
Told ==
    /\ Complete
    /\ \/ \E f \in Fields : \E v \in 0..truth[f] :
            held' = [held EXCEPT !.state = [@ EXCEPT ![f] = v]]
       \/ held' = held
    /\ Reflect
    /\ UNCHANGED <<truth, refreshing, givenUp, entities, forwarded>>

\* Entities that show levels are made only if some have been read; none come later.
Forward ==
    /\ ~ forwarded /\ ~ refreshing /\ Complete
    /\ forwarded' = TRUE
    /\ "contextSensors" \in entities' => held.context # None
    /\ Reflect
    /\ UNCHANGED <<truth, held, refreshing, givenUp>>

Next ==
    \/ \E f \in Fields : Changes(f)
    \/ Refresh \/ GiveUp \/ Refreshed \/ Told \/ Forward

Spec == Init /\ [][Next]_vars
=============================================================================
