----------------------------- MODULE Onboarding -----------------------------
(***************************************************************************)
(* What the config flow promises whoever runs several of it at once: each  *)
(* flow ends once, either with an entry of its own, for a household that   *)
(* had none, or without a trace.                                           *)
(***************************************************************************)
CONSTANTS
    Flows, Ids,
    Before       \* entries there are at the start

VARIABLES
    open,        \* flows that have not ended
    configured   \* entries: the identifier and the flow that made it

vars == <<open, configured>>

Init ==
    /\ open = Flows \ {entry[2] : entry \in Before}
    /\ configured = Before

GiveUp(f) ==
    /\ f \in open
    /\ open' = open \ {f}
    /\ UNCHANGED configured

Configure(f, id) ==
    /\ f \in open
    /\ \A entry \in configured : entry[1] # id
    /\ open' = open \ {f}
    /\ configured' = configured \cup {<<id, f>>}

Remove(entry) ==
    /\ entry \in configured
    /\ configured' = configured \ {entry}
    /\ UNCHANGED open

Next ==
    \/ \E f \in Flows : GiveUp(f) \/ \E id \in Ids : Configure(f, id)
    \/ \E entry \in configured : Remove(entry)

Spec == Init /\ [][Next]_vars
=============================================================================
