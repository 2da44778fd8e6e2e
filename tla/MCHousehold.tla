---------------------------- MODULE MCHousehold ----------------------------
(***************************************************************************)
(* An instance of Household: the cloud's entry with two appliances beside  *)
(* one of an appliance onboarded directly.                                 *)
(***************************************************************************)
EXTENDS Household

CONSTANTS cloud, direct, d1, d2, d3

BothEntries == {cloud, direct}
CloudOnly == {cloud}
TwoAndOne == [e \in BothEntries |-> IF e = cloud THEN {d1, d2} ELSE {d3}]

\* The default port of both config flows would keep the second entry from ever being
\* loaded; with a port each, "bind" among the faults stands for that refusal too.
OwnPorts == [e \in BothEntries |-> IF e = cloud THEN 18082 ELSE 18083]
=============================================================================
