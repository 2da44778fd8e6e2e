---------------------------- MODULE MCAddresses ----------------------------
(* An oven the entry lists: from pasted keys, with its address at that     *)
(* time, or by the cloud, next to an item without a fab number; or a cloud *)
(* that listed nobody.  A hob the cloud never returned, on a LAN with two  *)
(* free addresses; the oven starts out in the household.  The user gives  *)
(* the oven the other address, or takes the first one for Home             *)
(* Assistant's.  The entry spells the household in lower case, the         *)
(* appliances do not.                                                      *)
EXTENDS Addresses

CONSTANTS oven, hob, here, there, home

Both == {oven, hob}
Lan == {here, there, home}
OvenAt(place) == [f \in Fabs |-> IF f = oven THEN place ELSE Nowhere]
CloudOrKeys ==
    {[listed |-> {oven}, nameless |-> FALSE, static |-> OvenAt(here)],
     [listed |-> {oven}, nameless |-> TRUE, static |-> OvenAt(Nowhere)],
     [listed |-> {}, nameless |-> FALSE, static |-> OvenAt(Nowhere)]}
Typed == {[static |-> OvenAt(there), advertise |-> Nowhere],
          [static |-> OvenAt(Nowhere), advertise |-> here]}
Households == {"OURS", "OTHER", ""}
OvenIsOurs == {g \in [Both -> Households] : g[oven] = "OURS"}
Uppercase == [g \in Households \cup {"ours"} |-> IF g = "ours" THEN "OURS" ELSE g]
=============================================================================
