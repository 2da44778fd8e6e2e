------------------------------ MODULE MCSetup ------------------------------
(***************************************************************************)
(* Instances of Setup: an account with a household at home and a retired   *)
(* one, which either backend may hold, list alone, or not know.            *)
(***************************************************************************)
EXTENDS Setup

CONSTANTS home, retired, oven, f0, f1, f2

TheFlows == {f0, f1, f2}
Home == {home}
Both == {home, retired}
Oven == {oven}

Earlier == {[flow |-> f0, household |-> home, spelling |-> "upper", region |-> None, devices |-> {}]}

Live == [household |-> home, devices |-> {oven}]
Unlisted == [household |-> home, devices |-> {}]
Stale == [household |-> retired, devices |-> {}]
Foreign == [household |-> retired, devices |-> {oven}]
Backends(eu, as) == [r \in Regions |-> IF r = "EU" THEN eu ELSE as]
Accounts ==
    {Backends({Stale, Live}, {}), Backends({Live}, {Stale}), Backends({Unlisted, Foreign}, {Live}),
     Backends({Stale}, {Foreign}), Backends({}, {})}
=============================================================================
