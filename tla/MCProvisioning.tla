--------------------------- MODULE MCProvisioning ---------------------------
(* Small instances of Provisioning: an appliance that asks for a TAN, and *)
(* one that does not.                                                     *)
EXTENDS Provisioning

CONSTANTS oven, hob

Hob == {hob}
OvenAndHob == {oven, hob}
=============================================================================
