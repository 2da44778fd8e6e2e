----------------------------- MODULE MCSetPower -----------------------------
(* Small instances of SetPower: one press for on and one for off.  *)
EXTENDS SetPower

CONSTANTS first, second

Presses == {first, second}
OnThenOff == [c \in Presses |-> IF c = second THEN "off" ELSE "on"]
=============================================================================
