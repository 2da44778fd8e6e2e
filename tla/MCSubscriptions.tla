-------------------------- MODULE MCSubscriptions --------------------------
(* Small instances of Subscriptions: who holds a static IP.                *)
EXTENDS Subscriptions

CONSTANTS here, there
=============================================================================
