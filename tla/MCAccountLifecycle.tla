-------------------------- MODULE MCAccountLifecycle --------------------------
(* Small instances of the account lifecycle.                               *)
EXTENDS AccountLifecycle
=============================================================================
