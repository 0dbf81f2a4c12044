---------------------------- MODULE MCSessionTurns ----------------------------
(* Two hosts that share one session.                                       *)
EXTENDS SessionTurns, TLC

HostSymmetry == Permutations(Hosts)
=============================================================================
