---------------------------- MODULE MCMembership ----------------------------
(* A leader of a cluster of four, of which one may be taken out and put back. *)
EXTENDS Membership, TLC

Four == <<2, 3, 4>>

Callers == Permutations(Caller)
=============================================================================
