---------------------------- MODULE MCKvService -----------------------------
(* Two clients of two nodes. *)
EXTENDS KvService, TLC

Clients == Permutations(Client)
=============================================================================
