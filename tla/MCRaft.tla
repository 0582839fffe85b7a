------------------------------- MODULE MCRaft -------------------------------
(* Small clusters for TLC: the peers in the order of the node numbers, as
   run_cluster.sh lists them, and the bounds of the runs. *)
EXTENDS RaftClaims, TLC

CONSTANTS n1, n2, n3, h1, s1, s2, va, vb

Peers3 == n1 :> <<n2, n3>> @@ n2 :> <<n1, n3>> @@ n3 :> <<n1, n2>>
Peers2 == n1 :> <<n2>> @@ n2 :> <<n1>>

Writes == Permutations(Cmd)

Limits(f, t, p, c) == [fail |-> f, transfer |-> t, put |-> p, crash |-> c]

NoLimit        == Limits(0, 0, 0, 0)
FailedTransfer == Limits(1, 1, 0, 0)
OnePut         == Limits(0, 0, 1, 0)
FailureAndPuts == Limits(1, 0, 2, 0)
TwoPuts        == Limits(0, 0, 2, 0)
CrashAndPut    == Limits(0, 0, 1, 1)
CrashesAndPuts == Limits(0, 0, 2, 2)

=============================================================================
