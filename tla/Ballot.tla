------------------------------- MODULE Ballot -------------------------------
(***************************************************************************)
(* What an election promises: voters move through terms, cast at most one  *)
(* ballot in each, and a candidate is declared the winner of a term on the *)
(* ballots of a quorum.  Nothing is said of how votes are asked for,       *)
(* saved or lost.  Raft implements it.                                     *)
(***************************************************************************)
EXTENDS Naturals

CONSTANTS
  Voter,
  Term,
  Quorums     \* the sets of voters that elect

\* What the promise rests on; Raft's own quorums and terms meet it (ElectionProofs).
Lawful ==
  /\ Quorums \subseteq SUBSET Voter /\ \A Q, R \in Quorums : Q \cap R # {}
  /\ Term \subseteq Nat /\ 0 \in Term

VARIABLES
  epoch,      \* the term each voter is in
  ballots,    \* <<voter, term, candidate>>
  winners     \* <<candidate, term>>

vars == <<epoch, ballots, winners>>

Supporters(c, t) == {v \in Voter : <<v, t, c>> \in ballots}
Elects(S)        == \E Q \in Quorums : Q \subseteq S

Init == epoch = [v \in Voter |-> 0] /\ ballots = {} /\ winners = {}

Join(v, t) ==
  /\ t > epoch[v]
  /\ epoch' = [epoch EXCEPT ![v] = t]
  /\ UNCHANGED <<ballots, winners>>

Cast(v, t, c) ==
  /\ t >= epoch[v]
  /\ \A b \in ballots : b[1] = v /\ b[2] = t => b[3] = c
  /\ epoch' = [epoch EXCEPT ![v] = t]
  /\ ballots' = ballots \cup {<<v, t, c>>}
  /\ UNCHANGED winners

Declare(c, t) ==
  /\ Elects(Supporters(c, t))
  /\ winners' = winners \cup {<<c, t>>}
  /\ UNCHANGED <<epoch, ballots>>

Next ==
  \/ \E v \in Voter, t \in Term : Join(v, t)
  \/ \E v, c \in Voter, t \in Term : Cast(v, t, c)
  \/ \E c \in Voter, t \in Term : Declare(c, t)

Spec == Init /\ [][Next]_vars

TypeOK ==
  /\ epoch \in [Voter -> Term]
  /\ ballots \subseteq Voter \X Term \X Voter
  /\ winners \subseteq Voter \X Term

\* No term has two winners: two quorums share a voter, and a voter casts one ballot.
UniqueWinner == \A v, w \in winners : v[2] = w[2] => v[1] = w[1]
=============================================================================
