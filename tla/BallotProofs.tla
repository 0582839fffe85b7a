---------------------------- MODULE BallotProofs ----------------------------
(***************************************************************************)
(* Ballot elects at most one winner in each term, for every set of voters. *)
(* UniqueWinner is not inductive: it needs that a voter casts one ballot   *)
(* in a term, and that every winner still has its quorum.                *)
(***************************************************************************)
EXTENDS Ballot, TLAPS

OneBallot        == \A a, b \in ballots : a[1] = b[1] /\ a[2] = b[2] => a[3] = b[3]
WinnersSupported == \A w \in winners : Elects(Supporters(w[1], w[2]))
BallotInv        == TypeOK /\ OneBallot /\ WinnersSupported

\* Two sets that elect have a voter in common.
LEMMA ElectorsMeet ==
  ASSUME Lawful, NEW S, NEW T, Elects(S), Elects(T)
  PROVE  S \cap T # {}
BY DEF Lawful, Elects

\* Every reachable state is well typed, has one ballot per voter and term, and a
\* quorum behind each winner.
THEOREM BallotInvariant ==
  ASSUME Lawful
  PROVE  Spec => []BallotInv
<1>1. Init => BallotInv
  BY DEF Lawful, Init, BallotInv, TypeOK, OneBallot, WinnersSupported
<1>2. BallotInv /\ [Next]_vars => BallotInv'
  <2> SUFFICES ASSUME BallotInv, [Next]_vars PROVE BallotInv' OBVIOUS
  <2> USE DEF BallotInv
  <2>1. ASSUME NEW v \in Voter, NEW t \in Term, Join(v, t) PROVE BallotInv'
    <3>1. TypeOK' BY <2>1 DEF Join, TypeOK
    <3>2. OneBallot' /\ WinnersSupported'
      BY <2>1 DEF Join, OneBallot, WinnersSupported, Supporters
    <3> QED BY <3>1, <3>2
  <2>2. ASSUME NEW v \in Voter, NEW c \in Voter, NEW t \in Term, Cast(v, t, c)
        PROVE  BallotInv'
    <3>1. TypeOK' BY <2>2 DEF Cast, TypeOK
    <3>2. OneBallot' BY <2>2 DEF Cast, TypeOK, OneBallot
    <3>3. ASSUME NEW w \in winners' PROVE Elects(Supporters(w[1], w[2])')
      <4>1. w \in winners /\ ballots \subseteq ballots' BY <2>2 DEF Cast
      <4>2. Elects(Supporters(w[1], w[2])) BY <4>1 DEF WinnersSupported
      <4>3. Supporters(w[1], w[2]) \subseteq Supporters(w[1], w[2])'
        BY <4>1 DEF Supporters
      <4> QED BY <4>2, <4>3 DEF Elects
    <3>4. WinnersSupported' BY <3>3 DEF WinnersSupported, Elects
    <3> QED BY <3>1, <3>2, <3>4
  <2>3. ASSUME NEW c \in Voter, NEW t \in Term, Declare(c, t) PROVE BallotInv'
    <3>1. TypeOK' BY <2>3 DEF Declare, TypeOK
    <3>2. OneBallot' BY <2>3 DEF Declare, OneBallot
    <3>3. \A w \in winners' : Elects(Supporters(w[1], w[2]))
      BY <2>3 DEF Declare, WinnersSupported
    <3>4. WinnersSupported'
      BY <2>3, <3>3 DEF Declare, WinnersSupported, Supporters, Elects
    <3> QED BY <3>1, <3>2, <3>4
  <2>4. CASE UNCHANGED vars
    BY <2>4 DEF vars, TypeOK, OneBallot, WinnersSupported, Supporters, Elects
  <2> QED BY <2>1, <2>2, <2>3, <2>4 DEF Next
<1> QED BY <1>1, <1>2, PTL DEF Spec

\* No term has two winners: the supporters of both would share a voter with two ballots.
THEOREM BallotUniqueWinner ==
  ASSUME Lawful
  PROVE  Spec => []UniqueWinner
<1>1. BallotInv => UniqueWinner
  <2> SUFFICES ASSUME BallotInv, NEW v \in winners, NEW w \in winners, v[2] = w[2]
               PROVE  v[1] = w[1]
    BY DEF UniqueWinner
  <2>1. /\ Elects(Supporters(v[1], v[2])) /\ Elects(Supporters(w[1], w[2]))
        /\ Supporters(v[1], v[2]) \in SUBSET Voter /\ Supporters(w[1], w[2]) \in SUBSET Voter
    BY DEF BallotInv, WinnersSupported, Supporters
  <2>2. Supporters(v[1], v[2]) \cap Supporters(w[1], w[2]) # {} BY <2>1, ElectorsMeet
  <2>3. PICK x \in Voter : <<x, v[2], v[1]>> \in ballots /\ <<x, w[2], w[1]>> \in ballots
    BY <2>2 DEF Supporters
  <2> QED BY <2>3 DEF BallotInv, OneBallot
<1> QED BY <1>1, BallotInvariant, PTL
=============================================================================
