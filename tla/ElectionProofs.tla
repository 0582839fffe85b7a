--------------------------- MODULE ElectionProofs ---------------------------
(***************************************************************************)
(* Votes and winners.                                                      *)
(*                                                                         *)
(* Seen from term, vote and ballots, every step of the cluster does one of *)
(* three things (ServerStep): nothing, a node moves to a term no older     *)
(* than its own and forgets its vote only if the term is newer, or a node  *)
(* casts a ballot it may cast.  So the vote of a node remembers its ballot *)
(* in its present term, and older terms are closed: one vote per term.     *)
(*                                                                         *)
(* For winners, what a main loop has counted is backed by ballots          *)
(* (LoopsBacked), so the winners are those of the abstract Ballot.         *)
(***************************************************************************)
EXTENDS RaftTypes

Moves(n, t) ==
  /\ t >= term[n]
  /\ term' = [term EXCEPT ![n] = t]
  /\ vote' = [vote EXCEPT ![n] = IF t > term[n] THEN Nil ELSE @]
  /\ UNCHANGED ballots

Votes(v, t, c) ==
  /\ t >= term[v]
  /\ t = term[v] => vote[v] \in {Nil, c}
  /\ term' = [term EXCEPT ![v] = t]
  /\ vote' = [vote EXCEPT ![v] = c]
  /\ ballots' = ballots \cup {<<v, t, c>>}

ServerStep ==
  \/ UNCHANGED <<term, vote, ballots>>
  \/ \E n \in Node, t \in Term : Moves(n, t)
  \/ \E v, c \in Node, t \in Term : Votes(v, t, c)

LEMMA CandidateVotes ==
  ASSUME ServerOK, NEW n \in Node, term[n] < MaxTerm, BecomeCandidate(n)
  PROVE  ServerStep
<1>1. term[n] + 1 \in Term /\ term[n] \in Nat BY TermNat DEF ServerOK
<1>2. Votes(n, term[n] + 1, n) BY <1>1 DEF BecomeCandidate, Votes, ServerOK
<1> QED BY <1>1, <1>2 DEF ServerStep

LEMMA LargerTerm ==
  ASSUME NEW t \in Term, NEW u \in Term
  PROVE  /\ Larger(t, u) \in Term /\ Larger(t, u) >= t /\ (Larger(t, u) > t <=> u > t)
         /\ u >= t => Larger(t, u) = u
BY TermNat DEF Larger

LEMMA FollowerMoves ==
  ASSUME ServerOK, NEW n \in Node, NEW t \in Term, NEW p, BecomeFollower(n, t, p),
         UNCHANGED ballots
  PROVE  ServerStep
<1> DEFINE u == Larger(term[n], t)
<1>1. u \in Term /\ u >= term[n] /\ (u > term[n] <=> t > term[n])
  BY LargerTerm DEF ServerOK
<1>2. term' = [term EXCEPT ![n] = u] BY DEF BecomeFollower
<1>3. vote' = [vote EXCEPT ![n] = IF u > term[n] THEN Nil ELSE @]
  BY <1>1 DEF BecomeFollower
<1> HIDE DEF u
<1>4. Moves(n, u) BY <1>1, <1>2, <1>3 DEF Moves
<1> QED BY <1>1, <1>4 DEF ServerStep

LEMMA GrantVotes ==
  ASSUME TypeOK, NEW n \in Node, NEW t \in Task, NEW v \in Node, GrantVote(n, t, v)
  PROVE  ServerStep
<1> USE TypeParts
<1> DEFINE q == camp[n][t].term
<1>1. q \in Term /\ q \in Nat /\ term[v] \in Nat
  BY AskedTyped, TermNat DEF GrantVote, ServerOK
<1>2. q >= term[v] /\ VoteIn(v, q) \in {Nil, n} BY DEF GrantVote, CanVote
<1>3. term' = [term EXCEPT ![v] = q]
  <2>1. Larger(term[v], q) = q BY <1>1, <1>2, LargerTerm DEF ServerOK
  <2>2. term' = [term EXCEPT ![v] = Larger(term[v], q)] BY DEF GrantVote, JoinTerm
  <2> QED BY <2>1, <2>2
<1>4. vote' = [vote EXCEPT ![v] = n] /\ ballots' = ballots \cup {<<v, q, n>>}
  BY DEF GrantVote
<1> HIDE DEF q
<1>5. q = term[v] => vote[v] \in {Nil, n} BY <1>1, <1>2 DEF VoteIn
<1>6. Votes(v, q, n) BY <1>2, <1>3, <1>4, <1>5 DEF Votes
<1> QED BY <1>1, <1>6 DEF ServerStep

LEMMA DenyMoves ==
  ASSUME TypeOK, NEW n \in Node, NEW t \in Task, NEW v \in Node, DenyVote(n, t, v)
  PROVE  ServerStep
<1> USE TypeParts
<1> DEFINE q == camp[n][t].term
<1>1. q \in Term /\ q \in Nat /\ term[v] \in Nat /\ q >= term[v]
  BY AskedTyped, TermNat DEF DenyVote, ServerOK
<1>2. term' = [term EXCEPT ![v] = q]
  <2>1. Larger(term[v], q) = q BY <1>1, LargerTerm DEF ServerOK
  <2>2. term' = [term EXCEPT ![v] = Larger(term[v], q)] BY DEF DenyVote, JoinTerm
  <2> QED BY <2>1, <2>2
<1>3. vote' = [vote EXCEPT ![v] = IF q > term[v] THEN Nil ELSE @] BY DEF DenyVote, VoteIn
<1>4. UNCHANGED ballots BY DEF DenyVote
<1> HIDE DEF q
<1>5. Moves(v, q) BY <1>1, <1>2, <1>3, <1>4 DEF Moves
<1> QED BY <1>1, <1>5 DEF ServerStep

\* append_entries and install_snapshot.
LEMMA YieldMoves ==
  ASSUME TypeOK, NEW m \in calls, YieldTo(m), UNCHANGED ballots
  PROVE  ServerStep
<1> USE TypeParts
<1>1. m.to \in Node /\ m.req.term \in Term BY ReceivedTyped
<1> QED BY <1>1, FollowerMoves DEF YieldTo, ServerStep

LEMMA CampaignServerStep ==
  ASSUME TypeOK, NEW n \in Node, NEW t \in Task, CampaignStep(n, t) \/ VoteCallFails(n, t)
  PROVE  ServerStep
<1> USE TypeParts
<1>1. CASE \/ SaveCandidate(n, t) \/ SaveVote(n, t) \/ AnswerVote(n, t)
           \/ VoteCallFails(n, t) \/ \E v \in Node : RejectStaleVote(n, t, v)
  BY <1>1 DEF SaveCandidate, SaveVote, AnswerVote, VoteCallFails, RejectStaleVote, stateVars,
     ServerStep
<1>2. CASE FinishCampaign(n, t)
  BY <1>2 DEF FinishCampaign, BecomeLeader, stateVars, ServerStep
<1>3. CASE ReceiveVote(n, t)
  <2> DEFINE c == camp[n][t]
  <2>1. CASE t = Loop /\ c.reply.term > c.term
    <3>1. BecomeFollower(n, c.reply.term, Nil) /\ UNCHANGED ballots
      BY <1>3, <2>1 DEF ReceiveVote
    <3>2. CampaignShape(n, t, c) BY <1>3, CampaignTyped DEF ReceiveVote
    <3>3. c.reply.term \in Term BY <1>3, <3>2 DEF ReceiveVote, CampaignShape, VoteReply
    <3> QED BY <3>1, <3>3, FollowerMoves
  <2>2. CASE ~(t = Loop /\ c.reply.term > c.term)
    BY <1>3, <2>2 DEF ReceiveVote, stateVars, ServerStep
  <2> QED BY <2>1, <2>2
<1> QED BY <1>1, <1>2, <1>3, GrantVotes, DenyMoves DEF CampaignStep

LEMMA ElectionServerStep ==
  ASSUME TypeOK, NEW n \in Node, ElectionStep(n)
  PROVE  ServerStep
<1> USE TypeParts
<1>1. CASE \E t \in Task : CampaignStep(n, t) \/ VoteCallFails(n, t)
  BY <1>1, CampaignServerStep
<1>2. CASE \/ StartElection(n) \/ PreVote(n) \/ PreVoteLost(n)
           \/ \E t \in Handler : CopyState(n, t)
           \/ \E p \in Node : TransferLeader(n, p)
           \/ SendTimeoutNow(n) \/ RejectTimeoutNow(n) \/ TimeoutNowFails(n)
  BY <1>2 DEF StartElection, PreVote, PreVoteLost, CopyState, TransferLeader,
     SendTimeoutNow, RejectTimeoutNow, TimeoutNowFails, stateVars, ServerStep
<1>3. CASE StartRealElection(n) BY <1>3, CandidateVotes DEF StartRealElection
<1>4. CASE \E t \in Handler : HandleTimeoutNow(n, t)
  <2>1. xfer[n].target \in Node BY <1>4 DEF HandleTimeoutNow, WaitOK, Option, Transfer
  <2> QED BY <1>4, <2>1, CandidateVotes DEF HandleTimeoutNow
<1>5. CASE ReceiveTimeoutNow(n)
  <2>1. xfer[n].reply \in Term BY <1>5 DEF ReceiveTimeoutNow, WaitOK, Option, Transfer
  <2> QED BY <1>5, <2>1, FollowerMoves DEF ReceiveTimeoutNow, stateVars, ServerStep
<1>6. CASE StepDown(n)
  <2>1. xfer[n].term \in Term BY <1>6 DEF StepDown, WaitOK, Option, Transfer
  <2> QED BY <1>6, <2>1, FollowerMoves DEF StepDown
<1> QED BY <1>1, <1>2, <1>3, <1>4, <1>5, <1>6 DEF ElectionStep

LEMMA ReplicationServerStep ==
  ASSUME TypeOK, ReplicationStep
  PROVE  ServerStep
<1>1. CASE \E n \in Node : LoopStep(n)
  BY <1>1, LoopLeavesElections DEF electionVars, stateVars, ServerStep
<1>2. CASE WriteStep
  BY <1>2
     DEF WriteStep, Put, PutHangs, PutBreaks, electionVars, campaignVars, stateVars, ServerStep
<1>3. CASE \E m \in calls : Handled(m) \/ CallFails(m)
  <2>1. PICK m \in calls : Handled(m) \/ CallFails(m) BY <1>3
  <2>2. CASE Wedge(m) \/ MismatchAppend(m) \/ AcceptAppend(m) \/ InstallSnapshot(m)
    BY <2>2, YieldMoves
       DEF Wedge, MismatchAppend, AcceptAppend, InstallSnapshot, electionVars, campaignVars
  <2>3. CASE NewerTermAnswer(m)
    <3>1. m.from \in Node /\ m.reply.term \in Term
      BY <2>3, TypeParts, ReceivedTyped, AnswerTyped DEF NewerTermAnswer
    <3> QED BY <2>3, <3>1, TypeParts, FollowerMoves DEF NewerTermAnswer, electionVars
  <2>4. CASE \/ RejectStaleAppend(m) \/ RejectStaleSnapshot(m) \/ AppendAnswer(m)
             \/ SnapshotAnswer(m) \/ CallFails(m)
    BY <2>4 DEF RejectStaleAppend, RejectStaleSnapshot, AppendAnswer, SnapshotAnswer,
       CallFails, electionVars, campaignVars, stateVars, ServerStep
  <2> QED BY <2>1, <2>2, <2>3, <2>4 DEF Handled
<1> QED BY <1>1, <1>2, <1>3 DEF ReplicationStep

LEMMA NextServerStep == TypeInv /\ [Next]_vars => ServerStep
<1> SUFFICES ASSUME TypeInv, [Next]_vars PROVE ServerStep OBVIOUS
<1>1. CASE UNCHANGED vars BY <1>1 DEF vars, ServerStep
<1>2. CASE Next BY <1>2, ElectionServerStep, ReplicationServerStep, NextParts DEF TypeInv
<1> QED BY <1>1, <1>2

-----------------------------------------------------------------------------
(* One vote per term. *)

\* The vote of a node is its ballot in its present term; there are none in later terms.
VoteRemembersBallot ==
  \A b \in ballots : b[2] <= term[b[1]] /\ (b[2] = term[b[1]] => vote[b[1]] = b[3])

VoteInv == TypeInv /\ VoteRemembersBallot /\ OneVotePerTerm

LEMMA BallotFields ==
  ASSUME TypeOK, NEW b \in ballots
  PROVE  /\ b[1] \in Node /\ b[2] \in Term /\ b[3] \in Node /\ b = <<b[1], b[2], b[3]>>
         /\ b[2] \in Nat /\ term[b[1]] \in Nat /\ b[3] # Nil
<1>1. b \in Node \X Term \X Node /\ term \in [Node -> Term] BY DEF TypeOK
<1>2. b[1] \in Node /\ b[2] \in Term /\ b[3] \in Node /\ b = <<b[1], b[2], b[3]>> BY <1>1
<1> QED BY <1>1, <1>2, TermNat, NodeAssumption

LEMMA VoteStep == VoteInv /\ [Next]_vars => VoteInv'
<1> SUFFICES ASSUME VoteInv, [Next]_vars PROVE VoteInv' OBVIOUS
<1>1. TypeInv' /\ ServerStep BY NextTypes, NextServerStep DEF VoteInv
<1>2. TypeOK /\ VoteRemembersBallot /\ OneVotePerTerm BY DEF VoteInv, TypeInv
<1>3. term \in [Node -> Term] /\ vote \in [Node -> Option(Node)] BY <1>2 DEF TypeOK
<1>4. CASE UNCHANGED <<term, vote, ballots>>
  BY <1>1, <1>2, <1>4 DEF VoteInv, VoteRemembersBallot, OneVotePerTerm
<1>5. ASSUME NEW n \in Node, NEW t \in Term, Moves(n, t) PROVE VoteInv'
  <2>1. ASSUME NEW b \in ballots
        PROVE  b[2] <= term'[b[1]] /\ (b[2] = term'[b[1]] => vote'[b[1]] = b[3])
    <3>1. t \in Nat /\ term[n] \in Nat BY <1>3, TermNat
    <3>2. CASE b[1] = n
      BY <1>2, <1>3, <1>5, <3>1, <3>2, BallotFields DEF Moves, VoteRemembersBallot
    <3>3. CASE b[1] # n
      BY <1>2, <1>3, <1>5, <3>3, BallotFields DEF Moves, VoteRemembersBallot
    <3> QED BY <3>2, <3>3
  <2>2. ballots' = ballots BY <1>5 DEF Moves
  <2> QED BY <1>1, <1>2, <2>1, <2>2 DEF VoteInv, VoteRemembersBallot, OneVotePerTerm
<1>6. ASSUME NEW v \in Node, NEW c \in Node, NEW t \in Term, Votes(v, t, c) PROVE VoteInv'
  <2>1. t \in Nat /\ term[v] \in Nat /\ t >= term[v] BY <1>3, <1>6, TermNat DEF Votes
  <2>2. \A b \in ballots : b[1] = v /\ b[2] = t => b[3] = c
    BY <1>2, <1>6, <2>1, BallotFields DEF Votes, VoteRemembersBallot
  <2>3. OneVotePerTerm' BY <1>2, <1>6, <2>2 DEF Votes, OneVotePerTerm
  <2>4. term'[v] = t /\ vote'[v] = c BY <1>3, <1>6 DEF Votes
  <2>5. ASSUME NEW b \in ballots
        PROVE  b[2] <= term'[b[1]] /\ (b[2] = term'[b[1]] => vote'[b[1]] = b[3])
    <3>1. CASE b[1] = v
      BY <1>2, <2>1, <2>2, <2>4, <3>1, BallotFields DEF VoteRemembersBallot
    <3>2. CASE b[1] # v
      BY <1>2, <1>3, <1>6, <3>2, BallotFields DEF Votes, VoteRemembersBallot
    <3> QED BY <3>1, <3>2
  <2>6. VoteRemembersBallot' BY <1>6, <2>1, <2>4, <2>5 DEF Votes, VoteRemembersBallot
  <2> QED BY <1>1, <2>3, <2>6 DEF VoteInv
<1> QED BY <1>1, <1>4, <1>5, <1>6 DEF ServerStep

THEOREM RaftVoteInvariant == Spec => []VoteInv
<1>1. Init => VoteInv
  BY InitTypes DEF Init, VoteInv, VoteRemembersBallot, OneVotePerTerm
<1> QED BY <1>1, VoteStep, PTL DEF Spec

\* A node casts one vote in a term, for every cluster and every interleaving of
\* campaigns, votes, transfers, heartbeats and failing calls.
THEOREM RaftOneVotePerTerm == Spec => []OneVotePerTerm
<1>1. VoteInv => OneVotePerTerm BY DEF VoteInv
<1> QED BY <1>1, RaftVoteInvariant, PTL

\* None of the three kinds of steps undoes a vote.
LEMMA StepKeepsVotes ==
  ASSUME ServerOK, ServerStep, NEW n \in Node
  PROVE  KeepsVote(n)
<1>1. /\ term \in [Node -> Term] /\ vote \in [Node -> Option(Node)]
      /\ term[n] \in Nat
  BY TermNat DEF ServerOK
<1>2. CASE UNCHANGED <<term, vote, ballots>> BY <1>1, <1>2 DEF KeepsVote
<1>3. ASSUME NEW p \in Node, NEW t \in Term, Moves(p, t)
      PROVE  KeepsVote(n)
  BY <1>1, <1>3, TermNat DEF Moves, KeepsVote
<1>4. ASSUME NEW v \in Node, NEW c \in Node, NEW t \in Term, Votes(v, t, c)
      PROVE  KeepsVote(n)
  BY <1>1, <1>4, TermNat DEF Votes, KeepsVote
<1> QED BY <1>2, <1>3, <1>4 DEF ServerStep

\* A vote stands until the term changes, and terms never go back.
THEOREM RaftVoteStands == Spec => VoteStands
<1>1. TypeInv /\ [Next]_vars => [\A n \in Node : KeepsVote(n)]_vars
  BY NextServerStep, StepKeepsVotes, TypeParts DEF TypeInv
<1> QED BY <1>1, RaftTypeInvariant, PTL DEF Spec, VoteStands

-----------------------------------------------------------------------------
(* What main loops count. *)

\* Past PreVote, the votes campaign c of n's main loop has counted, and the one being
\* given to it, are among the ballots B.
Backed(B, n, c) ==
  c # Nil /\ c.st # "pre" =>
    /\ \A v \in c.yes : <<v, c.term, n>> \in B
    /\ c.st \in {"saving", "saved"} \/ (c.st = "got" /\ c.reply.granted)
         => <<Peer(n, c), c.term, n>> \in B

LoopsBacked == \A n \in Node : Backed(ballots, n, camp[n][Loop])

\* Every win of a main loop has the ballots of a majority.
Supported(B, c, t) == 2 * Cardinality({v \in Node : <<v, t, c>> \in B}) > Cardinality(Node)
WinsSupported == \A w \in wins : w.task = Loop => Supported(ballots, w.node, w.term)

LEMMA BackedGrows ==
  ASSUME NEW B, NEW D, B \subseteq D, NEW n, NEW c, Backed(B, n, c)
  PROVE  Backed(D, n, c)
BY DEF Backed

LEMMA CampaignBacked ==
  ASSUME CampOK, LoopsBacked, ballots \subseteq ballots',
         NEW n \in Node, NEW t \in Task, NEW c, SetCamp(n, t, c),
         t = Loop => Backed(ballots', n, c)
  PROVE  LoopsBacked'
<1>1. ASSUME NEW p \in Node PROVE Backed(ballots', p, camp'[p][Loop])
  <2>0. Loop \in Task BY DEF Task
  <2>1. CASE p = n /\ t = Loop BY <2>0, <2>1 DEF SetCamp, CampOK
  <2>2. CASE ~(p = n /\ t = Loop)
    <3>1. camp'[p][Loop] = camp[p][Loop] BY <2>0, <2>2 DEF SetCamp, CampOK
    <3>2. Backed(ballots, p, camp[p][Loop]) BY DEF LoopsBacked
    <3> HIDE DEF LoopsBacked
    <3> QED BY <3>1, <3>2, BackedGrows
  <2> QED BY <2>1, <2>2
<1> QED BY <1>1 DEF LoopsBacked, Backed, Peer

LEMMA CampaignsUntouched ==
  ASSUME LoopsBacked, ballots \subseteq ballots',
         \A n \in Node : camp'[n][Loop] = camp[n][Loop]
  PROVE  LoopsBacked'
<1>1. ASSUME NEW n \in Node PROVE Backed(ballots', n, camp'[n][Loop])
  BY BackedGrows DEF LoopsBacked
<1> QED BY <1>1 DEF LoopsBacked, Backed, Peer

LEMMA CampaignStepBacked ==
  ASSUME TypeOK, LoopsBacked, NEW n \in Node, NEW t \in Task,
         CampaignStep(n, t) \/ VoteCallFails(n, t)
  PROVE  LoopsBacked'
<1> USE TypeParts
<1> DEFINE c == camp[n][t]
<1>1. Running(n, t)
  BY DEF CampaignStep, VoteCallFails, SaveCandidate, ReceiveVote, FinishCampaign,
     RejectStaleVote, GrantVote, DenyVote, Asked, SaveVote, AnswerVote, Calling
<1>2. c \in CampaignRecord BY <1>1, CampaignTyped
<1>3. t = Loop => Backed(ballots, n, c) BY DEF LoopsBacked
<1>4. CASE SaveCandidate(n, t)
  <2> DEFINE d == [c EXCEPT !.st = "ask", !.data = Nil,
                   !.lastTerm = LastTerm(log[n]), !.lastIdx = LastIndex(log[n])]
  <2>1. SetCamp(n, t, d) /\ ballots \subseteq ballots' BY <1>4 DEF SaveCandidate
  <2>2. t = Loop => Backed(ballots', n, d)
    BY <1>1, <1>2, <1>3, <1>4, BackedGrows
       DEF SaveCandidate, CampaignRecord, Backed, Running, Peer
  <2> HIDE DEF d
  <2> QED BY <2>1, <2>2, CampaignBacked
<1>5. CASE SaveVote(n, t)
  <2> DEFINE d == [c EXCEPT !.st = "saved", !.data = Nil]
  <2>1. SetCamp(n, t, d) /\ ballots \subseteq ballots' BY <1>5 DEF SaveVote
  <2>2. t = Loop => Backed(ballots', n, d)
    BY <1>1, <1>2, <1>3, <1>5, BackedGrows
       DEF SaveVote, CampaignRecord, Backed, Running, Peer
  <2> HIDE DEF d
  <2> QED BY <2>1, <2>2, CampaignBacked
<1>6. CASE AnswerVote(n, t)
  <2> DEFINE d == [c EXCEPT !.st = "got",
                   !.reply = [term |-> term[Peer(n, c)], granted |-> TRUE]]
  <2>1. SetCamp(n, t, d) /\ ballots \subseteq ballots' BY <1>6 DEF AnswerVote
  <2>2. t = Loop => Backed(ballots', n, d)
    BY <1>1, <1>2, <1>3, <1>6, BackedGrows
       DEF AnswerVote, CampaignRecord, Backed, Running, Peer
  <2> HIDE DEF d
  <2> QED BY <2>1, <2>2, CampaignBacked
<1>7. CASE VoteCallFails(n, t)
  <2> DEFINE st == IF c.st = "pre" THEN "pre" ELSE "ask"
             d == [c EXCEPT !.i = @ + 1, !.data = Nil, !.st = st]
  <2>1. SetCamp(n, t, d) /\ UNCHANGED ballots BY <1>7 DEF VoteCallFails
  <2>2. st \in {"pre", "ask"} /\ (st = "pre" <=> c.st = "pre") OBVIOUS
  <2> HIDE DEF st
  <2>3. d.st = st /\ d.yes = c.yes /\ d.term = c.term BY <1>2 DEF CampaignRecord
  <2> HIDE DEF d
  <2>4. t = Loop => Backed(ballots', n, d) BY <1>1, <1>3, <2>1, <2>2, <2>3 DEF Backed, Running
  <2> QED BY <2>1, <2>4, CampaignBacked
<1>8. ASSUME NEW v \in Node, RejectStaleVote(n, t, v) PROVE LoopsBacked'
  <2> DEFINE d == [c EXCEPT !.st = "got", !.reply = [term |-> term[v], granted |-> FALSE]]
  <2>1. SetCamp(n, t, d) /\ UNCHANGED ballots /\ c.st = "ask"
    BY <1>8 DEF RejectStaleVote, Asked
  <2>2. d.st = "got" /\ ~d.reply.granted /\ d.yes = c.yes /\ d.term = c.term
    BY <1>2 DEF CampaignRecord
  <2> HIDE DEF d
  <2>3. t = Loop => Backed(ballots', n, d) BY <1>1, <1>3, <2>1, <2>2 DEF Backed, Running
  <2> QED BY <2>1, <2>3, CampaignBacked
<1>9. ASSUME NEW v \in Node, GrantVote(n, t, v) PROVE LoopsBacked'
  <2> DEFINE d == [c EXCEPT !.st = "saving", !.data = PersistentData(c.term, n, log[v])]
  <2>1. SetCamp(n, t, d) /\ ballots \subseteq ballots' BY <1>9 DEF GrantVote
  <2>3. v = Peer(n, c) /\ c.st = "ask" BY <1>9 DEF GrantVote, Asked
  <2>2. t = Loop => Backed(ballots', n, d)
    BY <1>1, <1>2, <1>3, <1>9, <2>3, BackedGrows
       DEF GrantVote, CampaignRecord, Backed, Running, Peer
  <2> HIDE DEF d
  <2> QED BY <2>1, <2>2, CampaignBacked
<1>10. ASSUME NEW v \in Node, DenyVote(n, t, v) PROVE LoopsBacked'
  <2> DEFINE d == [c EXCEPT !.st = "wait"]
  <2>1. SetCamp(n, t, d) /\ ballots \subseteq ballots' BY <1>10 DEF DenyVote
  <2>3. c.st = "ask" BY <1>10 DEF DenyVote, Asked
  <2>2. t = Loop => Backed(ballots', n, d)
    BY <1>1, <1>2, <1>3, <1>10, <2>3, BackedGrows
       DEF DenyVote, CampaignRecord, Backed, Running, Peer
  <2> HIDE DEF d
  <2> QED BY <2>1, <2>2, CampaignBacked
<1>11. CASE FinishCampaign(n, t)
  BY <1>11, CampaignBacked DEF FinishCampaign, Backed
<1>12. CASE ReceiveVote(n, t)
  <2>1. CASE t = Loop /\ c.reply.term > c.term
    BY <1>12, <2>1, CampaignBacked DEF ReceiveVote, Backed
  <2>2. CASE ~(t = Loop /\ c.reply.term > c.term)
    <3> DEFINE yes == IF c.reply.granted THEN c.yes \cup {Peer(n, c)} ELSE c.yes
               d == [c EXCEPT !.st = "ask", !.i = @ + 1, !.reply = Nil, !.yes = yes]
    <3>1. SetCamp(n, t, d) /\ UNCHANGED ballots BY <1>12, <2>2 DEF ReceiveVote
    <3>2. t = Loop => \A v \in yes : <<v, c.term, n>> \in ballots
      BY <1>1, <1>3, <1>12 DEF ReceiveVote, Backed, Running
    <3> HIDE DEF yes
    <3>3. d.st = "ask" /\ d.yes = yes /\ d.term = c.term BY <1>2 DEF CampaignRecord
    <3> HIDE DEF d
    <3>4. t = Loop => Backed(ballots', n, d) BY <3>1, <3>2, <3>3 DEF Backed
    <3> QED BY <3>1, <3>4, CampaignBacked
  <2> QED BY <2>1, <2>2
<1> QED BY <1>4, <1>5, <1>6, <1>7, <1>8, <1>9, <1>10, <1>11, <1>12 DEF CampaignStep

LEMMA ElectionBacked ==
  ASSUME TypeOK, LoopsBacked, NEW n \in Node, ElectionStep(n)
  PROVE  LoopsBacked'
<1> USE TypeParts
<1>1. CASE \E t \in Task : CampaignStep(n, t) \/ VoteCallFails(n, t)
  BY <1>1, CampaignStepBacked
<1>2. CASE StartElection(n)
  <2> DEFINE c == [Campaign("pre", n) EXCEPT !.term = term[n] + 1,
                     !.lastTerm = LastTerm(log[n]), !.lastIdx = LastIndex(log[n])]
  <2>1. SetCamp(n, Loop, c) /\ UNCHANGED ballots /\ Loop \in Task
    BY <1>2 DEF StartElection, Task
  <2>2. Backed(ballots', n, c) BY DEF Campaign, Backed
  <2> HIDE DEF c
  <2> QED BY <2>1, <2>2, CampaignBacked
<1>3. CASE PreVote(n)
  <2> DEFINE c == camp[n][Loop]
             yes == IF GrantsPreVote(Peer(n, c), c) THEN c.yes \cup {Peer(n, c)} ELSE c.yes
             d == [c EXCEPT !.i = @ + 1, !.yes = yes]
  <2>1. /\ SetCamp(n, Loop, d) /\ UNCHANGED ballots /\ Loop \in Task /\ c.st = "pre"
        /\ Running(n, Loop)
    BY <1>3 DEF PreVote, Task
  <2>2. c \in CampaignRecord BY <2>1, CampaignTyped
  <2> HIDE DEF c, yes
  <2>3. d.st = "pre" BY <2>1, <2>2 DEF CampaignRecord
  <2> HIDE DEF d
  <2>4. Backed(ballots', n, d) BY <2>3 DEF Backed
  <2> QED BY <2>1, <2>4, CampaignBacked
<1>4. CASE PreVoteLost(n)
  BY <1>4, CampaignBacked DEF PreVoteLost, Backed, Task
<1>5. CASE StartRealElection(n)
  <2> DEFINE c == [Campaign("save", n) EXCEPT !.term = term[n] + 1,
                     !.data = PersistentData(term[n] + 1, n, log[n])]
  <2>1. /\ SetCamp(n, Loop, c) /\ ballots' = ballots \cup {<<n, term[n] + 1, n>>}
        /\ Loop \in Task
    BY <1>5 DEF StartRealElection, BecomeCandidate, Task
  <2>2. c.st = "save" /\ c.yes = {n} /\ c.term = term[n] + 1 BY DEF Campaign
  <2> HIDE DEF c
  <2>3. Backed(ballots', n, c) BY <2>1, <2>2 DEF Backed
  <2> QED BY <2>1, <2>3, CampaignBacked
<1>6. ASSUME NEW t \in Handler, CopyState(n, t) PROVE LoopsBacked'
  BY <1>6, TaskAssumption, CampaignBacked DEF CopyState, Task
<1>7. ASSUME NEW t \in Handler, HandleTimeoutNow(n, t) PROVE LoopsBacked'
  <2>1. xfer[n].target \in Node BY <1>7 DEF HandleTimeoutNow, WaitOK, Option, Transfer
  <2> QED
    BY <1>7, <2>1, TaskAssumption, CampaignBacked DEF HandleTimeoutNow, BecomeCandidate, Task
<1>8. CASE TimeoutNowFails(n)
  <2>1. \A p \in Node : camp'[p][Loop] = camp[p][Loop]
    BY <1>8, TaskAssumption DEF TimeoutNowFails, EndCampaigns, Served, Task
  <2> QED BY <1>8, <2>1, CampaignsUntouched DEF TimeoutNowFails
<1>9. CASE \/ \E p \in Node : TransferLeader(n, p)
           \/ SendTimeoutNow(n) \/ RejectTimeoutNow(n) \/ ReceiveTimeoutNow(n)
           \/ StepDown(n)
  BY <1>9, CampaignsUntouched
     DEF TransferLeader, SendTimeoutNow, RejectTimeoutNow, ReceiveTimeoutNow, StepDown
<1> QED
  BY <1>1, <1>2, <1>3, <1>4, <1>5, <1>6, <1>7, <1>8, <1>9 DEF ElectionStep

\* wins grows only where a campaign finishes with a majority.
LEMMA ElectionWins ==
  ASSUME NEW n \in Node, ElectionStep(n)
  PROVE  \/ UNCHANGED wins
         \/ \E t \in Task :
              /\ FinishCampaign(n, t) /\ HasMajority(n, camp[n][t])
              /\ wins' = wins \cup
                   {[node |-> n, task |-> t, term |-> camp[n][t].term, at |-> term[n]]}
              /\ UNCHANGED <<ballots, term>>
<1>1. CASE \E t \in Task : FinishCampaign(n, t)
  BY <1>1 DEF FinishCampaign, BecomeLeader
<1>2. CASE \E t \in Task : \/ SaveCandidate(n, t) \/ ReceiveVote(n, t)
                           \/ SaveVote(n, t) \/ AnswerVote(n, t) \/ VoteCallFails(n, t)
                           \/ \E v \in Node : RejectStaleVote(n, t, v) \/ GrantVote(n, t, v)
                                             \/ DenyVote(n, t, v)
  <2>1. ASSUME NEW t \in Task, SaveCandidate(n, t) \/ ReceiveVote(n, t)
        PROVE  UNCHANGED wins
    BY <2>1 DEF SaveCandidate, ReceiveVote
  <2>2. ASSUME NEW t \in Task, SaveVote(n, t) \/ AnswerVote(n, t) \/ VoteCallFails(n, t)
        PROVE  UNCHANGED wins
    BY <2>2 DEF SaveVote, AnswerVote, VoteCallFails
  <2>3. ASSUME NEW t \in Task, NEW v \in Node,
               RejectStaleVote(n, t, v) \/ GrantVote(n, t, v) \/ DenyVote(n, t, v)
        PROVE  UNCHANGED wins
    BY <2>3 DEF RejectStaleVote, GrantVote, DenyVote
  <2> QED BY <1>2, <2>1, <2>2, <2>3
<1>3. CASE \/ StartElection(n) \/ PreVote(n) \/ PreVoteLost(n) \/ StartRealElection(n)
           \/ \E t \in Handler : CopyState(n, t) \/ HandleTimeoutNow(n, t)
           \/ \E p \in Node : TransferLeader(n, p)
           \/ SendTimeoutNow(n) \/ RejectTimeoutNow(n) \/ ReceiveTimeoutNow(n)
           \/ StepDown(n) \/ TimeoutNowFails(n)
  BY <1>3 DEF StartElection, PreVote, PreVoteLost, StartRealElection, CopyState,
     HandleTimeoutNow, TransferLeader, SendTimeoutNow, RejectTimeoutNow,
     ReceiveTimeoutNow, StepDown, TimeoutNowFails
<1> QED BY <1>1, <1>2, <1>3 DEF ElectionStep, CampaignStep

LEMMA MajoritySize ==
  ASSUME NEW n \in Node, NEW S \in SUBSET Node, Cardinality(S) >= Majority(n)
  PROVE  2 * Cardinality(S) > Cardinality(Node)
<1>1. Len(PeerSeq[n]) \in Nat /\ Len(PeerSeq[n]) + 1 = Cardinality(Node)
  BY PeersAssumption, LenProperties
<1>2. Cardinality(S) \in Nat BY NodeAssumption, FS_Subset, FS_CardinalityType
<1>3. \A c, k \in Nat : c >= k \div 2 + 1 => 2 * c > k BY SMT
<1>4. Cardinality(S) >= Cardinality(Node) \div 2 + 1 BY <1>1 DEF Majority
<1>5. Cardinality(Node) \in Nat BY NodeAssumption, FS_CardinalityType
<1> QED BY <1>2, <1>3, <1>4, <1>5

LEMMA SupportGrows ==
  ASSUME NEW B, NEW D, B \subseteq D, NEW c, NEW t, Supported(B, c, t)
  PROVE  Supported(D, c, t)
<1> DEFINE S == {v \in Node : <<v, t, c>> \in B}
           L == {v \in Node : <<v, t, c>> \in D}
<1>1. S \in SUBSET L /\ L \in SUBSET Node OBVIOUS
<1>2. 2 * Cardinality(S) > Cardinality(Node) BY DEF Supported
<1> HIDE DEF S, L
<1>3. IsFiniteSet(L) /\ IsFiniteSet(S) BY <1>1, NodeAssumption, FS_Subset
<1>4. /\ Cardinality(S) <= Cardinality(L)
      /\ Cardinality(S) \in Nat /\ Cardinality(L) \in Nat /\ Cardinality(Node) \in Nat
  BY <1>1, <1>3, NodeAssumption, FS_Subset, FS_CardinalityType
<1>5. 2 * Cardinality(L) > Cardinality(Node) BY <1>2, <1>4
<1> QED BY <1>5 DEF Supported, L

\* A loop that has counted a majority has its ballots.
LEMMA MajoritySupports ==
  ASSUME TypeOK, LoopsBacked, NEW n \in Node, Running(n, Loop), camp[n][Loop].st # "pre",
         HasMajority(n, camp[n][Loop])
  PROVE  Supported(ballots, n, camp[n][Loop].term)
<1> DEFINE c == camp[n][Loop]
           S == {v \in Node : <<v, c.term, n>> \in ballots}
<1>1. c \in CampaignRecord BY TypeParts, CampaignTyped DEF Task
<1>2. c.yes \in SUBSET Node BY <1>1 DEF CampaignRecord
<1>3. c.yes \in SUBSET S BY <1>2 DEF LoopsBacked, Backed, Running
<1>4. S \in SUBSET Node OBVIOUS
<1>5. 2 * Cardinality(c.yes) > Cardinality(Node) BY <1>2, MajoritySize DEF HasMajority
<1> HIDE DEF c, S
<1>6. IsFiniteSet(S) BY <1>4, NodeAssumption, FS_Subset
<1>7. /\ Cardinality(c.yes) <= Cardinality(S) /\ Cardinality(c.yes) \in Nat
      /\ Cardinality(S) \in Nat /\ Cardinality(Node) \in Nat
  BY <1>3, <1>6, NodeAssumption, FS_Subset, FS_CardinalityType
<1>8. 2 * Cardinality(S) > Cardinality(Node) BY <1>5, <1>7
<1> QED BY <1>8 DEF Supported, S, c

-----------------------------------------------------------------------------
(* Winners. *)

WinInv == VoteInv /\ LoopsBacked /\ WinsSupported

Won(n, t) ==
  /\ FinishCampaign(n, t) /\ HasMajority(n, camp[n][t])
  /\ wins' = wins \cup {[node |-> n, task |-> t, term |-> camp[n][t].term, at |-> term[n]]}
  /\ UNCHANGED <<ballots, term>>

LEMMA NextWins ==
  [Next]_vars => UNCHANGED wins \/ \E n \in Node, t \in Task : Won(n, t)
<1> SUFFICES ASSUME [Next]_vars
             PROVE  UNCHANGED wins \/ \E n \in Node, t \in Task : Won(n, t)
  OBVIOUS
<1>1. CASE UNCHANGED vars BY <1>1 DEF vars
<1>2. CASE \E n \in Node : ElectionStep(n) BY <1>2, ElectionWins DEF Won
<1>3. CASE ReplicationStep BY <1>3, ReplicationLeavesElections DEF campaignVars
<1> QED BY <1>1, <1>2, <1>3, NextParts

LEMMA NextBacked == TypeInv /\ LoopsBacked /\ [Next]_vars => LoopsBacked'
<1> SUFFICES ASSUME TypeInv, LoopsBacked, [Next]_vars PROVE LoopsBacked' OBVIOUS
<1>1. CASE UNCHANGED vars BY <1>1, CampaignsUntouched DEF vars
<1>2. CASE \E n \in Node : ElectionStep(n) BY <1>2, ElectionBacked DEF TypeInv
<1>3. CASE ReplicationStep
  BY <1>3, ReplicationLeavesElections, CampaignsUntouched DEF campaignVars
<1> QED BY <1>1, <1>2, <1>3, NextParts

LEMMA BallotsStay == TypeInv /\ [Next]_vars => ballots \subseteq ballots'
BY NextServerStep DEF ServerStep, Moves, Votes

\* The win of a main loop is a win in the abstract election.
LEMMA LoopWinSupported ==
  ASSUME TypeOK, LoopsBacked, NEW n \in Node, Won(n, Loop)
  PROVE  Supported(ballots, n, camp[n][Loop].term)
BY MajoritySupports DEF Won, FinishCampaign

LEMMA WinStep == WinInv /\ [Next]_vars => WinInv'
<1> SUFFICES ASSUME WinInv, [Next]_vars PROVE WinInv' OBVIOUS
<1>1. VoteInv' /\ LoopsBacked' /\ ballots \subseteq ballots'
  BY VoteStep, NextBacked, BallotsStay DEF WinInv, VoteInv
<1>2. ASSUME NEW w \in wins, w.task = Loop PROVE Supported(ballots', w.node, w.term)
  <2>1. Supported(ballots, w.node, w.term) BY <1>2 DEF WinInv, WinsSupported
  <2> QED BY <1>1, <2>1, SupportGrows
<1>3. CASE UNCHANGED wins BY <1>1, <1>2, <1>3 DEF WinInv, WinsSupported, Supported
<1>4. ASSUME NEW n \in Node, NEW t \in Task, Won(n, t) PROVE WinInv'
  <2> DEFINE win == [node |-> n, task |-> t, term |-> camp[n][t].term, at |-> term[n]]
  <2>1. wins' = wins \cup {win} /\ ballots' = ballots BY <1>4 DEF Won
  <2>2. win.task = Loop => Supported(ballots, win.node, win.term)
    BY <1>4, LoopWinSupported DEF WinInv, VoteInv, TypeInv
  <2> HIDE DEF win
  <2>3. \A w \in wins' : w.task = Loop => Supported(ballots', w.node, w.term)
    BY <1>2, <2>1, <2>2
  <2> QED BY <1>1, <2>3 DEF WinInv, WinsSupported, Supported
<1> QED BY <1>3, <1>4, NextWins

THEOREM RaftWinInvariant == Spec => []WinInv
<1>1. Init => WinInv
  BY InitTypes DEF Init, WinInv, VoteInv, VoteRemembersBallot, OneVotePerTerm, LoopsBacked,
     Backed, WinsSupported, Task
<1> QED BY <1>1, WinStep, PTL DEF Spec

\* Two majorities of the nodes meet.
LEMMA ElectionQuorumsMeet ==
  ElectionQuorums \subseteq SUBSET Node /\ \A Q, R \in ElectionQuorums : Q \cap R # {}
<1>1. ASSUME NEW Q \in ElectionQuorums, NEW R \in ElectionQuorums PROVE Q \cap R # {}
  <2>1. /\ Q \subseteq Node /\ R \subseteq Node
        /\ 2 * Cardinality(Q) > Cardinality(Node) /\ 2 * Cardinality(R) > Cardinality(Node)
    BY DEF ElectionQuorums
  <2>2. Cardinality(Q) \in Nat /\ Cardinality(R) \in Nat /\ Cardinality(Node) \in Nat
    BY <2>1, NodeAssumption, FS_Subset, FS_CardinalityType
  <2>3. Cardinality(Q) + Cardinality(R) > Cardinality(Node) BY <2>1, <2>2
  <2> QED BY <2>1, <2>3, NodeAssumption, FS_MajoritiesIntersect
<1> QED BY <1>1 DEF ElectionQuorums

\* What Ballot asks of its constants holds of the cluster's.
LEMMA BallotsLawful == Ballots!Lawful
BY ElectionQuorumsMeet, BoundAssumption DEF Ballots!Lawful, Term

\* The two majorities share a voter, and it has one ballot in that term.
LEMMA WinsElectOnce == WinInv => ElectedOnce
<1> SUFFICES ASSUME WinInv, NEW v \in wins, NEW w \in wins,
                    v.task = Loop, w.task = Loop, v.term = w.term
             PROVE  v.node = w.node
  BY DEF ElectedOnce
<1> DEFINE V == {p \in Node : <<p, v.term, v.node>> \in ballots}
           W == {p \in Node : <<p, w.term, w.node>> \in ballots}
<1>1. V \in ElectionQuorums /\ W \in ElectionQuorums
  BY DEF WinInv, WinsSupported, Supported, ElectionQuorums
<1>2. \A p \in V \cap W : /\ <<p, v.term, v.node>> \in ballots
                          /\ <<p, v.term, w.node>> \in ballots
  OBVIOUS
<1> HIDE DEF V, W
<1>3. PICK p \in V \cap W : TRUE BY <1>1, ElectionQuorumsMeet
<1> QED BY <1>2, <1>3 DEF WinInv, VoteInv, OneVotePerTerm

\* No two main loops count a majority for the same term (election.rs start_real_election),
\* however many failures and transfers there are.
THEOREM RaftElectedOnce == Spec => []ElectedOnce
BY WinsElectOnce, RaftWinInvariant, PTL

-----------------------------------------------------------------------------
(* Refinement. *)

LEMMA InitBallots == Init => Ballots!Init
BY DEF Init, Ballots!Init

LEMMA MovesJoin ==
  ASSUME TypeOK, NEW n \in Node, NEW t \in Term, Moves(n, t), UNCHANGED wins
  PROVE  [Ballots!Next]_Ballots!vars
<1>1. term \in [Node -> Term] /\ term[n] \in Nat /\ t \in Nat BY TermNat DEF TypeOK
<1>2. CASE t = term[n] BY <1>1, <1>2 DEF Moves, Ballots!vars
<1>3. CASE t > term[n]
  <2>1. Ballots!Join(n, t) BY <1>3 DEF Moves, Ballots!Join
  <2> QED BY <2>1 DEF Ballots!Next
<1> QED BY <1>1, <1>2, <1>3 DEF Moves

LEMMA VotesCast ==
  ASSUME TypeOK, VoteRemembersBallot, NEW v \in Node, NEW c \in Node, NEW t \in Term,
         Votes(v, t, c), UNCHANGED wins
  PROVE  Ballots!Next
<1>1. term \in [Node -> Term] /\ term[v] \in Nat /\ t \in Nat BY TermNat DEF TypeOK
<1>2. ASSUME NEW b \in ballots, b[1] = v, b[2] = t PROVE b[3] = c
  BY <1>1, <1>2, BallotFields DEF Votes, VoteRemembersBallot
<1>3. Ballots!Cast(v, t, c) BY <1>2 DEF Votes, Ballots!Cast
<1> QED BY <1>3 DEF Ballots!Next

LoopWins == {<<w.node, w.term>> : w \in {x \in wins : x.task = Loop}}

LEMMA WonDeclares ==
  ASSUME WinInv, NEW n \in Node, NEW t \in Task, Won(n, t)
  PROVE  [Ballots!Next]_Ballots!vars
<1> DEFINE win == [node |-> n, task |-> t, term |-> camp[n][t].term, at |-> term[n]]
<1>1. wins' = wins \cup {win} /\ UNCHANGED <<ballots, term>> BY DEF Won
<1>2. win.task = t /\ win.node = n /\ win.term = camp[n][t].term OBVIOUS
<1>3. CASE t = Loop
  <2> DEFINE q == camp[n][t].term
  <2>1. Supported(ballots, n, q) BY <1>3, LoopWinSupported DEF WinInv, VoteInv, TypeInv
  <2>2. q \in Term
    BY CampaignTyped, TypeParts
       DEF Won, FinishCampaign, WinInv, VoteInv, TypeInv, CampaignRecord
  <2> HIDE DEF win, q
  <2>3. PICK k \in Term : k = q BY <2>2
  <2>4. LoopWins' = LoopWins \cup {<<n, k>>} BY <1>1, <1>2, <1>3, <2>3 DEF LoopWins, q
  <2>5. Ballots!Elects(Ballots!Supporters(n, k))
    <3>1. {v \in Node : <<v, k, n>> \in ballots} \in ElectionQuorums
      BY <2>1, <2>3 DEF Supported, ElectionQuorums
    <3> QED BY <3>1 DEF Ballots!Elects, Ballots!Supporters
  <2>6. Ballots!Declare(n, k) BY <1>1, <2>4, <2>5 DEF Ballots!Declare, LoopWins
  <2> QED BY <2>6 DEF Ballots!Next
<1>4. CASE t # Loop
  <2> HIDE DEF win
  <2>1. LoopWins' = LoopWins BY <1>1, <1>2, <1>4 DEF LoopWins
  <2> QED BY <1>1, <2>1 DEF Ballots!vars, LoopWins
<1> QED BY <1>3, <1>4

LEMMA NextBallots == WinInv /\ [Next]_vars => [Ballots!Next]_Ballots!vars
<1> SUFFICES ASSUME WinInv, [Next]_vars PROVE [Ballots!Next]_Ballots!vars OBVIOUS
<1>1. TypeOK /\ VoteRemembersBallot /\ ServerStep
  BY NextServerStep DEF WinInv, VoteInv, TypeInv
<1>2. CASE UNCHANGED wins
  <2>1. CASE UNCHANGED <<term, vote, ballots>> BY <1>2, <2>1 DEF Ballots!vars
  <2> QED BY <1>1, <1>2, <2>1, MovesJoin, VotesCast DEF ServerStep
<1>3. CASE \E n \in Node, t \in Task : Won(n, t) BY <1>3, WonDeclares
<1> QED BY <1>2, <1>3, NextWins

\* The elections of the main loops implement Ballot, for every cluster.
THEOREM RaftRefinesBallot == Spec => RefinesBallot
BY InitBallots, NextBallots, RaftWinInvariant, PTL
   DEF Spec, RefinesBallot, Ballots!Spec
=============================================================================
