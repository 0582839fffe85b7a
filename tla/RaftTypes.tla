------------------------------ MODULE RaftTypes -----------------------------
(***************************************************************************)
(* Type correctness of Raft.  TypeOK alone is not inductive: the answer of *)
(* a handle_timeout_now campaign goes into the transfer_leader call that   *)
(* waits for it, so that call has to be there, which is TransferWaits.     *)
(***************************************************************************)
EXTENDS Raft, LogStoreProofs

-----------------------------------------------------------------------------
(* TypeOK in parts, each about the variables an action changes together. *)

ServerOK ==
  /\ role \in [Node -> Role] /\ term \in [Node -> Term]
  /\ vote \in [Node -> Option(Node)] /\ leaderId \in [Node -> Option(Node)]
LeaderOK == leaderState \in [Node -> Option(LeaderState)]
IndexOK  == /\ commit \in [Node -> Nat] /\ applied \in [Node -> Nat]
            /\ machine \in [Node -> Seq(Cmd)]
LogOK    == log \in [Node -> Log(Cmd)]
DiskOK   == disk \in [Node -> Persistent]
LoopOK   == loop \in [Node -> LoopState]
CampOK   ==
  /\ camp \in [Node -> [Task -> Option(CampaignRecord)]]
  /\ \A n \in Node, t \in Task : Running(n, t) => CampaignShape(n, t, camp[n][t])
WaitOK   == /\ xfer \in [Node -> Option(Transfer)]
            /\ frozen \in [Node -> Option(Node \X Waiter)]
CallsOK  ==
  /\ calls \subseteq Call
  /\ \A m \in calls : m.reply # Nil =>
       m.reply \in IF m.req.kind = "append" THEN AppendReply ELSE SnapshotReply
PastOK   == /\ ballots \subseteq Node \X Term \X Node
            /\ wins \subseteq Win /\ used \in [DOMAIN Limit -> Nat]

LEMMA TypeParts ==
  TypeOK <=> /\ ServerOK /\ LeaderOK /\ IndexOK /\ LogOK /\ DiskOK
             /\ LoopOK /\ CampOK /\ WaitOK /\ CallsOK /\ PastOK
BY DEF TypeOK, ServerOK, LeaderOK, IndexOK, LogOK, DiskOK, LoopOK, CampOK, WaitOK, CallsOK,
       PastOK

LEMMA TypePartsNext ==
  TypeOK' <=> /\ ServerOK' /\ LeaderOK' /\ IndexOK' /\ LogOK' /\ DiskOK'
              /\ LoopOK' /\ CampOK' /\ WaitOK' /\ CallsOK' /\ PastOK'
BY DEF TypeOK, ServerOK, LeaderOK, IndexOK, LogOK, DiskOK, LoopOK, CampOK, WaitOK, CallsOK,
       PastOK

\* What does not change keeps its type.
LEMMA Unchanged ==
  /\ ServerOK /\ UNCHANGED stateVars => ServerOK'
  /\ LeaderOK /\ UNCHANGED leaderState => LeaderOK'
  /\ IndexOK /\ UNCHANGED indexVars => IndexOK'
  /\ LogOK /\ UNCHANGED log => LogOK'
  /\ DiskOK /\ UNCHANGED disk => DiskOK'
  /\ LoopOK /\ UNCHANGED loop => LoopOK'
  /\ CampOK /\ UNCHANGED camp => CampOK'
  /\ WaitOK /\ UNCHANGED <<xfer, frozen>> => WaitOK'
  /\ CallsOK /\ UNCHANGED calls => CallsOK'
  /\ PastOK /\ UNCHANGED <<ballots, wins, used>> => PastOK'
BY DEF ServerOK, LeaderOK, IndexOK, LogOK, DiskOK, LoopOK, CampOK, WaitOK, CallsOK, PastOK,
       stateVars, indexVars, Running

LEMMA TermNat ==
  Term \subseteq Nat /\ 0 \in Term /\ \A t \in Term : t < MaxTerm => t + 1 \in Term
BY BoundAssumption DEF Term

LEMMA PeerIsNode ==
  ASSUME NEW n \in Node, NEW i \in Nat \ {0}, i <= Len(PeerSeq[n])
  PROVE  PeerSeq[n][i] \in Node /\ PeerSeq[n][i] # n
<1>1. PeerSeq[n] \in Seq(Node) BY PeersAssumption
<1>2. i \in 1..Len(PeerSeq[n]) BY <1>1, LenProperties
<1>3. PeerSeq[n][i] \in {PeerSeq[n][j] : j \in 1..Len(PeerSeq[n])} BY <1>2
<1>4. {PeerSeq[n][j] : j \in 1..Len(PeerSeq[n])} = Node \ {n} BY PeersAssumption
<1> QED BY <1>3, <1>4

LEMMA PersistentType ==
  ASSUME NEW t \in Term, NEW v \in Option(Node), NEW l \in Log(Cmd)
  PROVE  PersistentData(t, v, l) \in Persistent
BY DEF PersistentData, Persistent, Option

\* A running campaign has the fields its stage promises.
LEMMA CampaignTyped ==
  ASSUME CampOK, NEW n \in Node, NEW t \in Task, Running(n, t)
  PROVE  /\ camp[n][t] \in CampaignRecord
         /\ CampaignShape(n, t, camp[n][t])
         /\ PeersLeft(n, camp[n][t]) =>
              Peer(n, camp[n][t]) \in Node /\ Peer(n, camp[n][t]) # n
<1>1. camp[n][t] \in CampaignRecord /\ CampaignShape(n, t, camp[n][t])
  BY DEF CampOK, Running, Option
<1>2. camp[n][t].i \in Nat \ {0} BY <1>1 DEF CampaignRecord
<1> QED BY <1>1, <1>2, PeerIsNode DEF Peer, PeersLeft

\* A campaign is replaced by one of the right shape, or ends.
LEMMA SetCampTyped ==
  ASSUME CampOK, NEW n \in Node, NEW t \in Task, NEW c \in Option(CampaignRecord),
         c # Nil => CampaignShape(n, t, c), SetCamp(n, t, c)
  PROVE  CampOK'
<1>1. camp' \in [Node -> [Task -> Option(CampaignRecord)]] BY DEF CampOK, SetCamp
<1>2. ASSUME NEW p \in Node, NEW u \in Task, camp'[p][u] # Nil
      PROVE  CampaignShape(p, u, camp'[p][u])
  <2>1. CASE p = n /\ u = t BY <1>2, <2>1 DEF CampOK, SetCamp
  <2>2. CASE ~(p = n /\ u = t)
    <3>1. camp'[p][u] = camp[p][u] BY <2>2 DEF CampOK, SetCamp
    <3> QED BY <1>2, <3>1 DEF CampOK, Running
  <2> QED BY <2>1, <2>2
<1> QED BY <1>1, <1>2 DEF CampOK, Running

LEMMA FreshCampaign ==
  ASSUME NEW n \in Node, NEW st \in CampaignStage
  PROVE  Campaign(st, n) \in CampaignRecord
BY TermNat DEF Campaign, CampaignRecord, Option

\* A handler of n hangs for a call of somebody, or goes on.
LEMMA FreezeTypes ==
  ASSUME WaitOK, NEW n \in Node, NEW x \in Option(Node \X Waiter), UNCHANGED xfer,
         frozen' = [frozen EXCEPT ![n] = x]
  PROVE  WaitOK'
BY DEF WaitOK

-----------------------------------------------------------------------------
(* The actions of Election. *)

LEMMA StartElectionTypes ==
  ASSUME NEW n \in Node, TypeOK, StartElection(n)
  PROVE  TypeOK'
<1> USE TypeParts
<1>1. /\ ServerOK' /\ LeaderOK' /\ IndexOK' /\ LogOK' /\ DiskOK' /\ WaitOK' /\ CallsOK'
      /\ PastOK'
  BY Unchanged DEF StartElection
<1>2. LoopOK' BY DEF StartElection, LoopOK, LoopState, Marker
<1>3. CampOK'
  <2> DEFINE c == [Campaign("pre", n) EXCEPT !.term = term[n] + 1,
                     !.lastTerm = LastTerm(log[n]), !.lastIdx = LastIndex(log[n])]
  <2>1. term[n] + 1 \in Term BY TermNat DEF StartElection, ServerOK
  <2>2. LastTerm(log[n]) \in Nat /\ LastIndex(log[n]) \in Nat BY LastOfLog DEF LogOK
  <2>3. Campaign("pre", n) \in CampaignRecord BY FreshCampaign DEF CampaignStage
  <2>4. c \in CampaignRecord /\ c.st = "pre" BY <2>1, <2>2, <2>3 DEF CampaignRecord, Campaign
  <2>5. SetCamp(n, Loop, c) /\ Loop \in Task BY DEF StartElection, Task
  <2> HIDE DEF c
  <2>6. CampaignShape(n, Loop, c) BY <2>4 DEF CampaignShape
  <2> QED BY <2>4, <2>5, <2>6, SetCampTyped DEF Option
<1> QED BY <1>1, <1>2, <1>3, TypePartsNext

LEMMA PreVoteTypes ==
  ASSUME NEW n \in Node, TypeOK, PreVote(n)
  PROVE  TypeOK'
<1> USE TypeParts
<1>1. /\ ServerOK' /\ LeaderOK' /\ IndexOK' /\ LogOK' /\ DiskOK' /\ LoopOK' /\ WaitOK'
      /\ CallsOK' /\ PastOK'
  BY Unchanged DEF PreVote
<1>2. CampOK'
  <2> DEFINE c == camp[n][Loop]
             yes == IF GrantsPreVote(Peer(n, c), c) THEN c.yes \cup {Peer(n, c)} ELSE c.yes
             d == [c EXCEPT !.i = @ + 1, !.yes = yes]
  <2>1. Loop \in Task /\ Running(n, Loop) /\ c.st = "pre" /\ PeersLeft(n, c)
        /\ SetCamp(n, Loop, d)
    BY DEF PreVote, Task
  <2>2. c \in CampaignRecord /\ Peer(n, c) \in Node BY <2>1, CampaignTyped
  <2> HIDE DEF c
  <2>3. yes \in SUBSET Node BY <2>2 DEF CampaignRecord
  <2>4. c.i + 1 \in Nat \ {0} BY <2>2 DEF CampaignRecord
  <2> HIDE DEF yes
  <2>5. d \in CampaignRecord /\ d.st = "pre" BY <2>1, <2>2, <2>3, <2>4 DEF CampaignRecord
  <2> HIDE DEF d
  <2>6. CampaignShape(n, Loop, d) BY <2>5 DEF CampaignShape
  <2> QED BY <2>1, <2>5, <2>6, SetCampTyped DEF Option
<1> QED BY <1>1, <1>2, TypePartsNext

LEMMA PreVoteLostTypes ==
  ASSUME NEW n \in Node, TypeOK, PreVoteLost(n)
  PROVE  TypeOK'
<1> USE TypeParts
<1>1. /\ ServerOK' /\ LeaderOK' /\ IndexOK' /\ LogOK' /\ DiskOK' /\ WaitOK' /\ CallsOK'
      /\ PastOK'
  BY Unchanged DEF PreVoteLost
<1>2. LoopOK' BY DEF PreVoteLost, Leave, LoopOK, LoopState, Marker
<1>3. CampOK' BY SetCampTyped DEF PreVoteLost, Task, Option
<1> QED BY <1>1, <1>2, <1>3, TypePartsNext

LEMMA BecomeCandidateTypes ==
  ASSUME NEW n \in Node, ServerOK, PastOK, term[n] < MaxTerm, BecomeCandidate(n),
         UNCHANGED <<wins, used>>
  PROVE  ServerOK' /\ PastOK' /\ term[n] + 1 \in Term
<1>1. term[n] + 1 \in Term BY TermNat DEF ServerOK
<1>2. ServerOK' BY <1>1 DEF BecomeCandidate, ServerOK, Role, Option
<1>3. PastOK' BY <1>1 DEF BecomeCandidate, PastOK
<1> QED BY <1>1, <1>2, <1>3

LEMMA BecomeFollowerTypes ==
  ASSUME NEW n \in Node, NEW t \in Term, NEW p \in Option(Node), ServerOK,
         BecomeFollower(n, t, p)
  PROVE  ServerOK'
<1>1. Larger(term[n], t) \in Term BY DEF Larger, ServerOK
<1> QED BY <1>1 DEF BecomeFollower, ServerOK, Role, Option

LEMMA BecomeLeaderTypes ==
  ASSUME NEW n \in Node, ServerOK, LeaderOK, BecomeLeader(n)
  PROVE  ServerOK' /\ LeaderOK'
<1>1. [next |-> [p \in Node |-> 1], match |-> [p \in Node |-> 0]] \in LeaderState
  BY DEF LeaderState
<1>2. LeaderOK' BY <1>1 DEF BecomeLeader, LeaderOK, Option
<1>3. ServerOK' BY DEF BecomeLeader, ServerOK, Role, Option
<1> QED BY <1>2, <1>3

LEMMA StartRealElectionTypes ==
  ASSUME NEW n \in Node, TypeOK, StartRealElection(n)
  PROVE  TypeOK'
<1> USE TypeParts
<1>1. /\ LeaderOK' /\ IndexOK' /\ LogOK' /\ DiskOK' /\ LoopOK' /\ WaitOK' /\ CallsOK'
  BY Unchanged DEF StartRealElection
<1>2. ServerOK' /\ PastOK' /\ term[n] + 1 \in Term
  BY BecomeCandidateTypes DEF StartRealElection
<1>3. CampOK'
  <2> DEFINE c == [Campaign("save", n) EXCEPT !.term = term[n] + 1,
                     !.data = PersistentData(term[n] + 1, n, log[n])]
  <2>1. PersistentData(term[n] + 1, n, log[n]) \in Persistent
    BY <1>2, PersistentType DEF LogOK, Option
  <2>2. Campaign("save", n) \in CampaignRecord BY FreshCampaign DEF CampaignStage
  <2>3. c \in CampaignRecord /\ c.st = "save" /\ c.data \in Persistent
    BY <1>2, <2>1, <2>2 DEF CampaignRecord, Campaign, Option
  <2>4. SetCamp(n, Loop, c) /\ Loop \in Task BY DEF StartRealElection, Task
  <2> HIDE DEF c
  <2>5. CampaignShape(n, Loop, c) BY <2>3 DEF CampaignShape
  <2> QED BY <2>3, <2>4, <2>5, SetCampTyped DEF Option
<1> QED BY <1>1, <1>2, <1>3, TypePartsNext

LEMMA CopyStateTypes ==
  ASSUME NEW n \in Node, NEW t \in Handler, TypeOK, CopyState(n, t)
  PROVE  TypeOK'
<1> USE TypeParts
<1>1. /\ ServerOK' /\ LeaderOK' /\ IndexOK' /\ LogOK' /\ DiskOK' /\ LoopOK' /\ WaitOK'
      /\ CallsOK' /\ PastOK'
  BY Unchanged DEF CopyState
<1>2. CampOK'
  <2> DEFINE c == camp[n][t]
             p == PersistentData(term[n], vote[n], log[n])
             d == [c EXCEPT !.st = "save", !.term = term[n], !.data = p]
  <2>1. t \in Task /\ Running(n, t) /\ SetCamp(n, t, d) BY DEF CopyState, Task
  <2>2. c \in CampaignRecord /\ CampaignShape(n, t, c) BY <2>1, CampaignTyped
  <2>3. p \in Persistent /\ term[n] \in Term BY PersistentType DEF ServerOK, LogOK
  <2> HIDE DEF c, p
  <2>4. d \in CampaignRecord /\ d.st = "save" /\ d.data \in Persistent /\ d.caller = c.caller
    BY <2>2, <2>3 DEF CampaignRecord, CampaignStage, Option
  <2> HIDE DEF d
  <2>5. CampaignShape(n, t, d) BY <2>2, <2>4, TaskAssumption DEF CampaignShape
  <2> QED BY <2>1, <2>4, <2>5, SetCampTyped DEF Option
<1> QED BY <1>1, <1>2, TypePartsNext

LEMMA SaveCandidateTypes ==
  ASSUME NEW n \in Node, NEW t \in Task, TypeOK, SaveCandidate(n, t)
  PROVE  TypeOK'
<1> USE TypeParts
<1> DEFINE c == camp[n][t]
           d == [c EXCEPT !.st = "ask", !.data = Nil,
                          !.lastTerm = LastTerm(log[n]), !.lastIdx = LastIndex(log[n])]
<1>1. /\ ServerOK' /\ LeaderOK' /\ IndexOK' /\ LogOK' /\ LoopOK' /\ WaitOK' /\ CallsOK'
      /\ PastOK'
  BY Unchanged DEF SaveCandidate
<1>2. Running(n, t) /\ c.st = "save" /\ SetCamp(n, t, d) BY DEF SaveCandidate
<1>3. c \in CampaignRecord /\ CampaignShape(n, t, c) BY <1>2, CampaignTyped
<1>4. DiskOK' BY <1>2, <1>3 DEF SaveCandidate, CampaignShape, DiskOK
<1>5. CampOK'
  <2>1. LastTerm(log[n]) \in Nat /\ LastIndex(log[n]) \in Nat BY LastOfLog DEF LogOK
  <2> HIDE DEF c
  <2>2. d \in CampaignRecord /\ d.st = "ask" /\ d.caller = c.caller
    BY <1>3, <2>1 DEF CampaignRecord, CampaignStage, Option
  <2> HIDE DEF d
  <2>3. CampaignShape(n, t, d) BY <1>3, <2>2 DEF CampaignShape
  <2> QED BY <1>2, <2>2, <2>3, SetCampTyped DEF Option
<1> QED BY <1>1, <1>4, <1>5, TypePartsNext

LEMMA ReceiveVoteTypes ==
  ASSUME NEW n \in Node, NEW t \in Task, TypeOK, ReceiveVote(n, t)
  PROVE  TypeOK'
<1> USE TypeParts
<1> DEFINE c == camp[n][t]
           yes == IF c.reply.granted THEN c.yes \cup {Peer(n, c)} ELSE c.yes
           d == [c EXCEPT !.st = "ask", !.i = @ + 1, !.reply = Nil, !.yes = yes]
<1>1. LeaderOK' /\ IndexOK' /\ LogOK' /\ DiskOK' /\ WaitOK' /\ CallsOK' /\ PastOK'
  BY Unchanged DEF ReceiveVote
<1>2. Running(n, t) /\ c.st = "got" BY DEF ReceiveVote
<1>3. c \in CampaignRecord /\ CampaignShape(n, t, c) BY <1>2, CampaignTyped
<1>4. c.reply \in VoteReply /\ Peer(n, c) \in Node
  BY <1>2, <1>3, CampaignTyped DEF CampaignShape
<1>5. CASE t = Loop /\ c.reply.term > c.term
  <2>1. ServerOK'
    <3>1. c.reply.term \in Term /\ Nil \in Option(Node) BY <1>4 DEF VoteReply, Option
    <3>2. BecomeFollower(n, c.reply.term, Nil) BY <1>5 DEF ReceiveVote
    <3> QED BY <3>1, <3>2, BecomeFollowerTypes
  <2>2. LoopOK' BY <1>5 DEF ReceiveVote, Leave, LoopOK, LoopState, Marker
  <2>3. CampOK' BY <1>5, SetCampTyped DEF ReceiveVote, Option
  <2> QED BY <1>1, <2>1, <2>2, <2>3, TypePartsNext
<1>6. CASE ~(t = Loop /\ c.reply.term > c.term)
  <2>1. ServerOK' /\ LoopOK' BY <1>6, Unchanged DEF ReceiveVote
  <2>2. SetCamp(n, t, d) BY <1>6 DEF ReceiveVote
  <2> HIDE DEF c
  <2>3. yes \in SUBSET Node BY <1>3, <1>4 DEF CampaignRecord
  <2>4. c.i + 1 \in Nat \ {0} BY <1>3 DEF CampaignRecord
  <2> HIDE DEF yes
  <2>5. d \in CampaignRecord /\ d.st = "ask" /\ d.caller = c.caller
    BY <1>3, <2>3, <2>4 DEF CampaignRecord, CampaignStage, Option
  <2> HIDE DEF d
  <2>6. CampaignShape(n, t, d) BY <1>2, <1>3, <2>5 DEF CampaignShape
  <2>7. CampOK' BY <2>2, <2>5, <2>6, SetCampTyped DEF Option
  <2> QED BY <1>1, <2>1, <2>7, TypePartsNext
<1> QED BY <1>5, <1>6

LEMMA FinishCampaignTypes ==
  ASSUME NEW n \in Node, NEW t \in Task, TypeOK, TransferWaits, FinishCampaign(n, t)
  PROVE  TypeOK'
<1> USE TypeParts
<1> DEFINE c == camp[n][t]
<1>1. IndexOK' /\ LogOK' /\ DiskOK' /\ CallsOK' BY Unchanged DEF FinishCampaign
<1>2. Running(n, t) BY DEF FinishCampaign
<1>3. c \in CampaignRecord /\ CampaignShape(n, t, c) BY <1>2, CampaignTyped
<1>4. ServerOK' /\ LeaderOK'
  <2>1. CASE HasMajority(n, c) BY <2>1, BecomeLeaderTypes DEF FinishCampaign
  <2>2. CASE ~HasMajority(n, c) BY <2>2, Unchanged DEF FinishCampaign
  <2> QED BY <2>1, <2>2
<1>5. PastOK'
  <2>1. [node |-> n, task |-> t, term |-> c.term, at |-> term[n]] \in Win
    BY <1>3 DEF ServerOK, CampaignRecord, Win
  <2>2. wins' \subseteq Win BY <2>1 DEF FinishCampaign, PastOK
  <2> QED BY <2>2 DEF FinishCampaign, PastOK
<1>6. LoopOK' BY DEF FinishCampaign, Leave, LoopOK, LoopState, Marker
<1>7. CampOK' BY SetCampTyped DEF FinishCampaign, Option
<1>8. WaitOK'
  <2>1. CASE t = Loop BY <2>1 DEF FinishCampaign, WaitOK
  <2>2. CASE t # Loop
    <3>1. c.caller \in Node /\ c.term \in Term
      BY <1>3, <2>2 DEF CampaignShape, CampaignRecord
    <3>2. t \in Handler BY <2>2 DEF Task
    <3>3. xfer[c.caller] \in Transfer BY <1>2, <3>1, <3>2 DEF TransferWaits, WaitOK, Option
    <3> HIDE DEF c
    <3>4. [xfer[c.caller] EXCEPT !.st = "got", !.reply = c.term] \in Transfer
      BY <3>1, <3>3 DEF Transfer
    <3>5. xfer' = [xfer EXCEPT ![c.caller] =
                     [xfer[c.caller] EXCEPT !.st = "got", !.reply = c.term]]
      BY <2>2 DEF FinishCampaign, c
    <3> QED BY <3>1, <3>4, <3>5 DEF FinishCampaign, WaitOK, Option
  <2> QED BY <2>1, <2>2
<1> QED BY <1>1, <1>4, <1>5, <1>6, <1>7, <1>8, TypePartsNext

\* The campaign an action of the voter's side goes on with: only stage, data and reply
\* are new.
LEMMA AskedTyped ==
  ASSUME NEW n \in Node, NEW t \in Task, NEW v \in Node, CampOK, Asked(n, t, v)
  PROVE  /\ camp[n][t] \in CampaignRecord /\ CampaignShape(n, t, camp[n][t])
         /\ PeersLeft(n, camp[n][t]) /\ camp[n][t].term \in Term
BY CampaignTyped DEF Asked, CampaignRecord

LEMMA RejectStaleVoteTypes ==
  ASSUME NEW n \in Node, NEW t \in Task, NEW v \in Node, TypeOK, RejectStaleVote(n, t, v)
  PROVE  TypeOK'
<1> USE TypeParts
<1> DEFINE c == camp[n][t]
           d == [c EXCEPT !.st = "got", !.reply = [term |-> term[v], granted |-> FALSE]]
<1>1. /\ ServerOK' /\ LeaderOK' /\ IndexOK' /\ LogOK' /\ DiskOK' /\ LoopOK' /\ WaitOK'
      /\ CallsOK' /\ PastOK'
  BY Unchanged DEF RejectStaleVote
<1>2. /\ c \in CampaignRecord /\ CampaignShape(n, t, c) /\ PeersLeft(n, c)
      /\ SetCamp(n, t, d) /\ c.st = "ask"
  BY AskedTyped DEF RejectStaleVote, Asked
<1>3. [term |-> term[v], granted |-> FALSE] \in VoteReply BY DEF ServerOK, VoteReply
<1>4. CampOK'
  <2> HIDE DEF c
  <2>1. /\ d \in CampaignRecord /\ d.st = "got" /\ d.reply \in VoteReply
        /\ d.caller = c.caller /\ d.i = c.i
    BY <1>2, <1>3 DEF CampaignRecord, CampaignStage, Option
  <2> HIDE DEF d
  <2>2. CampaignShape(n, t, d) BY <1>2, <2>1 DEF CampaignShape, PeersLeft
  <2> QED BY <1>2, <2>1, <2>2, SetCampTyped DEF Option
<1> QED BY <1>1, <1>4, TypePartsNext

LEMMA JoinTermTypes ==
  ASSUME NEW n \in Node, NEW t \in Task, NEW v \in Node, ServerOK, camp[n][t].term \in Term,
         JoinTerm(n, t, v), vote' \in [Node -> Option(Node)]
  PROVE  ServerOK'
<1>1. Larger(term[v], camp[n][t].term) \in Term BY DEF Larger, ServerOK
<1> QED BY <1>1 DEF JoinTerm, ServerOK, Role

LEMMA GrantVoteTypes ==
  ASSUME NEW n \in Node, NEW t \in Task, NEW v \in Node, TypeOK, GrantVote(n, t, v)
  PROVE  TypeOK'
<1> USE TypeParts
<1> DEFINE c == camp[n][t]
           p == PersistentData(c.term, n, log[v])
           d == [c EXCEPT !.st = "saving", !.data = p]
<1>1. LeaderOK' /\ IndexOK' /\ LogOK' /\ DiskOK' /\ LoopOK' /\ WaitOK' /\ CallsOK'
  BY Unchanged DEF GrantVote
<1>2. /\ c \in CampaignRecord /\ CampaignShape(n, t, c) /\ PeersLeft(n, c)
      /\ SetCamp(n, t, d) /\ c.st = "ask" /\ c.term \in Term
  BY AskedTyped DEF GrantVote, Asked
<1>3. vote' \in [Node -> Option(Node)] BY DEF GrantVote, ServerOK, Option
<1>4. ServerOK' BY <1>2, <1>3, JoinTermTypes DEF GrantVote
<1>5. PastOK' BY <1>2 DEF GrantVote, PastOK
<1>6. CampOK'
  <2>1. p \in Persistent BY <1>2, PersistentType DEF LogOK, Option
  <2> HIDE DEF c, p
  <2>2. /\ d \in CampaignRecord /\ d.st = "saving" /\ d.data \in Persistent
        /\ d.caller = c.caller /\ d.i = c.i
    BY <1>2, <2>1 DEF CampaignRecord, CampaignStage, Option
  <2> HIDE DEF d
  <2>3. CampaignShape(n, t, d) BY <1>2, <2>2 DEF CampaignShape, PeersLeft
  <2> QED BY <1>2, <2>2, <2>3, SetCampTyped DEF Option
<1> QED BY <1>1, <1>4, <1>5, <1>6, TypePartsNext

LEMMA DenyVoteTypes ==
  ASSUME NEW n \in Node, NEW t \in Task, NEW v \in Node, TypeOK, DenyVote(n, t, v)
  PROVE  TypeOK'
<1> USE TypeParts
<1> DEFINE c == camp[n][t]
           d == [c EXCEPT !.st = "wait"]
<1>1. LeaderOK' /\ IndexOK' /\ LogOK' /\ DiskOK' /\ LoopOK' /\ CallsOK' /\ PastOK'
  BY Unchanged DEF DenyVote
<1>2. /\ c \in CampaignRecord /\ CampaignShape(n, t, c) /\ PeersLeft(n, c)
      /\ SetCamp(n, t, d) /\ c.st = "ask" /\ c.term \in Term
  BY AskedTyped DEF DenyVote, Asked
<1>3. vote' \in [Node -> Option(Node)] BY DEF DenyVote, VoteIn, ServerOK, Option
<1>4. ServerOK' BY <1>2, <1>3, JoinTermTypes DEF DenyVote
<1>5. WaitOK' BY FreezeTypes DEF DenyVote, Waiter, Option
<1>6. CampOK'
  <2> HIDE DEF c
  <2>1. d \in CampaignRecord /\ d.st = "wait" /\ d.caller = c.caller /\ d.i = c.i
    BY <1>2 DEF CampaignRecord, CampaignStage
  <2> HIDE DEF d
  <2>2. CampaignShape(n, t, d) BY <1>2, <2>1 DEF CampaignShape, PeersLeft
  <2> QED BY <1>2, <2>1, <2>2, SetCampTyped DEF Option
<1> QED BY <1>1, <1>4, <1>5, <1>6, TypePartsNext

LEMMA SaveVoteTypes ==
  ASSUME NEW n \in Node, NEW t \in Task, TypeOK, SaveVote(n, t)
  PROVE  TypeOK'
<1> USE TypeParts
<1> DEFINE c == camp[n][t]
           d == [c EXCEPT !.st = "saved", !.data = Nil]
<1>1. /\ ServerOK' /\ LeaderOK' /\ IndexOK' /\ LogOK' /\ LoopOK' /\ WaitOK' /\ CallsOK'
      /\ PastOK'
  BY Unchanged DEF SaveVote
<1>2. Running(n, t) /\ c.st = "saving" /\ SetCamp(n, t, d) BY DEF SaveVote
<1>3. c \in CampaignRecord /\ CampaignShape(n, t, c) BY <1>2, CampaignTyped
<1>4. DiskOK' BY <1>2, <1>3 DEF SaveVote, CampaignShape, DiskOK
<1>5. CampOK'
  <2> HIDE DEF c
  <2>1. d \in CampaignRecord /\ d.st = "saved" /\ d.caller = c.caller /\ d.i = c.i
    BY <1>3 DEF CampaignRecord, CampaignStage, Option
  <2> HIDE DEF d
  <2>2. CampaignShape(n, t, d) BY <1>2, <1>3, <2>1 DEF CampaignShape, PeersLeft
  <2> QED BY <1>2, <2>1, <2>2, SetCampTyped DEF Option
<1> QED BY <1>1, <1>4, <1>5, TypePartsNext

LEMMA AnswerVoteTypes ==
  ASSUME NEW n \in Node, NEW t \in Task, TypeOK, AnswerVote(n, t)
  PROVE  TypeOK'
<1> USE TypeParts
<1> DEFINE c == camp[n][t]
           r == [term |-> term[Peer(n, c)], granted |-> TRUE]
           d == [c EXCEPT !.st = "got", !.reply = r]
<1>1. /\ ServerOK' /\ LeaderOK' /\ IndexOK' /\ LogOK' /\ DiskOK' /\ LoopOK' /\ WaitOK'
      /\ CallsOK' /\ PastOK'
  BY Unchanged DEF AnswerVote
<1>2. Running(n, t) /\ c.st = "saved" /\ SetCamp(n, t, d) BY DEF AnswerVote
<1>3. c \in CampaignRecord /\ CampaignShape(n, t, c) BY <1>2, CampaignTyped
<1>4. CampOK'
  <2>1. PeersLeft(n, c) BY <1>2, <1>3 DEF CampaignShape
  <2>2. Peer(n, c) \in Node BY <1>2, <2>1, CampaignTyped
  <2>3. r \in VoteReply BY <2>2 DEF ServerOK, VoteReply
  <2> HIDE DEF c, r
  <2>4. /\ d \in CampaignRecord /\ d.st = "got" /\ d.reply \in VoteReply
        /\ d.caller = c.caller /\ d.i = c.i
    BY <1>3, <2>3 DEF CampaignRecord, CampaignStage, Option
  <2> HIDE DEF d
  <2>5. CampaignShape(n, t, d) BY <1>2, <1>3, <2>1, <2>4 DEF CampaignShape, PeersLeft
  <2> QED BY <1>2, <2>4, <2>5, SetCampTyped DEF Option
<1> QED BY <1>1, <1>4, TypePartsNext

LEMMA DropSaveTypes ==
  ASSUME NEW n \in Node, NEW t \in Task, DiskOK, CampOK, DropSave(n, t)
  PROVE  DiskOK'
<1>1. CASE UNCHANGED disk BY <1>1, Unchanged
<1>2. CASE Running(n, t) /\ camp[n][t].st = "saving"
           /\ disk' = [disk EXCEPT ![Peer(n, camp[n][t])] = camp[n][t].data]
  <2>1. camp[n][t].data \in Persistent BY <1>2, CampaignTyped DEF CampaignShape
  <2> QED BY <1>2, <2>1 DEF DiskOK
<1> QED BY <1>1, <1>2 DEF DropSave

LEMMA ReleaseTypes ==
  ASSUME WaitOK, NEW S, Release(S)
  PROVE  frozen' \in [Node -> Option(Node \X Waiter)]
BY DEF WaitOK, Release, Option

LEMMA SpendTypes ==
  ASSUME NEW b, PastOK, Spend(b), UNCHANGED <<ballots, wins>>
  PROVE  PastOK'
<1> DEFINE D == DOMAIN Limit
<1>1. used \in [D -> Nat] /\ used' = [used EXCEPT ![b] = used[b] + 1] BY DEF PastOK, Spend
<1> HIDE DEF D
<1>2. ASSUME NEW x \in D PROVE used'[x] \in Nat
  <2>1. CASE x = b BY <1>1, <2>1
  <2>2. CASE x # b BY <1>1, <2>2
  <2> QED BY <2>1, <2>2
<1>3. used' \in [D -> Nat]
  <2>1. used' = [x \in D |-> used'[x]] BY <1>1
  <2> QED BY <1>2, <2>1
<1> QED BY <1>3 DEF PastOK, D

LEMMA VoteCallFailsTypes ==
  ASSUME NEW n \in Node, NEW t \in Task, TypeOK, VoteCallFails(n, t)
  PROVE  TypeOK'
<1> USE TypeParts
<1> DEFINE c == camp[n][t]
           st == IF c.st = "pre" THEN "pre" ELSE "ask"
           d == [c EXCEPT !.i = @ + 1, !.data = Nil, !.st = st]
<1>1. ServerOK' /\ LeaderOK' /\ IndexOK' /\ LogOK' /\ LoopOK' /\ CallsOK'
  BY Unchanged DEF VoteCallFails
<1>2. Running(n, t) /\ SetCamp(n, t, d) BY DEF VoteCallFails, Calling
<1>3. c \in CampaignRecord /\ CampaignShape(n, t, c) BY <1>2, CampaignTyped
<1>4. DiskOK' BY DropSaveTypes DEF VoteCallFails
<1>5. WaitOK' BY ReleaseTypes DEF VoteCallFails, WaitOK
<1>6. PastOK' BY SpendTypes DEF VoteCallFails
<1>7. CampOK'
  <2>1. st \in {"pre", "ask"} /\ (st = "pre" => c.st = "pre") OBVIOUS
  <2> HIDE DEF c, st
  <2>2. c.i + 1 \in Nat \ {0} BY <1>3 DEF CampaignRecord
  <2>3. d \in CampaignRecord /\ d.st = st /\ d.caller = c.caller
    BY <1>3, <2>1, <2>2 DEF CampaignRecord, CampaignStage, Option
  <2> HIDE DEF d
  <2>4. CampaignShape(n, t, d) BY <1>3, <2>1, <2>3 DEF CampaignShape
  <2> QED BY <1>2, <2>3, <2>4, SetCampTyped DEF Option
<1> QED BY <1>1, <1>4, <1>5, <1>6, <1>7, TypePartsNext

LEMMA TransferLeaderTypes ==
  ASSUME NEW n \in Node, NEW p \in Node, TypeOK, TransferLeader(n, p)
  PROVE  TypeOK'
<1> USE TypeParts
<1>1. /\ ServerOK' /\ LeaderOK' /\ IndexOK' /\ LogOK' /\ DiskOK' /\ LoopOK' /\ CampOK'
      /\ CallsOK'
  BY Unchanged DEF TransferLeader
<1>2. WaitOK' BY TermNat DEF TransferLeader, WaitOK, Transfer, Option
<1>3. PastOK' BY SpendTypes DEF TransferLeader
<1> QED BY <1>1, <1>2, <1>3, TypePartsNext

LEMMA SendTimeoutNowTypes ==
  ASSUME NEW n \in Node, TypeOK, SendTimeoutNow(n)
  PROVE  TypeOK'
<1> USE TypeParts
<1>1. /\ ServerOK' /\ LeaderOK' /\ IndexOK' /\ LogOK' /\ DiskOK' /\ LoopOK' /\ CampOK'
      /\ CallsOK' /\ PastOK'
  BY Unchanged DEF SendTimeoutNow
<1>2. WaitOK'
  <2>1. xfer[n] \in Transfer /\ term[n] \in Term
    BY DEF SendTimeoutNow, WaitOK, Option, ServerOK
  <2>2. [xfer[n] EXCEPT !.st = "sent", !.term = term[n]] \in Transfer BY <2>1 DEF Transfer
  <2> QED BY <2>2 DEF SendTimeoutNow, WaitOK, Option
<1> QED BY <1>1, <1>2, TypePartsNext

LEMMA RejectTimeoutNowTypes ==
  ASSUME NEW n \in Node, TypeOK, RejectTimeoutNow(n)
  PROVE  TypeOK'
<1> USE TypeParts
<1>1. /\ ServerOK' /\ LeaderOK' /\ IndexOK' /\ LogOK' /\ DiskOK' /\ LoopOK' /\ CampOK'
      /\ CallsOK' /\ PastOK'
  BY Unchanged DEF RejectTimeoutNow
<1>2. WaitOK'
  <2>1. xfer[n] \in Transfer BY DEF RejectTimeoutNow, WaitOK, Option
  <2>2. term[xfer[n].target] \in Term BY <2>1 DEF Transfer, ServerOK
  <2>3. [xfer[n] EXCEPT !.st = "got", !.reply = term[xfer[n].target]] \in Transfer
    BY <2>1, <2>2 DEF Transfer
  <2> QED BY <2>3 DEF RejectTimeoutNow, WaitOK, Option
<1> QED BY <1>1, <1>2, TypePartsNext

LEMMA HandleTimeoutNowTypes ==
  ASSUME NEW n \in Node, NEW t \in Handler, TypeOK, HandleTimeoutNow(n, t)
  PROVE  TypeOK'
<1> USE TypeParts
<1> DEFINE p == xfer[n].target
           c == [Campaign("begin", p) EXCEPT !.caller = n]
<1>1. LeaderOK' /\ IndexOK' /\ LogOK' /\ DiskOK' /\ LoopOK' /\ CallsOK'
  BY Unchanged DEF HandleTimeoutNow
<1>2. xfer[n] \in Transfer /\ p \in Node BY DEF HandleTimeoutNow, WaitOK, Option, Transfer
<1>3. ServerOK' /\ PastOK' BY <1>2, BecomeCandidateTypes DEF HandleTimeoutNow
<1>4. WaitOK'
  <2>1. [xfer[n] EXCEPT !.st = "wait"] \in Transfer BY <1>2 DEF Transfer
  <2> QED BY <2>1 DEF HandleTimeoutNow, WaitOK, Option
<1>5. CampOK'
  <2>1. t \in Task /\ t # Loop /\ SetCamp(p, t, c)
    BY TaskAssumption DEF Task, HandleTimeoutNow
  <2> HIDE DEF p
  <2>2. Campaign("begin", p) \in CampaignRecord BY <1>2, FreshCampaign DEF CampaignStage
  <2>3. c \in CampaignRecord /\ c.st = "begin" /\ c.caller = n
    BY <2>2 DEF CampaignRecord, Campaign, Option
  <2> HIDE DEF c
  <2>4. CampaignShape(p, t, c) BY <2>1, <2>3 DEF CampaignShape
  <2> QED BY <1>2, <2>1, <2>3, <2>4, SetCampTyped DEF Option
<1> QED BY <1>1, <1>3, <1>4, <1>5, TypePartsNext

LEMMA ReceiveTimeoutNowTypes ==
  ASSUME NEW n \in Node, TypeOK, ReceiveTimeoutNow(n)
  PROVE  TypeOK'
<1> USE TypeParts
<1> DEFINE x == xfer[n]
<1>1. LeaderOK' /\ IndexOK' /\ LogOK' /\ DiskOK' /\ LoopOK' /\ CampOK' /\ CallsOK' /\ PastOK'
  BY Unchanged DEF ReceiveTimeoutNow
<1>2. /\ x \in Transfer /\ x.reply \in Term /\ x.target \in Option(Node)
  BY DEF ReceiveTimeoutNow, WaitOK, Option, Transfer
<1>3. ServerOK'
  <2>1. CASE x.reply > x.term
    <3>1. BecomeFollower(n, x.reply, x.target) BY <2>1 DEF ReceiveTimeoutNow
    <3> QED BY <1>2, <3>1, BecomeFollowerTypes
  <2>2. CASE ~(x.reply > x.term) BY <2>2, Unchanged DEF ReceiveTimeoutNow
  <2> QED BY <2>1, <2>2
<1>4. WaitOK'
  <2>1. [x EXCEPT !.st = "down"] \in Transfer BY <1>2 DEF Transfer
  <2> QED BY <2>1 DEF ReceiveTimeoutNow, WaitOK, Option
<1> QED BY <1>1, <1>3, <1>4, TypePartsNext

LEMMA StepDownTypes ==
  ASSUME NEW n \in Node, TypeOK, StepDown(n)
  PROVE  TypeOK'
<1> USE TypeParts
<1>1. LeaderOK' /\ IndexOK' /\ LogOK' /\ DiskOK' /\ LoopOK' /\ CampOK' /\ CallsOK' /\ PastOK'
  BY Unchanged DEF StepDown
<1>2. xfer[n].term \in Term /\ xfer[n].target \in Option(Node)
  BY DEF StepDown, WaitOK, Option, Transfer
<1>3. ServerOK' BY <1>2, BecomeFollowerTypes DEF StepDown
<1>4. WaitOK' BY DEF StepDown, WaitOK, Option
<1> QED BY <1>1, <1>3, <1>4, TypePartsNext

LEMMA TimeoutNowFailsTypes ==
  ASSUME NEW n \in Node, TypeOK, TimeoutNowFails(n)
  PROVE  TypeOK'
<1> USE TypeParts
<1>1. ServerOK' /\ LeaderOK' /\ IndexOK' /\ LogOK' /\ LoopOK' /\ CallsOK'
  BY Unchanged DEF TimeoutNowFails
<1>2. WaitOK' BY ReleaseTypes DEF TimeoutNowFails, WaitOK, Option
<1>3. PastOK' BY SpendTypes DEF TimeoutNowFails
<1>4. DiskOK'
  <2>1. CASE Served(n) = {} BY <2>1, Unchanged DEF TimeoutNowFails
  <2>2. CASE Served(n) # {}
    <3>1. PICK pt \in Served(n) : DropSave(pt[1], pt[2]) BY <2>2 DEF TimeoutNowFails
    <3>2. pt[1] \in Node /\ pt[2] \in Task BY DEF Served, Task
    <3> QED BY <3>1, <3>2, DropSaveTypes
  <2> QED BY <2>1, <2>2
<1>5. CampOK'
  <2>1. /\ camp' \in [Node -> [Task -> Option(CampaignRecord)]]
        /\ \A p \in Node, t \in Task : camp'[p][t] \in {Nil, camp[p][t]}
    BY DEF TimeoutNowFails, EndCampaigns, CampOK, Option
  <2> QED BY <2>1 DEF CampOK, Running
<1> QED BY <1>1, <1>2, <1>3, <1>4, <1>5, TypePartsNext

LEMMA ElectionTypes ==
  ASSUME NEW n \in Node, TypeOK, TransferWaits, ElectionStep(n)
  PROVE  TypeOK'
<1>1. CASE \E t \in Task : CampaignStep(n, t) \/ VoteCallFails(n, t)
  BY <1>1, SaveCandidateTypes, ReceiveVoteTypes, FinishCampaignTypes, RejectStaleVoteTypes,
     GrantVoteTypes, DenyVoteTypes, SaveVoteTypes, AnswerVoteTypes, VoteCallFailsTypes
     DEF CampaignStep
<1>2. CASE StartElection(n) \/ PreVote(n) \/ PreVoteLost(n) \/ StartRealElection(n)
           \/ \E t \in Handler : CopyState(n, t)
  BY <1>2, StartElectionTypes, PreVoteTypes, PreVoteLostTypes, StartRealElectionTypes,
     CopyStateTypes
<1>3. CASE \/ \E p \in Node : TransferLeader(n, p)
           \/ \E t \in Handler : HandleTimeoutNow(n, t)
           \/ SendTimeoutNow(n) \/ RejectTimeoutNow(n) \/ ReceiveTimeoutNow(n)
           \/ StepDown(n) \/ TimeoutNowFails(n)
  BY <1>3, TransferLeaderTypes, HandleTimeoutNowTypes, SendTimeoutNowTypes,
     RejectTimeoutNowTypes, ReceiveTimeoutNowTypes, StepDownTypes, TimeoutNowFailsTypes
<1> QED BY <1>1, <1>2, <1>3 DEF ElectionStep

-----------------------------------------------------------------------------
(* TransferWaits. *)

\* No action that leaves the waiting calls alone and starts no handler disturbs it.
LEMMA CallersKept ==
  ASSUME TransferWaits, UNCHANGED xfer,
         \A p \in Node, t \in Handler : camp'[p][t] # Nil =>
           Running(p, t) /\ camp'[p][t].caller = camp[p][t].caller
  PROVE  TransferWaits'
BY DEF TransferWaits, Running

LEMMA SetCampKeepsCallers ==
  ASSUME TransferWaits, CampOK, UNCHANGED xfer, NEW n \in Node, NEW t \in Task, NEW c,
         SetCamp(n, t, c),
         \/ t = Loop
         \/ c = Nil
         \/ Running(n, t) /\ c.caller = camp[n][t].caller
  PROVE  TransferWaits'
<1>1. ASSUME NEW p \in Node, NEW u \in Handler, camp'[p][u] # Nil
      PROVE  Running(p, u) /\ camp'[p][u].caller = camp[p][u].caller
  <2>1. u \in Task /\ u # Loop BY TaskAssumption DEF Task
  <2>2. CASE p = n /\ u = t BY <1>1, <2>1, <2>2 DEF SetCamp, CampOK
  <2>3. CASE ~(p = n /\ u = t)
    <3>1. camp'[p][u] = camp[p][u] BY <2>1, <2>3 DEF SetCamp, CampOK
    <3> QED BY <1>1, <3>1 DEF Running
  <2> QED BY <2>2, <2>3
<1> QED BY <1>1, CallersKept

\* Every handler whose caller is not n keeps what TransferWaits says of it when the
\* call of n changes, and the call of n was not waiting.
LEMMA IdleTransferChanges ==
  ASSUME TransferWaits, WaitOK, UNCHANGED camp, NEW n \in Node, NEW x,
         xfer' = [xfer EXCEPT ![n] = x], xfer[n] \notin {y \in Transfer : y.st = "wait"}
  PROVE  TransferWaits'
<1>1. \A p \in Node, t \in Handler : Running(p, t) => camp[p][t].caller # n
  BY DEF TransferWaits
<1>2. \A p \in Node, t \in Handler : Running(p, t) =>
        xfer'[camp[p][t].caller] = xfer[camp[p][t].caller]
  BY <1>1 DEF WaitOK
<1> QED BY <1>2 DEF TransferWaits, Running

LEMMA CampaignStepKeepsCallers ==
  ASSUME NEW n \in Node, NEW t \in Task, TypeOK, TransferWaits,
         CampaignStep(n, t) \/ VoteCallFails(n, t)
  PROVE  TransferWaits'
<1> USE TypeParts
<1>1. Running(n, t)
  BY DEF CampaignStep, VoteCallFails, SaveCandidate, ReceiveVote, FinishCampaign,
     RejectStaleVote, GrantVote, DenyVote, Asked, SaveVote, AnswerVote, Calling
<1>2. camp[n][t] \in CampaignRecord BY <1>1, CampaignTyped
<1>3. CASE FinishCampaign(n, t)
  <2>1. CASE t = Loop BY <1>3, <2>1, SetCampKeepsCallers DEF FinishCampaign
  <2>2. CASE t # Loop
    <3> DEFINE q == camp[n][t].caller
    <3>1. t \in Handler BY <2>2 DEF Task
    <3>2. \A p \in Node, u \in Handler : camp'[p][u] # Nil =>
            /\ Running(p, u) /\ camp'[p][u] = camp[p][u] /\ camp[p][u].caller # q
      <4>1. ASSUME NEW p \in Node, NEW u \in Handler, camp'[p][u] # Nil
            PROVE  /\ Running(p, u) /\ camp'[p][u] = camp[p][u] /\ camp[p][u].caller # q
        <5>1. u \in Task BY DEF Task
        <5>2. ~(p = n /\ u = t) BY <1>3, <4>1, <5>1 DEF FinishCampaign, SetCamp, CampOK
        <5>3. camp'[p][u] = camp[p][u]
          BY <1>3, <5>1, <5>2 DEF FinishCampaign, SetCamp, CampOK
        <5> QED BY <1>1, <3>1, <4>1, <5>2, <5>3 DEF TransferWaits, Running
      <4> QED BY <4>1
    <3>3. \A p \in Node, u \in Handler : Running(p, u) /\ camp[p][u].caller # q =>
            xfer'[camp[p][u].caller] = xfer[camp[p][u].caller]
      BY <1>3, <2>2 DEF FinishCampaign, WaitOK
    <3> HIDE DEF q
    <3> QED BY <3>2, <3>3 DEF TransferWaits, Running
  <2> QED BY <2>1, <2>2
<1> DEFINE c == camp[n][t]
<1>4. CASE SaveCandidate(n, t)
  <2> DEFINE d == [c EXCEPT !.st = "ask", !.data = Nil,
                             !.lastTerm = LastTerm(log[n]), !.lastIdx = LastIndex(log[n])]
  <2>1. SetCamp(n, t, d) /\ UNCHANGED xfer BY <1>4 DEF SaveCandidate
  <2>2. d.caller = c.caller BY <1>2 DEF CampaignRecord
  <2> HIDE DEF d
  <2> QED BY <1>1, <2>1, <2>2, SetCampKeepsCallers
<1>5. CASE SaveVote(n, t)
  <2> DEFINE d == [c EXCEPT !.st = "saved", !.data = Nil]
  <2>1. SetCamp(n, t, d) /\ UNCHANGED xfer BY <1>5 DEF SaveVote
  <2>2. d.caller = c.caller BY <1>2 DEF CampaignRecord
  <2> HIDE DEF d
  <2> QED BY <1>1, <2>1, <2>2, SetCampKeepsCallers
<1>6. CASE AnswerVote(n, t)
  <2> DEFINE d == [c EXCEPT !.st = "got",
                      !.reply = [term |-> term[Peer(n, c)], granted |-> TRUE]]
  <2>1. SetCamp(n, t, d) /\ UNCHANGED xfer BY <1>6 DEF AnswerVote
  <2>2. d.caller = c.caller BY <1>2 DEF CampaignRecord
  <2> HIDE DEF d
  <2> QED BY <1>1, <2>1, <2>2, SetCampKeepsCallers
<1>7. CASE VoteCallFails(n, t)
  <2> DEFINE d == [c EXCEPT !.i = @ + 1, !.data = Nil,
                             !.st = IF c.st = "pre" THEN "pre" ELSE "ask"]
  <2>1. SetCamp(n, t, d) /\ UNCHANGED xfer BY <1>7 DEF VoteCallFails
  <2>2. d.caller = c.caller BY <1>2 DEF CampaignRecord
  <2> HIDE DEF d
  <2> QED BY <1>1, <2>1, <2>2, SetCampKeepsCallers
<1>8. ASSUME NEW v \in Node, RejectStaleVote(n, t, v) PROVE TransferWaits'
  <2> DEFINE d == [c EXCEPT !.st = "got", !.reply = [term |-> term[v], granted |-> FALSE]]
  <2>1. SetCamp(n, t, d) /\ UNCHANGED xfer BY <1>8 DEF RejectStaleVote
  <2>2. d.caller = c.caller BY <1>2 DEF CampaignRecord
  <2> HIDE DEF d
  <2> QED BY <1>1, <2>1, <2>2, SetCampKeepsCallers
<1>9. ASSUME NEW v \in Node, GrantVote(n, t, v) PROVE TransferWaits'
  <2> DEFINE d == [c EXCEPT !.st = "saving", !.data = PersistentData(c.term, n, log[v])]
  <2>1. SetCamp(n, t, d) /\ UNCHANGED xfer BY <1>9 DEF GrantVote
  <2>2. d.caller = c.caller BY <1>2 DEF CampaignRecord
  <2> HIDE DEF d
  <2> QED BY <1>1, <2>1, <2>2, SetCampKeepsCallers
<1>10. ASSUME NEW v \in Node, DenyVote(n, t, v) PROVE TransferWaits'
  <2> DEFINE d == [c EXCEPT !.st = "wait"]
  <2>1. SetCamp(n, t, d) /\ UNCHANGED xfer BY <1>10 DEF DenyVote
  <2>2. d.caller = c.caller BY <1>2 DEF CampaignRecord
  <2> HIDE DEF d
  <2> QED BY <1>1, <2>1, <2>2, SetCampKeepsCallers
<1>11. CASE ReceiveVote(n, t)
  <2> DEFINE d == [c EXCEPT !.st = "ask", !.i = @ + 1, !.reply = Nil,
                   !.yes = IF c.reply.granted THEN @ \cup {Peer(n, c)} ELSE @]
  <2>1. CASE t = Loop /\ c.reply.term > c.term
    BY <1>11, <2>1, SetCampKeepsCallers DEF ReceiveVote
  <2>2. CASE ~(t = Loop /\ c.reply.term > c.term)
    <3>1. SetCamp(n, t, d) /\ UNCHANGED xfer BY <1>11, <2>2 DEF ReceiveVote
    <3>2. d.caller = c.caller BY <1>2 DEF CampaignRecord
    <3> HIDE DEF d
    <3> QED BY <1>1, <3>1, <3>2, SetCampKeepsCallers
  <2> QED BY <2>1, <2>2
<1> QED BY <1>3, <1>4, <1>5, <1>6, <1>7, <1>8, <1>9, <1>10, <1>11 DEF CampaignStep

LEMMA ElectionKeepsCallers ==
  ASSUME NEW n \in Node, TypeOK, TransferWaits, ElectionStep(n)
  PROVE  TransferWaits'
<1> USE TypeParts
<1>1. CASE \E t \in Task : CampaignStep(n, t) \/ VoteCallFails(n, t)
  BY <1>1, CampaignStepKeepsCallers
<1>2. CASE StartElection(n) \/ PreVote(n) \/ PreVoteLost(n) \/ StartRealElection(n)
  BY <1>2, SetCampKeepsCallers
     DEF StartElection, PreVote, PreVoteLost, StartRealElection, Task
<1>3. ASSUME NEW t \in Handler, CopyState(n, t) PROVE TransferWaits'
  <2> DEFINE c == camp[n][t]
             d == [c EXCEPT !.st = "save", !.term = term[n],
                            !.data = PersistentData(term[n], vote[n], log[n])]
  <2>1. t \in Task /\ Running(n, t) /\ SetCamp(n, t, d) /\ UNCHANGED xfer
    BY <1>3 DEF CopyState, Task
  <2>2. c \in CampaignRecord BY <2>1, CampaignTyped
  <2>3. d.caller = c.caller BY <2>2 DEF CampaignRecord
  <2> HIDE DEF d
  <2> QED BY <2>1, <2>3, SetCampKeepsCallers
<1>4. CASE \/ \E p \in Node : TransferLeader(n, p)
           \/ SendTimeoutNow(n) \/ RejectTimeoutNow(n) \/ ReceiveTimeoutNow(n)
           \/ StepDown(n)
  BY <1>4, NoRecordIsNil, IdleTransferChanges
     DEF TransferLeader, SendTimeoutNow, RejectTimeoutNow, ReceiveTimeoutNow, StepDown
<1>5. ASSUME NEW t \in Handler, HandleTimeoutNow(n, t) PROVE TransferWaits'
  <2> DEFINE p == xfer[n].target
             c == [Campaign("begin", p) EXCEPT !.caller = n]
  <2>1. /\ xfer[n] \in Transfer /\ p \in Node /\ t \in Task /\ ~Running(p, t)
        /\ xfer[n] # Nil /\ xfer[n].st = "sent"
        /\ SetCamp(p, t, c) /\ xfer' = [xfer EXCEPT ![n].st = "wait"]
    BY <1>5 DEF HandleTimeoutNow, WaitOK, Option, Transfer, Task
  <2>2. c.caller = n BY DEF Campaign
  <2> HIDE DEF c, p
  <2>3. \A q \in Node, u \in Handler :
          Running(q, u) => camp[q][u].caller # n
    BY <2>1 DEF TransferWaits
  <2>4. \A q \in Node, u \in Handler :
          IF q = p /\ u = t THEN camp'[q][u] = c ELSE camp'[q][u] = camp[q][u]
    BY <2>1 DEF SetCamp, CampOK, Task
  <2>5. xfer'[n] \in {x \in Transfer : x.st = "wait"}
    <3>1. [xfer[n] EXCEPT !.st = "wait"] \in {x \in Transfer : x.st = "wait"}
      BY <2>1 DEF Transfer
    <3> QED BY <2>1, <3>1 DEF WaitOK
  <2>6. \A q : q # n => xfer'[q] = xfer[q] BY <2>1 DEF WaitOK
  <2> QED BY <2>1, <2>2, <2>3, <2>4, <2>5, <2>6 DEF TransferWaits, Running
<1>6. CASE TimeoutNowFails(n)
  <2>1. \A p \in Node, t \in Handler : camp'[p][t] # Nil =>
          Running(p, t) /\ camp'[p][t] = camp[p][t] /\ camp[p][t].caller # n
    BY <1>6 DEF TimeoutNowFails, EndCampaigns, Served, Task, Running
  <2>2. \A q : q # n => xfer'[q] = xfer[q] BY <1>6 DEF TimeoutNowFails, WaitOK
  <2> QED BY <2>1, <2>2 DEF TransferWaits, Running
<1> QED BY <1>1, <1>2, <1>3, <1>4, <1>5, <1>6 DEF ElectionStep

-----------------------------------------------------------------------------
(* The actions of Replication. *)

\* pc tells what the loop has captured.
LEMMA LoopTyped ==
  ASSUME LoopOK, NEW n \in Node
  PROVE  /\ loop[n].pc = "beat" => loop[n] \in Beating
         /\ loop[n].pc = "send" => loop[n] \in Sending
         /\ loop[n].pc = "tally" => loop[n] \in Tallying
         /\ loop[n].pc \in {"advance", "applied", "snapshot"} => loop[n] \in Raising
         /\ loop[n].pc = "applying" => loop[n] \in Applying
         /\ loop[n].pc = "copy" => loop[n] \in Copying
         /\ loop[n].pc = "compact" => loop[n] \in Cutting
         /\ loop[n].pc = "store" => loop[n] \in Storing
         /\ loop[n].pc = "save" => loop[n] \in Saving
BY DEF LoopOK, LoopState, Marker, Beating, Sending, Tallying, Raising, Applying, Copying,
       Cutting, Storing, Saving

LEMMA GoToTyped ==
  ASSUME LoopOK, NEW n \in Node, NEW b \in LoopState, GoTo(n, b)
  PROVE  LoopOK'
BY DEF GoTo, LoopOK

LEMMA GotoTyped ==
  ASSUME LoopOK, NEW n \in Node, NEW pc \in {"idle", "elect", "commit", "apply", "check"},
         Goto(n, pc)
  PROVE  LoopOK'
<1>1. [pc |-> pc] \in LoopState BY DEF LoopState, Marker
<1> QED BY <1>1, GoToTyped DEF Goto

\* An action that only moves the main loop.
LEMMA LoopMoves ==
  ASSUME TypeOK, LoopOK',
         UNCHANGED <<stateVars, leaderState, indexVars, log, disk, calls, electionVars, used>>
  PROVE  TypeOK'
<1>1. /\ ServerOK' /\ LeaderOK' /\ IndexOK' /\ LogOK' /\ DiskOK' /\ CampOK' /\ WaitOK'
      /\ CallsOK' /\ PastOK'
  BY TypeParts, Unchanged DEF electionVars
<1> QED BY <1>1, TypePartsNext

LEMMA IdlePassTypes ==
  ASSUME NEW n \in Node, TypeOK, IdlePass(n)
  PROVE  TypeOK'
BY TypeParts, GotoTyped, LoopMoves DEF IdlePass

LEMMA BeginHeartbeatTypes ==
  ASSUME NEW n \in Node, TypeOK, BeginHeartbeat(n)
  PROVE  TypeOK'
<1> USE TypeParts
<1> DEFINE b == [pc |-> "beat", term |-> term[n], commit |-> commit[n],
                 next |-> leaderState[n].next]
<1>1. leaderState[n] \in LeaderState BY DEF BeginHeartbeat, LeaderOK, Option
<1>2. b \in Beating BY <1>1 DEF LeaderState, Beating, ServerOK, IndexOK
<1>3. b \in LoopState BY <1>2 DEF LoopState
<1>4. GoTo(n, b) BY DEF BeginHeartbeat
<1> HIDE DEF b
<1>5. LoopOK' BY <1>3, <1>4, GoToTyped
<1> QED BY <1>5, LoopMoves DEF BeginHeartbeat

LEMMA ReadSnapshotTypes ==
  ASSUME NEW n \in Node, TypeOK, ReadSnapshot(n)
  PROVE  TypeOK'
<1> USE TypeParts
<1> DEFINE b == [pc |-> "send", term |-> loop[n].term, commit |-> loop[n].commit,
                 next |-> loop[n].next, i |-> 1, snapIdx |-> log[n].snapIdx,
                 snapTerm |-> log[n].snapTerm, snap |-> disk[n].snap]
<1>1. loop[n] \in Beating BY LoopTyped DEF ReadSnapshot, At
<1>2. log[n].snapIdx \in Nat /\ log[n].snapTerm \in Nat BY LogFields DEF LogOK
<1>3. disk[n].snap \in Option(Seq(Cmd)) BY DEF DiskOK, Persistent
<1>4. b \in Sending BY <1>1, <1>2, <1>3 DEF Beating, Sending
<1>5. b \in LoopState BY <1>4 DEF LoopState
<1>6. GoTo(n, b) BY DEF ReadSnapshot
<1> HIDE DEF b
<1>7. LoopOK' BY <1>5, <1>6, GoToTyped
<1> QED BY <1>7, LoopMoves DEF ReadSnapshot

\* The round goes to the next peer.
LEMMA NextPeerTyped ==
  ASSUME LoopOK, NEW n \in Node, At(n, "send"), GoTo(n, [loop[n] EXCEPT !.i = @ + 1])
  PROVE  LoopOK'
<1> DEFINE b == loop[n]
           d == [b EXCEPT !.i = b.i + 1]
<1>1. b \in Sending /\ GoTo(n, d) BY LoopTyped DEF At
<1> HIDE DEF b
<1>2. d \in Sending BY <1>1 DEF Sending
<1>3. d \in LoopState BY <1>2 DEF LoopState
<1> HIDE DEF d
<1> QED BY <1>1, <1>3, GoToTyped

LEMMA SkipPeerTypes ==
  ASSUME NEW n \in Node, TypeOK, SkipPeer(n)
  PROVE  TypeOK'
<1>1. LoopOK' BY TypeParts, NextPeerTyped DEF SkipPeer
<1> QED BY <1>1, LoopMoves DEF SkipPeer

LEMMA AppendRequestType ==
  ASSUME LogOK, NEW n \in Node, NEW p \in Node, NEW b \in Sending
  PROVE  AppendRequest(n, p, b) \in AppendReq
<1> DEFINE next == b.next[p]
<1>1. /\ b.term \in Term /\ b.commit \in Nat /\ next \in Nat /\ next - 1 \in Nat
  BY DEF Sending
<1>2. log[n] \in Log(Cmd) BY DEF LogOK
<1> HIDE DEF next
<1>3. TermAt(log[n], next - 1) \in Nat BY <1>1, <1>2, TermInLog
<1>4. EntriesFrom(log[n], next) \in Seq(Entry(Cmd)) BY <1>1, <1>2, EntriesFromType
<1>5. FirstOf(EntriesFrom(log[n], next), MaxEntries) \in Seq(Entry(Cmd))
  BY <1>4, FirstOfType, BoundAssumption
<1> QED BY <1>1, <1>3, <1>5 DEF AppendRequest, AppendReq, next

LEMMA SendToPeerTypes ==
  ASSUME NEW n \in Node, NEW s \in Sender, TypeOK, SendToPeer(n, s)
  PROVE  TypeOK'
<1> USE TypeParts
<1> DEFINE b == loop[n]
           p == PeerSeq[n][b.i]
<1>1. /\ ServerOK' /\ LeaderOK' /\ IndexOK' /\ LogOK' /\ DiskOK' /\ CampOK' /\ WaitOK'
      /\ PastOK'
  BY Unchanged DEF SendToPeer, electionVars
<1>2. LoopOK' BY NextPeerTyped DEF SendToPeer
<1>3. b \in Sending BY LoopTyped DEF SendToPeer, At
<1>4. p \in Node
  <2>1. b.i \in Nat \ {0} BY <1>3 DEF Sending
  <2> QED BY <2>1, PeerIsNode DEF SendToPeer
<1>5. CallsOK'
  <2>1. CASE UNCHANGED calls BY <2>1, Unchanged
  <2>2. ASSUME NEW q \in Request,
               calls' = calls \cup {[from |-> n, to |-> p, slot |-> s, req |-> q,
                                     reply |-> Nil]}
        PROVE  CallsOK'
    <3> DEFINE m == [from |-> n, to |-> p, slot |-> s, req |-> q, reply |-> Nil]
    <3> HIDE DEF p
    <3>1. m \in Call /\ m.reply = Nil BY <1>4 DEF Call, Option
    <3>2. calls' = calls \cup {m} BY <2>2
    <3> HIDE DEF m
    <3> QED BY <3>1, <3>2 DEF CallsOK
  <2>3. AppendRequest(n, p, b) \in Request
    BY <1>3, <1>4, AppendRequestType DEF Request
  <2>4. b.snap # Nil => SnapshotRequest(b) \in Request
    BY <1>3 DEF Sending, SnapshotRequest, SnapshotReq, Request, Option
  <2> QED BY <2>1, <2>2, <2>3, <2>4 DEF SendToPeer
<1> QED BY <1>1, <1>2, <1>5, TypePartsNext

LEMMA EndHeartbeatTypes ==
  ASSUME NEW n \in Node, TypeOK, EndHeartbeat(n)
  PROVE  TypeOK'
BY TypeParts, GotoTyped, LoopMoves DEF EndHeartbeat

LEMMA ReadMatchTypes ==
  ASSUME NEW n \in Node, TypeOK, ReadMatch(n)
  PROVE  TypeOK'
<1> USE TypeParts
<1> DEFINE b == [pc |-> "tally", term |-> term[n], match |-> leaderState[n].match,
                 commit |-> commit[n]]
<1>1. CASE role[n] = "Leader" /\ leaderState[n] # Nil
  <2>1. leaderState[n] \in LeaderState BY <1>1 DEF LeaderOK, Option
  <2>2. b \in Tallying BY <2>1 DEF LeaderState, Tallying, ServerOK, IndexOK
  <2>3. b \in LoopState BY <2>2 DEF LoopState
  <2>4. GoTo(n, b) BY <1>1 DEF ReadMatch
  <2> HIDE DEF b
  <2>5. LoopOK' BY <2>3, <2>4, GoToTyped
  <2> QED BY <2>5, LoopMoves DEF ReadMatch
<1>2. CASE ~(role[n] = "Leader" /\ leaderState[n] # Nil)
  BY <1>2, GotoTyped, LoopMoves DEF ReadMatch
<1> QED BY <1>1, <1>2

LEMMA RaisingTyped ==
  ASSUME LoopOK, NEW n \in Node, NEW i \in Nat, NEW pc \in {"advance", "applied", "snapshot"},
         GoTo(n, [pc |-> pc, upTo |-> i])
  PROVE  LoopOK'
<1>1. [pc |-> pc, upTo |-> i] \in LoopState BY DEF LoopState, Raising
<1> QED BY <1>1, GoToTyped

LEMMA TallyTypes ==
  ASSUME NEW n \in Node, TypeOK, Tally(n)
  PROVE  TypeOK'
<1> USE TypeParts
<1>1. loop[n].commit \in Nat BY LoopTyped DEF Tally, At, Tallying
<1>2. \A i \in Committable(n, loop[n]) : i \in Nat
  <2>1. LastIndex(log[n]) \in Nat BY LastOfLog DEF LogOK
  <2> QED BY <1>1, <2>1 DEF Committable
<1>3. LoopOK' BY <1>2, GotoTyped, RaisingTyped DEF Tally
<1> QED BY <1>3, LoopMoves DEF Tally

LEMMA AdvanceCommitTypes ==
  ASSUME NEW n \in Node, TypeOK, AdvanceCommit(n)
  PROVE  TypeOK'
<1> USE TypeParts
<1>1. /\ ServerOK' /\ LeaderOK' /\ LogOK' /\ DiskOK' /\ CampOK' /\ WaitOK' /\ CallsOK'
      /\ PastOK'
  BY Unchanged DEF AdvanceCommit, electionVars
<1>2. LoopOK' BY GotoTyped DEF AdvanceCommit
<1>3. loop[n].upTo \in Nat BY LoopTyped DEF AdvanceCommit, At, Raising
<1>4. IndexOK' BY <1>3 DEF AdvanceCommit, IndexOK
<1> QED BY <1>1, <1>2, <1>4, TypePartsNext

LEMMA ReadCommitTypes ==
  ASSUME NEW n \in Node, TypeOK, ReadCommit(n)
  PROVE  TypeOK'
<1> USE TypeParts
<1> DEFINE b == [pc |-> "applying", from |-> applied[n], upTo |-> commit[n]]
<1>1. b \in LoopState BY DEF IndexOK, LoopState, Applying
<1>2. GoTo(n, b) \/ Goto(n, "check") BY DEF ReadCommit
<1> HIDE DEF b
<1>3. LoopOK' BY <1>1, <1>2, GoToTyped, GotoTyped
<1> QED BY <1>3, LoopMoves DEF ReadCommit

LEMMA CommandsType ==
  ASSUME LogOK, NEW n \in Node, NEW from \in Nat, NEW upTo \in Nat
  PROVE  Commands(n, from, upTo) \in Seq(Cmd)
<1> DEFINE low == Larger(from, log[n].snapIdx)
           high == Smaller(upTo, LastIndex(log[n]))
           f == Commands(n, from, upTo)
<1>1. log[n] \in Log(Cmd) /\ log[n].snapIdx \in Nat /\ LastIndex(log[n]) \in Nat
  BY LogFields, LastOfLog DEF LogOK
<1>2. /\ low \in Nat /\ high \in Nat /\ low >= log[n].snapIdx /\ high <= LastIndex(log[n])
  BY <1>1 DEF Larger, Smaller
<1>3. f = [k \in 1..(high - low) |-> EntryAt(log[n], low + k).cmd] BY DEF Commands
<1> HIDE DEF low, high, f
<1>4. ASSUME NEW k \in 1..(high - low) PROVE EntryAt(log[n], low + k).cmd \in Cmd
  <2>1. low + k \in Nat /\ Holds(log[n], low + k) BY <1>1, <1>2 DEF Holds
  <2> QED BY <1>1, <2>1, EntryInLog DEF Entry
<1>5. f \in [1..(high - low) -> Cmd] BY <1>3, <1>4
<1>6. \E j \in Nat : 1..(high - low) = 1..j
  <2>1. CASE high - low \in Nat BY <2>1
  <2>2. CASE high - low \notin Nat
    <3>1. 1..(high - low) = {} BY <1>2, <2>2
    <3>2. 1..0 = {} OBVIOUS
    <3> QED BY <3>1, <3>2
  <2> QED BY <2>1, <2>2
<1>7. PICK j \in Nat : f \in [1..j -> Cmd] BY <1>5, <1>6
<1>8. f \in Seq(Cmd) BY <1>7, SeqDef
<1> QED BY <1>8 DEF f

LEMMA ApplyEntriesTypes ==
  ASSUME NEW n \in Node, TypeOK, ApplyEntries(n)
  PROVE  TypeOK'
<1> USE TypeParts
<1>1. /\ ServerOK' /\ LeaderOK' /\ LogOK' /\ DiskOK' /\ CampOK' /\ WaitOK' /\ CallsOK'
      /\ PastOK'
  BY Unchanged DEF ApplyEntries, electionVars
<1>2. loop[n].from \in Nat /\ loop[n].upTo \in Nat
  BY LoopTyped DEF ApplyEntries, At, Applying
<1>3. LoopOK' BY <1>2, RaisingTyped DEF ApplyEntries
<1>4. IndexOK'
  <2> DEFINE cs == Commands(n, loop[n].from, loop[n].upTo)
  <2>1. cs \in Seq(Cmd) BY <1>2, CommandsType
  <2> HIDE DEF cs
  <2>2. machine[n] \o cs \in Seq(Cmd) BY <2>1, ConcatProperties DEF IndexOK
  <2>3. machine' = [machine EXCEPT ![n] = machine[n] \o cs] BY DEF ApplyEntries, cs
  <2> QED BY <2>2, <2>3 DEF ApplyEntries, IndexOK
<1> QED BY <1>1, <1>3, <1>4, TypePartsNext

LEMMA SetAppliedTypes ==
  ASSUME NEW n \in Node, TypeOK, SetApplied(n)
  PROVE  TypeOK'
<1> USE TypeParts
<1>1. /\ ServerOK' /\ LeaderOK' /\ LogOK' /\ DiskOK' /\ CampOK' /\ WaitOK' /\ CallsOK'
      /\ PastOK'
  BY Unchanged DEF SetApplied, electionVars
<1>2. LoopOK' BY GotoTyped DEF SetApplied
<1>3. loop[n].upTo \in Nat BY LoopTyped DEF SetApplied, At, Raising
<1>4. IndexOK' BY <1>3 DEF SetApplied, IndexOK
<1> QED BY <1>1, <1>2, <1>4, TypePartsNext

LEMMA CheckSnapshotTypes ==
  ASSUME NEW n \in Node, TypeOK, CheckSnapshot(n)
  PROVE  TypeOK'
<1>1. commit[n] \in Nat /\ LoopOK BY TypeParts DEF IndexOK
<1>2. LoopOK' BY <1>1, GotoTyped, RaisingTyped DEF CheckSnapshot
<1> QED BY <1>2, LoopMoves DEF CheckSnapshot

LEMMA TakeSnapshotTypes ==
  ASSUME NEW n \in Node, TypeOK, TakeSnapshot(n)
  PROVE  TypeOK'
<1> USE TypeParts
<1> DEFINE i == loop[n].upTo
           b == [pc |-> "copy", upTo |-> i, term |-> TermAt(log[n], i)]
<1>1. i \in Nat BY LoopTyped DEF TakeSnapshot, At, Raising
<1>2. TermAt(log[n], i) \in Nat BY <1>1, TermInLog DEF LogOK
<1>3. b \in LoopState BY <1>1, <1>2 DEF LoopState, Copying
<1>4. GoTo(n, b) \/ Goto(n, "idle") BY DEF TakeSnapshot
<1> HIDE DEF b
<1>5. LoopOK' BY <1>3, <1>4, GoToTyped, GotoTyped
<1> QED BY <1>5, LoopMoves DEF TakeSnapshot

LEMMA CopyStoreTypes ==
  ASSUME NEW n \in Node, TypeOK, CopyStore(n)
  PROVE  TypeOK'
<1> USE TypeParts
<1> DEFINE b == [pc |-> "compact", upTo |-> loop[n].upTo, term |-> loop[n].term,
                 data |-> machine[n]]
<1>1. loop[n].upTo \in Nat /\ loop[n].term \in Nat
  BY LoopTyped DEF CopyStore, At, Copying
<1>2. b \in LoopState BY <1>1 DEF LoopState, Cutting, IndexOK
<1>3. GoTo(n, b) BY DEF CopyStore
<1> HIDE DEF b
<1>4. LoopOK' BY <1>2, <1>3, GoToTyped
<1> QED BY <1>4, LoopMoves DEF CopyStore

LEMMA CompactTypes ==
  ASSUME NEW n \in Node, TypeOK, Compact(n)
  PROVE  TypeOK'
<1> USE TypeParts
<1>1. /\ ServerOK' /\ LeaderOK' /\ IndexOK' /\ DiskOK' /\ CampOK' /\ WaitOK' /\ CallsOK'
      /\ PastOK'
  BY Unchanged DEF Compact, electionVars
<1>2. loop[n] \in Cutting BY LoopTyped DEF Compact, At
<1>3. loop[n].upTo \in Nat /\ loop[n].term \in Nat /\ loop[n].data \in Seq(Cmd)
  BY <1>2 DEF Cutting
<1>4. ApplySnapshot(log[n], loop[n].upTo, loop[n].term) \in Log(Cmd)
  BY <1>3, ApplySnapshotType DEF LogOK
<1>5. LogOK' BY <1>4 DEF Compact, LogOK
<1>6. [pc |-> "store", data |-> loop[n].data] \in LoopState BY <1>3 DEF LoopState, Storing
<1>7. LoopOK' BY <1>6, GoToTyped DEF Compact
<1> QED BY <1>1, <1>5, <1>7, TypePartsNext

\* A file with snapshot data.
LEMMA SnapshotFileType ==
  ASSUME NEW d \in Persistent, NEW x \in Option(Seq(Cmd))
  PROVE  [d EXCEPT !.snap = x] \in Persistent
BY DEF Persistent

LEMMA CopySnapshotTypes ==
  ASSUME NEW n \in Node, TypeOK, CopySnapshot(n)
  PROVE  TypeOK'
<1> USE TypeParts
<1> DEFINE d == [PersistentData(term[n], vote[n], log[n]) EXCEPT !.snap = loop[n].data]
<1>1. loop[n].data \in Seq(Cmd) BY LoopTyped DEF CopySnapshot, At, Storing
<1>2. PersistentData(term[n], vote[n], log[n]) \in Persistent
  BY PersistentType DEF ServerOK, LogOK
<1>3. d \in Persistent BY <1>1, <1>2, SnapshotFileType DEF Option
<1>4. GoTo(n, [pc |-> "save", data |-> d]) BY DEF CopySnapshot
<1> HIDE DEF d
<1>5. [pc |-> "save", data |-> d] \in LoopState BY <1>3 DEF LoopState, Saving
<1>6. LoopOK' BY <1>4, <1>5, GoToTyped
<1> QED BY <1>6, LoopMoves DEF CopySnapshot

LEMMA SaveSnapshotTypes ==
  ASSUME NEW n \in Node, TypeOK, SaveSnapshot(n)
  PROVE  TypeOK'
<1> USE TypeParts
<1>1. /\ ServerOK' /\ LeaderOK' /\ IndexOK' /\ LogOK' /\ CampOK' /\ WaitOK' /\ CallsOK'
      /\ PastOK'
  BY Unchanged DEF SaveSnapshot, electionVars
<1>2. loop[n].data \in Persistent BY LoopTyped DEF SaveSnapshot, At, Saving
<1>3. DiskOK' BY <1>2 DEF SaveSnapshot, DiskOK
<1>4. LoopOK' BY GotoTyped DEF SaveSnapshot
<1> QED BY <1>1, <1>3, <1>4, TypePartsNext

LEMMA WithCommandType ==
  ASSUME ServerOK, LogOK, NEW n \in Node, NEW v \in Cmd
  PROVE  WithCommand(n, v) \in Log(Cmd)
<1> DEFINE e == [term |-> term[n], index |-> LastIndex(log[n]) + 1, cmd |-> v]
<1>1. LastIndex(log[n]) + 1 \in Nat BY LastOfLog DEF LogOK
<1>2. term[n] \in Nat BY TermNat DEF ServerOK
<1>3. e \in Entry(Cmd) BY <1>1, <1>2 DEF Entry
<1>4. WithCommand(n, v) = AppendAll(log[n], <<e>>) BY DEF WithCommand
<1> HIDE DEF e
<1>5. <<e>> \in Seq(Entry(Cmd)) BY <1>3
<1> QED BY <1>4, <1>5, AppendAllType DEF LogOK

LEMMA PutTypes ==
  ASSUME NEW n \in Node, NEW v \in Cmd, TypeOK, Put(n, v)
  PROVE  TypeOK'
<1> USE TypeParts
<1> DEFINE l == WithCommand(n, v)
<1>1. /\ ServerOK' /\ LeaderOK' /\ IndexOK' /\ LoopOK' /\ CampOK' /\ WaitOK' /\ CallsOK'
  BY Unchanged DEF Put, electionVars
<1>2. PastOK' BY SpendTypes DEF Put, electionVars
<1>3. l \in Log(Cmd) BY WithCommandType
<1>4. /\ log' = [log EXCEPT ![n] = l]
      /\ disk' = [disk EXCEPT ![n] = PersistentData(term[n], vote[n], l)]
  BY DEF Put
<1> HIDE DEF l
<1>5. LogOK' BY <1>3, <1>4 DEF LogOK
<1>6. DiskOK' BY <1>3, <1>4, PersistentType DEF DiskOK, ServerOK
<1> QED BY <1>1, <1>2, <1>5, <1>6, TypePartsNext

LEMMA PutHangsTypes ==
  ASSUME NEW n \in Node, TypeOK, PutHangs(n)
  PROVE  TypeOK'
<1> USE TypeParts
<1>1. /\ ServerOK' /\ LeaderOK' /\ IndexOK' /\ LogOK' /\ DiskOK' /\ LoopOK' /\ CampOK'
      /\ CallsOK'
  BY Unchanged DEF PutHangs, campaignVars
<1>2. PastOK' BY SpendTypes DEF PutHangs, campaignVars
<1>3. <<n, Client>> \in Option(Node \X Waiter) BY DEF Waiter, Option
<1>4. WaitOK' BY <1>3, FreezeTypes DEF PutHangs, campaignVars
<1> QED BY <1>1, <1>2, <1>4, TypePartsNext

LEMMA PutBreaksTypes ==
  ASSUME NEW n \in Node, NEW v \in Cmd, TypeOK, PutBreaks(n, v)
  PROVE  TypeOK'
<1> USE TypeParts
<1>1. /\ ServerOK' /\ LeaderOK' /\ IndexOK' /\ DiskOK' /\ LoopOK' /\ CampOK' /\ CallsOK'
  BY Unchanged DEF PutBreaks, campaignVars
<1>2. PastOK' BY SpendTypes DEF PutBreaks, campaignVars
<1>3. WaitOK' BY FreezeTypes DEF PutBreaks, campaignVars, Option
<1>4. LogOK' BY WithCommandType DEF PutBreaks, LogOK
<1> QED BY <1>1, <1>2, <1>3, <1>4, TypePartsNext

\* A request that has no answer yet, by kind.
LEMMA ReceivedTyped ==
  ASSUME CallsOK, NEW m \in calls
  PROVE  /\ m \in Call /\ m.from \in Node /\ m.to \in Node /\ m.req.term \in Term
         /\ m.req.kind = "append" => m.req \in AppendReq
         /\ m.req.kind = "snapshot" => m.req \in SnapshotReq
         /\ m.req.kind \in {"append", "snapshot"}
BY DEF CallsOK, Call, Request, AppendReq, SnapshotReq

LEMMA ReplyTyped ==
  ASSUME CallsOK, NEW m \in calls, NEW r, Reply(m, r),
         r \in IF m.req.kind = "append" THEN AppendReply ELSE SnapshotReply
  PROVE  CallsOK'
<1> DEFINE a == [m EXCEPT !.reply = r]
<1>1. m \in Call BY DEF CallsOK
<1>2. a \in Call /\ a.reply = r /\ a.req = m.req BY <1>1 DEF Call, Option, Response
<1>3. calls' = (calls \ {m}) \cup {a} BY DEF Reply
<1> HIDE DEF a
<1> QED BY <1>2, <1>3 DEF CallsOK

LEMMA YieldToTypes ==
  ASSUME ServerOK, CallsOK, NEW m \in calls, YieldTo(m)
  PROVE  ServerOK'
<1>1. m.to \in Node /\ m.from \in Option(Node) /\ m.req.term \in Term
  BY ReceivedTyped DEF Option
<1>2. CASE m.req.term > term[m.to] \/ role[m.to] = "Candidate"
  <2>1. BecomeFollower(m.to, m.req.term, m.from) BY <1>2 DEF YieldTo
  <2> QED BY <1>1, <2>1, BecomeFollowerTypes
<1>3. CASE ~(m.req.term > term[m.to] \/ role[m.to] = "Candidate")
  BY <1>1, <1>3 DEF YieldTo, ServerOK
<1> QED BY <1>2, <1>3

LEMMA RejectStaleAppendTypes ==
  ASSUME NEW m \in calls, TypeOK, RejectStaleAppend(m)
  PROVE  TypeOK'
<1> USE TypeParts
<1>1. /\ ServerOK' /\ LeaderOK' /\ IndexOK' /\ LogOK' /\ DiskOK' /\ LoopOK' /\ CampOK'
      /\ WaitOK' /\ PastOK'
  BY Unchanged DEF RejectStaleAppend, electionVars
<1>2. [term |-> term[m.to], success |-> FALSE, match |-> 0] \in AppendReply
  BY ReceivedTyped DEF ServerOK, AppendReply
<1>3. CallsOK' BY <1>2, ReplyTyped DEF RejectStaleAppend, Received
<1> QED BY <1>1, <1>3, TypePartsNext

LEMMA WedgeTypes ==
  ASSUME NEW m \in calls, TypeOK, Wedge(m)
  PROVE  TypeOK'
<1> USE TypeParts
<1>1. /\ LeaderOK' /\ IndexOK' /\ LogOK' /\ DiskOK' /\ LoopOK' /\ CampOK' /\ CallsOK'
      /\ PastOK'
  BY Unchanged DEF Wedge, campaignVars
<1>2. ServerOK' BY YieldToTypes DEF Wedge
<1>3. m.to \in Node /\ <<m.from, m.slot>> \in Option(Node \X Waiter)
  BY DEF CallsOK, Call, Waiter, Option
<1>4. WaitOK' BY <1>3, FreezeTypes DEF Wedge, campaignVars
<1> QED BY <1>1, <1>2, <1>4, TypePartsNext

LEMMA MismatchAppendTypes ==
  ASSUME NEW m \in calls, TypeOK, MismatchAppend(m)
  PROVE  TypeOK'
<1> USE TypeParts
<1>1. /\ LeaderOK' /\ IndexOK' /\ LogOK' /\ DiskOK' /\ LoopOK' /\ CampOK' /\ WaitOK'
      /\ PastOK'
  BY Unchanged DEF MismatchAppend, electionVars
<1>2. ServerOK' BY YieldToTypes DEF MismatchAppend
<1>3. LastIndex(log[m.to]) \in Nat BY ReceivedTyped, LastOfLog DEF LogOK
<1>4. [term |-> m.req.term, success |-> FALSE, match |-> LastIndex(log[m.to])] \in AppendReply
  BY <1>3, ReceivedTyped DEF AppendReply
<1>5. CallsOK' BY <1>4, ReplyTyped DEF MismatchAppend, Received
<1> QED BY <1>1, <1>2, <1>5, TypePartsNext

LEMMA MergeType ==
  ASSUME NEW l \in Log(Cmd), NEW es \in Seq(Entry(Cmd))
  PROVE  Merge(l, es) \in Log(Cmd)
<1>1. CASE es = <<>> BY <1>1 DEF Merge
<1>2. CASE es # <<>>
  <2>1. es[1] \in Entry(Cmd) BY <1>2, EmptySeq, ElementOfSeq
  <2>2. es[1].index \in Nat BY <2>1 DEF Entry
  <2>3. Truncate(l, es[1].index) \in Log(Cmd) BY <2>2, TruncateType
  <2> QED BY <1>2, <2>3, AppendAllType DEF Merge
<1> QED BY <1>1, <1>2

LEMMA AcceptAppendTypes ==
  ASSUME NEW m \in calls, TypeOK, AcceptAppend(m)
  PROVE  TypeOK'
<1> USE TypeParts
<1> DEFINE p == m.to
           q == m.req
           l == Merge(log[p], q.entries)
           last == LastIndex(l)
<1>1. LeaderOK' /\ LoopOK' /\ CampOK' /\ WaitOK' /\ PastOK'
  BY Unchanged DEF AcceptAppend, electionVars
<1>2. ServerOK' BY YieldToTypes DEF AcceptAppend
<1>3. p \in Node /\ q \in AppendReq BY ReceivedTyped DEF AcceptAppend, Received
<1>4. q.entries \in Seq(Entry(Cmd)) /\ q.commit \in Nat /\ q.term \in Term
  BY <1>3 DEF AppendReq
<1>5. l \in Log(Cmd) BY <1>3, <1>4, MergeType DEF LogOK
<1>6. last \in Nat BY <1>5, LastOfLog
<1>7. /\ log' = [log EXCEPT ![p] = l]
      /\ commit' = [commit EXCEPT ![p] = IF q.commit > 0 THEN Smaller(q.commit, last) ELSE @]
      /\ disk' = [disk EXCEPT ![p] = PersistentData(term'[p], vote'[p], l)]
      /\ Reply(m, [term |-> q.term, success |-> TRUE, match |-> last])
      /\ q.kind = "append"
      /\ UNCHANGED <<applied, machine>>
  BY DEF AcceptAppend, Received
<1> HIDE DEF l, last
<1>8. LogOK' BY <1>5, <1>7 DEF LogOK
<1>9. IndexOK'
  <2>1. Smaller(q.commit, last) \in Nat BY <1>4, <1>6 DEF Smaller
  <2> QED BY <1>7, <2>1 DEF IndexOK
<1>10. DiskOK'
  <2>1. PersistentData(term'[p], vote'[p], l) \in Persistent
    BY <1>2, <1>3, <1>5, PersistentType DEF ServerOK
  <2> QED BY <1>7, <2>1 DEF DiskOK
<1>11. CallsOK'
  <2>1. [term |-> q.term, success |-> TRUE, match |-> last] \in AppendReply
    BY <1>4, <1>6 DEF AppendReply
  <2> QED BY <1>7, <2>1, ReplyTyped
<1> QED BY <1>1, <1>2, <1>8, <1>9, <1>10, <1>11, TypePartsNext

LEMMA RejectStaleSnapshotTypes ==
  ASSUME NEW m \in calls, TypeOK, RejectStaleSnapshot(m)
  PROVE  TypeOK'
<1> USE TypeParts
<1>1. /\ ServerOK' /\ LeaderOK' /\ IndexOK' /\ LogOK' /\ DiskOK' /\ LoopOK' /\ CampOK'
      /\ WaitOK' /\ PastOK'
  BY Unchanged DEF RejectStaleSnapshot, electionVars
<1>2. [term |-> term[m.to]] \in SnapshotReply BY ReceivedTyped DEF ServerOK, SnapshotReply
<1>3. CallsOK' BY <1>2, ReplyTyped DEF RejectStaleSnapshot, Received
<1> QED BY <1>1, <1>3, TypePartsNext

LEMMA InstallSnapshotTypes ==
  ASSUME NEW m \in calls, TypeOK, InstallSnapshot(m)
  PROVE  TypeOK'
<1> USE TypeParts
<1> DEFINE p == m.to
           q == m.req
           l == ApplySnapshot(log[p], q.lastIdx, q.lastTerm)
           f == [PersistentData(term'[p], vote'[p], l) EXCEPT !.snap = q.data]
<1>1. LeaderOK' /\ LoopOK' /\ CampOK' /\ WaitOK' /\ PastOK'
  BY Unchanged DEF InstallSnapshot, electionVars
<1>2. ServerOK' BY YieldToTypes DEF InstallSnapshot
<1>3. p \in Node /\ q \in SnapshotReq BY ReceivedTyped DEF InstallSnapshot, Received
<1>4. /\ q.lastIdx \in Nat /\ q.lastTerm \in Nat /\ q.data \in Seq(Cmd) /\ q.term \in Term
  BY <1>3 DEF SnapshotReq
<1>5. CallsOK'
  <2>1. [term |-> q.term] \in SnapshotReply BY <1>4 DEF SnapshotReply
  <2> QED BY <2>1, ReplyTyped DEF InstallSnapshot, Received
<1>6. IndexOK' /\ LogOK' /\ DiskOK'
  <2>1. CASE ~(q.lastIdx > log[p].snapIdx) BY <2>1, Unchanged DEF InstallSnapshot
  <2>2. CASE q.lastIdx > log[p].snapIdx
    <3>1. l \in Log(Cmd) BY <1>3, <1>4, ApplySnapshotType DEF LogOK
    <3>2. /\ machine' = [machine EXCEPT ![p] = q.data]
          /\ log' = [log EXCEPT ![p] = l]
          /\ applied' = [applied EXCEPT ![p] = q.lastIdx]
          /\ commit' = [commit EXCEPT ![p] = Larger(@, q.lastIdx)]
          /\ disk' = [disk EXCEPT ![p] = f]
      BY <2>2 DEF InstallSnapshot
    <3> HIDE DEF l
    <3>3. PersistentData(term'[p], vote'[p], l) \in Persistent
      BY <1>2, <1>3, <3>1, PersistentType DEF ServerOK
    <3>4. f \in Persistent BY <1>4, <3>3, SnapshotFileType DEF Option
    <3> HIDE DEF f
    <3>5. LogOK' /\ DiskOK' BY <3>1, <3>2, <3>4 DEF LogOK, DiskOK
    <3>6. IndexOK' BY <1>4, <3>2 DEF IndexOK, Larger
    <3> QED BY <3>5, <3>6
  <2> QED BY <2>1, <2>2
<1> QED BY <1>1, <1>2, <1>5, <1>6, TypePartsNext

LEMMA AnswerTyped ==
  ASSUME CallsOK, NEW m \in calls, Answer(m)
  PROVE  /\ CallsOK' /\ m.reply.term \in Term
         /\ m.req.kind = "append" => m.reply \in AppendReply
<1>1. CallsOK' BY DEF Answer, CallsOK
<1>2. m.reply \in IF m.req.kind = "append" THEN AppendReply ELSE SnapshotReply
  BY DEF Answer, CallsOK
<1> QED BY <1>1, <1>2 DEF AppendReply, SnapshotReply

LEMMA NewerTermAnswerTypes ==
  ASSUME NEW m \in calls, TypeOK, NewerTermAnswer(m)
  PROVE  TypeOK'
<1> USE TypeParts
<1>1. /\ LeaderOK' /\ IndexOK' /\ LogOK' /\ DiskOK' /\ LoopOK' /\ CampOK' /\ WaitOK'
      /\ PastOK'
  BY Unchanged DEF NewerTermAnswer, electionVars
<1>2. CallsOK' /\ m.reply.term \in Term BY AnswerTyped DEF NewerTermAnswer
<1>3. ServerOK'
  <2>1. m.from \in Node /\ Nil \in Option(Node) BY ReceivedTyped DEF Option
  <2> QED BY <1>2, <2>1, BecomeFollowerTypes DEF NewerTermAnswer
<1> QED BY <1>1, <1>2, <1>3, TypePartsNext

LEMMA MatchedTypes ==
  ASSUME LeaderOK, NEW n \in Node, NEW p \in Node, NEW i \in Nat, leaderState[n] # Nil,
         Matched(n, p, i)
  PROVE  LeaderOK'
<1>1. leaderState[n] \in LeaderState BY DEF LeaderOK, Option
<1>2. [leaderState[n].next EXCEPT ![p] = i + 1] \in [Node -> Nat \ {0}]
  BY <1>1 DEF LeaderState
<1>3. [leaderState[n].match EXCEPT ![p] = i] \in [Node -> Nat] BY <1>1 DEF LeaderState
<1> QED BY <1>2, <1>3 DEF Matched, LeaderOK, LeaderState, Option

LEMMA AppendAnswerTypes ==
  ASSUME NEW m \in calls, TypeOK, AppendAnswer(m)
  PROVE  TypeOK'
<1> USE TypeParts
<1> DEFINE n == m.from
           p == m.to
<1>1. /\ ServerOK' /\ IndexOK' /\ LogOK' /\ DiskOK' /\ LoopOK' /\ CampOK' /\ WaitOK'
      /\ PastOK'
  BY Unchanged DEF AppendAnswer, electionVars
<1>2. CallsOK' /\ m.reply \in AppendReply BY AnswerTyped DEF AppendAnswer
<1>3. n \in Node /\ p \in Node /\ m.reply.match \in Nat
  BY <1>2, ReceivedTyped DEF AppendReply
<1>4. LeaderOK'
  <2>1. CASE leaderState[n] = Nil BY <2>1, Unchanged DEF AppendAnswer
  <2>2. CASE leaderState[n] # Nil /\ m.reply.success
    BY <1>3, <2>2, MatchedTypes DEF AppendAnswer
  <2>3. CASE leaderState[n] # Nil /\ ~m.reply.success
    <3> DEFINE s == leaderState[n]
               back == IF s.next[p] > 1 THEN s.next[p] - 1 ELSE s.next[p]
    <3>1. s \in LeaderState BY <1>3, <2>3 DEF LeaderOK, Option
    <3>2. back \in Nat \ {0} BY <1>3, <3>1 DEF LeaderState
    <3>3. leaderState' = [leaderState EXCEPT ![n].next[p] = back]
      BY <2>3 DEF AppendAnswer
    <3> HIDE DEF back
    <3>4. [s EXCEPT !.next[p] = back] \in LeaderState BY <1>3, <3>1, <3>2 DEF LeaderState
    <3> QED BY <1>3, <3>3, <3>4 DEF LeaderOK, Option
  <2> QED BY <2>1, <2>2, <2>3
<1> QED BY <1>1, <1>2, <1>4, TypePartsNext

LEMMA SnapshotAnswerTypes ==
  ASSUME NEW m \in calls, TypeOK, SnapshotAnswer(m)
  PROVE  TypeOK'
<1> USE TypeParts
<1>1. /\ ServerOK' /\ IndexOK' /\ LogOK' /\ DiskOK' /\ LoopOK' /\ CampOK' /\ WaitOK'
      /\ PastOK'
  BY Unchanged DEF SnapshotAnswer, electionVars
<1>2. CallsOK' BY AnswerTyped DEF SnapshotAnswer
<1>3. m.from \in Node /\ m.to \in Node /\ m.req.lastIdx \in Nat
  BY ReceivedTyped DEF SnapshotAnswer, SnapshotReq
<1>4. LeaderOK'
  <2>1. CASE leaderState[m.from] = Nil BY <2>1, Unchanged DEF SnapshotAnswer
  <2>2. CASE leaderState[m.from] # Nil BY <1>3, <2>2, MatchedTypes DEF SnapshotAnswer
  <2> QED BY <2>1, <2>2
<1> QED BY <1>1, <1>2, <1>4, TypePartsNext

LEMMA CallFailsTypes ==
  ASSUME NEW m \in calls, TypeOK, CallFails(m)
  PROVE  TypeOK'
<1> USE TypeParts
<1>1. /\ ServerOK' /\ LeaderOK' /\ IndexOK' /\ LogOK' /\ DiskOK' /\ LoopOK' /\ CampOK'
  BY Unchanged DEF CallFails, campaignVars
<1>2. CallsOK' BY DEF CallFails, CallsOK
<1>3. PastOK' BY SpendTypes DEF CallFails, campaignVars
<1>4. WaitOK'
  <2> DEFINE x == IF frozen[m.to] = <<m.from, m.slot>> THEN Nil ELSE frozen[m.to]
  <2>1. m.to \in Node /\ x \in Option(Node \X Waiter)
    BY ReceivedTyped DEF WaitOK, Option
  <2>2. frozen' = [frozen EXCEPT ![m.to] = x] BY DEF CallFails
  <2> HIDE DEF x
  <2> QED BY <2>1, <2>2, FreezeTypes DEF CallFails, campaignVars
<1> QED BY <1>1, <1>2, <1>3, <1>4, TypePartsNext

LEMMA LoopTypes ==
  ASSUME NEW n \in Node, TypeOK, LoopStep(n)
  PROVE  TypeOK'
BY IdlePassTypes, BeginHeartbeatTypes, ReadSnapshotTypes, SendToPeerTypes, SkipPeerTypes,
   EndHeartbeatTypes, ReadMatchTypes, TallyTypes, AdvanceCommitTypes, ReadCommitTypes,
   ApplyEntriesTypes, SetAppliedTypes, CheckSnapshotTypes, TakeSnapshotTypes,
   CopyStoreTypes, CompactTypes, CopySnapshotTypes, SaveSnapshotTypes
   DEF LoopStep

LEMMA HandledTypes ==
  ASSUME NEW m \in calls, TypeOK, Handled(m)
  PROVE  TypeOK'
BY WedgeTypes, RejectStaleAppendTypes, MismatchAppendTypes, AcceptAppendTypes,
   RejectStaleSnapshotTypes, InstallSnapshotTypes, NewerTermAnswerTypes, AppendAnswerTypes,
   SnapshotAnswerTypes
   DEF Handled

LEMMA LoopLeavesElections ==
  ASSUME NEW n \in Node, LoopStep(n)
  PROVE  UNCHANGED <<stateVars, electionVars>>
BY DEF LoopStep, IdlePass, BeginHeartbeat, ReadSnapshot, SendToPeer, SkipPeer,
   EndHeartbeat, ReadMatch, Tally, AdvanceCommit, ReadCommit, ApplyEntries, SetApplied,
   CheckSnapshot, TakeSnapshot, CopyStore, Compact, CopySnapshot, SaveSnapshot

\* The steps of Next that are not of elections.
WriteStep ==
  \/ \E n \in Node, v \in Cmd : Put(n, v) \/ PutBreaks(n, v)
  \/ \E n \in Node : PutHangs(n)

ReplicationStep ==
  \/ \E n \in Node : LoopStep(n)
  \/ WriteStep
  \/ \E m \in calls : Handled(m) \/ CallFails(m)

LEMMA NextParts == Next <=> (\E n \in Node : ElectionStep(n)) \/ ReplicationStep
BY DEF Next, ReplicationStep, WriteStep

\* Replication neither votes nor campaigns nor transfers.
LEMMA ReplicationLeavesElections ==
  ASSUME ReplicationStep
  PROVE  UNCHANGED campaignVars
<1>1. CASE \E n \in Node : LoopStep(n)
  BY <1>1, LoopLeavesElections DEF electionVars, campaignVars
<1>2. CASE WriteStep
  BY <1>2 DEF WriteStep, Put, PutHangs, PutBreaks, electionVars, campaignVars
<1>3. CASE \E m \in calls : Handled(m) \/ CallFails(m)
  BY <1>3 DEF Handled, Wedge, RejectStaleAppend, MismatchAppend, AcceptAppend,
     RejectStaleSnapshot, InstallSnapshot, NewerTermAnswer, AppendAnswer, SnapshotAnswer,
     CallFails, electionVars, campaignVars
<1> QED BY <1>1, <1>2, <1>3 DEF ReplicationStep

LEMMA ReplicationKeepsCallers ==
  ASSUME TransferWaits, ReplicationStep
  PROVE  TransferWaits'
BY ReplicationLeavesElections DEF campaignVars, TransferWaits, Running

LEMMA ReplicationTypes ==
  ASSUME TypeOK, ReplicationStep
  PROVE  TypeOK'
BY LoopTypes, PutTypes, PutHangsTypes, PutBreaksTypes, HandledTypes, CallFailsTypes
   DEF ReplicationStep, WriteStep

-----------------------------------------------------------------------------
TypeInv == TypeOK /\ TransferWaits

LEMMA InitTypes == Init => TypeInv
<1> SUFFICES ASSUME Init PROVE TypeInv OBVIOUS
<1>1. EmptyLog \in Log(Cmd) BY EmptySeq DEF EmptyLog, Log
<1>2. PersistentData(0, Nil, EmptyLog) \in Persistent
  BY <1>1, TermNat, PersistentType DEF Option
<1>3. ServerOK /\ LeaderOK /\ LoopOK /\ CampOK /\ WaitOK /\ CallsOK /\ PastOK
  BY TermNat DEF Init, ServerOK, LeaderOK, LoopOK, CampOK, WaitOK, CallsOK, PastOK, Role,
     Option, LoopState, Marker, Running
<1>4. IndexOK BY EmptySeq DEF Init, IndexOK
<1>5. LogOK /\ DiskOK BY <1>1, <1>2 DEF Init, LogOK, DiskOK
<1>6. TransferWaits BY DEF Init, TransferWaits, Running, Task
<1> QED BY <1>3, <1>4, <1>5, <1>6, TypeParts DEF TypeInv

LEMMA NextTypes == TypeInv /\ [Next]_vars => TypeInv'
<1> SUFFICES ASSUME TypeInv, [Next]_vars PROVE TypeInv' OBVIOUS
<1> USE DEF TypeInv
<1>1. ASSUME NEW n \in Node, ElectionStep(n) PROVE TypeInv'
  BY <1>1, ElectionTypes, ElectionKeepsCallers
<1>2. CASE ReplicationStep BY <1>2, ReplicationTypes, ReplicationKeepsCallers
<1>3. CASE UNCHANGED vars
  <2>1. TypeOK' BY <1>3, TypeParts, TypePartsNext, Unchanged DEF vars, stateVars, indexVars
  <2>2. TransferWaits' BY <1>3 DEF vars, TransferWaits, Running
  <2> QED BY <2>1, <2>2
<1> QED BY <1>1, <1>2, <1>3, NextParts

\* Types and the calls handlers answer, together: the inductive invariant.
THEOREM RaftTypeInvariant == Spec => []TypeInv
BY InitTypes, NextTypes, PTL DEF Spec

\* Type correctness of the cluster, for any number of nodes, peers' order, commands,
\* batch size, snapshot threshold and bounds.
THEOREM RaftTypesHold == Spec => []TypeOK
<1>1. TypeInv => TypeOK BY DEF TypeInv
<1> QED BY <1>1, RaftTypeInvariant, PTL

\* A handle_timeout_now campaign always has one transfer_leader call to answer
\* (election.rs transfer_leader, rpc.rs timeout_now), in any interleaving.
THEOREM RaftTransferWaits == Spec => []TransferWaits
<1>1. TypeInv => TransferWaits BY DEF TypeInv
<1> QED BY <1>1, RaftTypeInvariant, PTL
=============================================================================
