-------------------------------- MODULE Raft --------------------------------
(***************************************************************************)
(* A running cluster: the election and the replication of every node       *)
(* (the tasks main.rs starts), interleaved.  Nodes do not stop here; see   *)
(* RaftCrash for restarts.                                                 *)
(***************************************************************************)
EXTENDS Election, Replication

Init ==
  /\ role = [n \in Node |-> "Follower"]
  /\ term = [n \in Node |-> 0]
  /\ vote = [n \in Node |-> Nil]
  /\ leaderId = [n \in Node |-> Nil]
  /\ leaderState = [n \in Node |-> Nil]
  /\ commit = [n \in Node |-> 0]
  /\ applied = [n \in Node |-> 0]
  /\ machine = [n \in Node |-> <<>>]
  /\ log = [n \in Node |-> EmptyLog]
  /\ disk = [n \in Node |-> PersistentData(0, Nil, EmptyLog)]
  /\ loop = [n \in Node |-> [pc |-> "idle"]]
  /\ camp = [n \in Node |-> [t \in Task |-> Nil]]
  /\ xfer = [n \in Node |-> Nil]
  /\ frozen = [n \in Node |-> Nil]
  /\ calls = {}
  /\ ballots = {}
  /\ wins = {}
  /\ used = [b \in DOMAIN Limit |-> 0]

Next ==
  \/ \E n \in Node : ElectionStep(n) \/ LoopStep(n)
  \/ \E n \in Node, v \in Cmd : Put(n, v) \/ PutBreaks(n, v)
  \/ \E n \in Node : PutHangs(n)
  \/ \E m \in calls : Handled(m) \/ CallFails(m)

Spec == Init /\ [][Next]_vars

-----------------------------------------------------------------------------
(* Fairness.  A runnable task of a node runs, a request that has been sent is
   handled and answered, an election timer that is not reset expires.  A heartbeat
   timer that has expired stays so until the loop sees it: the loop cannot pass by for
   ever.  Nothing is asked of clients, of failing calls and of transfer requests. *)

LoopRuns(n) ==
  \/ PreVote(n) \/ PreVoteLost(n) \/ StartRealElection(n) \/ CampaignStep(n, Loop)
  \/ LoopStep(n)

HandlesCall(n, p, s) ==
  \E m \in calls : m.from = n /\ m.to = p /\ m.slot = s /\ Handled(m)

Fairness ==
  /\ \A n \in Node : /\ WF_vars(StartElection(n)) /\ WF_vars(LoopRuns(n))
                     /\ SF_vars(BeginHeartbeat(n))
  /\ \A n, p \in Node, s \in Sender : WF_vars(HandlesCall(n, p, s))

FairSpec == Spec /\ Fairness

-----------------------------------------------------------------------------
(* Types. *)

Option(S)  == S \cup {Nil}
Persistent == [term : Term, vote : Option(Node), log : Log(Cmd), snap : Option(Seq(Cmd))]

LeaderState == [next : [Node -> Nat \ {0}], match : [Node -> Nat]]

VoteReply == [term : Term, granted : BOOLEAN]

CampaignStage == {"pre", "begin", "save", "ask", "saving", "saved", "wait", "got"}

CampaignRecord ==
  [st : CampaignStage, term : Term, lastTerm : Nat, lastIdx : Nat, i : Nat \ {0},
   yes : SUBSET Node, data : Option(Persistent), reply : Option(VoteReply),
   caller : Option(Node)]

Transfer == [st : {"checked", "sent", "wait", "got", "down"}, target : Node,
             term : Term, reply : Term]

ASSUME NoRecordIsNil ==
  Nil \notin Transfer /\ Nil \notin CampaignRecord /\ Nil \notin LeaderState

Marker   == [pc : {"idle", "elect", "commit", "apply", "check"}]
Beating  == [pc : {"beat"}, term : Term, commit : Nat, next : [Node -> Nat \ {0}]]
Sending  == [pc : {"send"}, term : Term, commit : Nat, next : [Node -> Nat \ {0}],
             i : Nat \ {0}, snapIdx : Nat, snapTerm : Nat, snap : Option(Seq(Cmd))]
Tallying == [pc : {"tally"}, term : Term, match : [Node -> Nat], commit : Nat]
Raising  == [pc : {"advance", "applied", "snapshot"}, upTo : Nat]
Applying == [pc : {"applying"}, from : Nat, upTo : Nat]
Copying  == [pc : {"copy"}, upTo : Nat, term : Nat]
Cutting  == [pc : {"compact"}, upTo : Nat, term : Nat, data : Seq(Cmd)]
Storing  == [pc : {"store"}, data : Seq(Cmd)]
Saving   == [pc : {"save"}, data : Persistent]

LoopState == Marker \cup Beating \cup Sending \cup Tallying \cup Raising \cup Applying
             \cup Copying \cup Cutting \cup Storing \cup Saving

AppendReq   == [kind : {"append"}, term : Term, prevIdx : Nat, prevTerm : Nat,
                entries : Seq(Entry(Cmd)), commit : Nat]
SnapshotReq == [kind : {"snapshot"}, term : Term, lastIdx : Nat, lastTerm : Nat,
                data : Seq(Cmd)]
Request     == AppendReq \cup SnapshotReq

AppendReply == [term : Term, success : BOOLEAN, match : Nat]
SnapshotReply == [term : Term]
Response == AppendReply \cup SnapshotReply

Call == [from : Node, to : Node, slot : Sender, req : Request, reply : Option(Response)]

Win == [node : Node, task : Task, term : Term, at : Term]

\* What campaign c of <<n, t>> has at hand at its stage.
CampaignShape(n, t, c) ==
  /\ c.st \in {"save", "saving"} => c.data \in Persistent
  /\ c.st \in {"saving", "saved", "wait", "got"} => PeersLeft(n, c)
  /\ c.st = "got" => c.reply \in VoteReply
  /\ IF t = Loop THEN c.st # "begin" ELSE c.caller \in Node /\ c.st # "pre"

\* The type invariant: the stage of a campaign says which of its fields are there,
\* the kind of a call which answer it can have.
TypeOK ==
  /\ role \in [Node -> Role] /\ term \in [Node -> Term]
  /\ vote \in [Node -> Option(Node)] /\ leaderId \in [Node -> Option(Node)]
  /\ leaderState \in [Node -> Option(LeaderState)]
  /\ commit \in [Node -> Nat] /\ applied \in [Node -> Nat]
  /\ log \in [Node -> Log(Cmd)] /\ disk \in [Node -> Persistent]
  /\ machine \in [Node -> Seq(Cmd)]
  /\ loop \in [Node -> LoopState]
  /\ camp \in [Node -> [Task -> Option(CampaignRecord)]]
  /\ xfer \in [Node -> Option(Transfer)]
  /\ frozen \in [Node -> Option(Node \X Waiter)]
  /\ calls \subseteq Call
  /\ ballots \subseteq Node \X Term \X Node
  /\ wins \subseteq Win
  /\ used \in [DOMAIN Limit -> Nat]
  /\ \A n \in Node, t \in Task : Running(n, t) => CampaignShape(n, t, camp[n][t])
  /\ \A m \in calls : m.reply # Nil =>
       m.reply \in IF m.req.kind = "append" THEN AppendReply ELSE SnapshotReply

-----------------------------------------------------------------------------
(* Elections. *)

\* A node votes for one candidate only in a term, its own candidacies included,
\* whatever requests, heartbeats, time-outs and transfers it handles in between
\* (handle_request_vote, become_candidate, become_follower).
OneVotePerTerm ==
  \A a, b \in ballots : a[1] = b[1] /\ a[2] = b[2] => a[3] = b[3]

\* The main loops of two nodes never both count a majority for the same term
\* (start_real_election), however many failures and transfers there are.
ElectedOnce ==
  \A v, w \in wins : v.task = Loop /\ w.task = Loop /\ v.term = w.term => v.node = w.node

\* Two leaders share a term only through become_leader run in a term other than the
\* one the votes were counted for, or through a TimeoutNow campaign.
SharedTermIsStale ==
  \A p, q \in Node : p # q /\ role[p] = "Leader" /\ role[q] = "Leader" /\ term[p] = term[q]
    => \E w \in wins : /\ w.node \in {p, q} /\ w.at = term[p]
                       /\ (w.term < w.at \/ w.task \in Handler)

\* A vote, once cast, stands until the term changes (become_follower and
\* handle_request_vote clear it only together with a newer term).
KeepsVote(n) ==
  /\ term'[n] >= term[n]
  /\ term'[n] = term[n] /\ vote[n] # Nil => vote'[n] = vote[n]

VoteStands == [][\A n \in Node : KeepsVote(n)]_vars

\* The file of a node never shows a term the node has not reached, nor a vote it has
\* not cast in the term both agree on, although votes are saved after the lock is
\* released, by several tasks in any order.
DiskNotAhead ==
  \A n \in Node : /\ disk[n].term <= term[n]
                  /\ (disk[n].term = term[n] => disk[n].vote \in {Nil, vote[n]})

\* A node is frozen for somebody who still waits: a candidate whose vote it has denied,
\* a leader whose entries cannot get past apply, or a client.  When that call breaks the
\* node goes on.
FrozenMeansWaiting ==
  \A v \in Node : frozen[v] # Nil =>
    \/ \E n \in Node, t \in Task : /\ frozen[v] = <<n, t>> /\ Running(n, t)
                                   /\ camp[n][t].st = "wait" /\ Peer(n, camp[n][t]) = v
    \/ \E m \in calls : /\ frozen[v] = <<m.from, m.slot>> /\ m.to = v
                        /\ m.reply = Nil /\ LogHeld(v)
    \/ frozen[v] = <<v, Client>>

\* The elections of the main loops implement Ballot: every step of the cluster
\* moves a voter to a later term, casts one lawful ballot, declares a winner, or
\* leaves all three alone.
ElectionQuorums == {Q \in SUBSET Node : 2 * Cardinality(Q) > Cardinality(Node)}

Ballots == INSTANCE Ballot WITH
  Voter <- Node, Quorums <- ElectionQuorums, epoch <- term,
  winners <- {<<w.node, w.term>> : w \in {x \in wins : x.task = Loop}}

RefinesBallot == Ballots!Spec

\* A handle_timeout_now campaign works for one transfer_leader call that still waits
\* for its answer, and no two work for the same.
TransferWaits ==
  \A p, q \in Node, t, u \in Handler :
    /\ Running(p, t) => xfer[camp[p][t].caller] \in {x \in Transfer : x.st = "wait"}
    /\ Running(p, t) /\ Running(q, u) /\ camp[p][t].caller = camp[q][u].caller
         => p = q /\ t = u

-----------------------------------------------------------------------------
(* Replication. *)

\* The entries of p and n at i do not differ, as far as they have not been compacted.
SameEntry(p, n, i) ==
  Holds(log[p], i) /\ Holds(log[n], i) => EntryAt(log[p], i) = EntryAt(log[n], i)

\* Entries sit where their index says, in every log, although logs are cut, extended
\* and sent by tasks that captured next_index earlier.
LogContiguous == \A n \in Node : Contiguous(log[n])

\* Log matching: where two logs have an entry of the same term, nothing before it
\* differs, although a request that comes late cuts a log and files its entries again.
LogMatching ==
  \A p, q \in Node : \A i \in 1..LastIndex(log[p]) :
    Holds(log[p], i) /\ Holds(log[q], i) /\ EntryAt(log[p], i).term = EntryAt(log[q], i).term
      => \A j \in 1..i : SameEntry(p, q, j)

IsPrefixOf(s, t) == Len(s) <= Len(t) /\ SubSeq(t, 1, Len(s)) = s

\* State machine safety: of two nodes one has applied what the other has, and maybe more.
MachinesAgree == \A p, q \in Node : IsPrefixOf(machine[p], machine[q])
                                   \/ IsPrefixOf(machine[q], machine[p])

\* What a leader counts as replicated on a peer is in the peer's log, the same entry.
MatchIsReplicated ==
  \A n, p \in Node : role[n] = "Leader" /\ p # n => 
    \A i \in 1..leaderState[n].match[p] :
      Holds(log[p], i) /\ Holds(log[n], i) /\ EntryAt(log[p], i) = EntryAt(log[n], i)

Has(p, i) == i <= log[p].snapIdx \/ Holds(log[p], i)

\* Every committed entry is in the logs or snapshots of a majority, the committer's
\* included, while nodes restart from their files.
CommittedOnMajority ==
  \A n \in Node : \A i \in 1..commit[n] :
    /\ Has(n, i)
    /\ Cardinality({p \in Node : Has(p, i) /\ SameEntry(p, n, i)}) >= Majority(n)

\* last_applied never goes back while its node runs, so no entry is applied twice, even
\* where commit_index falls between its capture and the end of apply_committed_entries.
AppliedAdvances == [][\A n \in Node : applied'[n] >= applied[n]]_vars

\* A snapshot on its way to a follower holds the commands up to its index, although the
\* index, the log and the file it is put together from are read one after the other.
SnapshotSentIsComplete ==
  \A m \in calls : m.req.kind = "snapshot" =>
    /\ Len(m.req.data) = m.req.lastIdx
    /\ IsPrefixOf(m.req.data, machine[m.from])

-----------------------------------------------------------------------------
(* Liveness, under FairSpec. *)

\* The node whose timer expires comes to lead (start_election to become_leader).
CampaignerLeads == \A n \in Campaigner : <>[](role[n] = "Leader")

\* A write in the leader's log is applied in the end (send_heartbeat, update_commit_index
\* and apply_committed_entries, round after round) by every node none of whose handlers
\* hangs.
WritesAreApplied ==
  \A n \in Node, i \in 1..Limit["put"] :
    role[n] = "Leader" /\ Holds(log[n], i)
      ~> \A p \in Node : applied[p] >= i \/ ~Unlocked(p)
=============================================================================
