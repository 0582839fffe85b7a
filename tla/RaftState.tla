----------------------------- MODULE RaftState ------------------------------
(***************************************************************************)
(* The state of a cluster of nodes: for each node the locked RaftState     *)
(* (raft/state.rs), its log and its file on disk (raft/storage.rs), the    *)
(* KV machine, the tasks running in it, and the AppendEntries and          *)
(* InstallSnapshot calls in flight.                                        *)
(*                                                                         *)
(* Granularity.  A step is one critical section of the node's RaftState    *)
(* lock, or one piece of work done between two of them (a save, a look at  *)
(* the log).  What a task read in an earlier section it keeps, as the code *)
(* keeps it in a local variable, and may be stale when it is used.         *)
(***************************************************************************)
EXTENDS LogStore

CONSTANTS
  Node,          \* the members of the cluster
  PeerSeq,       \* PeerSeq[n]: the other members, in the order of n's configuration
  Cmd,           \* the commands clients write (KVCommand put and delete)
  Handler,       \* the handle_timeout_now tasks a node can run at the same time
  Sender,        \* the AppendEntries/InstallSnapshot tasks per peer that can be open
  MaxEntries,    \* max_entries_per_append
  Threshold,     \* snapshot_threshold
  Campaigner,    \* the nodes whose election timer is let expire
  MaxTerm,       \* bound: no campaign starts from this term
  Limit,         \* bounds: [fail, transfer, put, crash |-> how often each may happen]
  Nil            \* None

Loop == "loop"                    \* the task of main.rs that elects, beats and applies
Task == {Loop} \cup Handler       \* the tasks of a node that can run a campaign
Client == "client"                \* the task of a put or delete
Waiter == Task \cup Sender \cup {Client}      \* whose handlers can hang

ASSUME NodeAssumption  == IsFiniteSet(Node) /\ Nil \notin Node
ASSUME PeersAssumption ==
  /\ PeerSeq \in [Node -> Seq(Node)]
  /\ \A n \in Node :
       /\ {PeerSeq[n][i] : i \in 1..Len(PeerSeq[n])} = Node \ {n}
       /\ Len(PeerSeq[n]) + 1 = Cardinality(Node)      \* nobody twice
ASSUME TaskAssumption  == Loop \notin Handler /\ Campaigner \subseteq Node
ASSUME BoundAssumption ==
  /\ MaxEntries \in Nat /\ Threshold \in Nat /\ MaxTerm \in Nat
  /\ Limit \in [{"fail", "transfer", "put", "crash"} -> Nat]
ASSUME WaiterAssumption ==
  /\ Sender \cap Task = {}
  /\ Client \notin Task \cup Sender
ASSUME NilAssumption ==
  /\ Nil \notin Node \X Waiter
  /\ Nil \notin Seq(Cmd)

VARIABLES
  role, term, vote, leaderId, leaderState, commit, applied,   \* RaftState
  log,           \* LogStore
  disk,          \* raft_state.json, what a restart loads
  machine,       \* the commands applied to the KV store, in order
  loop,          \* what the main loop is doing, with what it has read so far
  camp,          \* camp[n][t]: the campaign task t of node n is running, or Nil
  xfer,          \* the transfer_leader call n is running, or Nil
  frozen,        \* <<c, t>> when a handler of n that answers c's t holds n's lock and hangs
  calls,         \* open AppendEntries and InstallSnapshot calls
  ballots,       \* history: <<voter, term, candidate>> of every vote recorded
  wins,          \* history: every passage through become_leader after a count
  used           \* how much of Limit is spent

stateVars == <<role, term, vote, leaderId>>
indexVars == <<commit, applied, machine>>
taskVars  == <<loop, camp, xfer, frozen>>
vars == <<role, term, vote, leaderId, leaderState, commit, applied, log, disk,
          machine, loop, camp, xfer, frozen, calls, ballots, wins, used>>

Term == 0..MaxTerm
Role == {"Follower", "Candidate", "Leader"}

-----------------------------------------------------------------------------
(* Helpers of the two structures. *)

\* Election and Replication compute it from the configured peers, RaftState from
\* its own list; both are (peers + 1) / 2 + 1 with integer division.
Majority(n) == (Len(PeerSeq[n]) + 1) \div 2 + 1

\* from_state_and_log: what is saved carries no snapshot data.
PersistentData(t, v, l) == [term |-> t, vote |-> v, log |-> l, snap |-> Nil]

\* The state lock of n can be taken: no handler of n hangs with it.
Unlocked(n) == frozen[n] = Nil

\* The log lock of n can be taken without the state lock.  A vote handler that hangs has
\* given it back; a handler of appends or writes that hangs has it, or is queued for it
\* in front of everybody else.
LogFree(n) == frozen[n] # Nil => frozen[n][2] \in Task

Spend(b) == used[b] < Limit[b] /\ used' = [used EXCEPT ![b] = @ + 1]

-----------------------------------------------------------------------------
(* The transitions of state.rs, on role, term, vote, leaderId (and leaderState). *)

BecomeFollower(n, t, leader) ==
  /\ term' = [term EXCEPT ![n] = Larger(@, t)]
  /\ vote' = [vote EXCEPT ![n] = IF t > term[n] THEN Nil ELSE @]
  /\ role' = [role EXCEPT ![n] = "Follower"]
  /\ leaderId' = [leaderId EXCEPT ![n] = leader]

BecomeCandidate(n) ==
  /\ term' = [term EXCEPT ![n] = @ + 1]
  /\ vote' = [vote EXCEPT ![n] = n]
  /\ role' = [role EXCEPT ![n] = "Candidate"]
  /\ leaderId' = [leaderId EXCEPT ![n] = Nil]
  /\ ballots' = ballots \cup {<<n, term[n] + 1, n>>}

\* Neither the role nor the term is looked at again.
BecomeLeader(n) ==
  /\ role' = [role EXCEPT ![n] = "Leader"]
  /\ leaderId' = [leaderId EXCEPT ![n] = n]
  /\ leaderState' = [leaderState EXCEPT ![n] =
       [next |-> [p \in Node |-> 1], match |-> [p \in Node |-> 0]]]
  /\ UNCHANGED <<term, vote>>
=============================================================================
