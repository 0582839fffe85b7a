# A TLA+ model of MacroService's Raft KV store

MacroService (`src/server-rust`) is a key-value store replicated with Raft: a
tokio process per node, gRPC between the nodes, one JSON file per node. This
directory holds a model of its consensus core as it is written, the TLC runs that
check it on small clusters, and proofs that hold for clusters of any size.

The model follows the code, not the Raft paper. Where the two differ the code
wins, and a property of Raft that the code does not keep is stated and refuted
(see *What the code does not keep*).

    tlc -workers 2 -config writes.cfg MCRaft     # any run of the table below
    tlapm ElectionProofs.tla                     # any module with theorems

## 1. The system

| Component | State | Operations | What makes it correct |
|---|---|---|---|
| Log, `raft/log.rs` | entries after a snapshot boundary; the boundary's index and term | append, truncate, get, entries_from, match_entry, apply_snapshot | an entry sits where its index says |
| Node state, `raft/state.rs` | term, vote (saved); commit_index, last_applied; role; leader_id; next_index and match_index of a leader; the lease | become_follower, become_candidate, become_leader | a vote stands for its term |
| Election, `raft/election.rs` | none of its own; its locals live across awaits | start_election (PreVote, then RequestVote, peer after peer), handle_request_vote, handle_pre_vote, transfer_leader, handle_timeout_now | one vote per term, one leader per term |
| Replication, `raft/replication.rs` | one task per outstanding call; locals of a round | send_heartbeat, update_commit_index, apply_committed_entries, create_snapshot | acknowledged entries stay; nodes apply the same commands; a snapshot is complete |
| RPC handlers, `raft/rpc.rs` | none | append_entries, install_snapshot, and the entry points of elections and membership | a late or repeated request does no harm |
| Main loop, `main.rs` | what is loaded at a start | every 10 ms: election or heartbeat, commit, apply, snapshot | it never stands still |
| Persistence, `raft/storage.rs` | `raft_state.json`, rewritten by every save through one temporary file | save, load, to_raft_state, to_log_store | a restart goes back to a state the node was in |
| Locks of a node | `RwLock<RaftState>`, `RwLock<LogStore>` | taken in some order by every handler | nobody waits for ever |
| KV service, `kv/service.rs` | none | get (lease or ReadIndex), put, delete; waits for the commit with a time-out | a confirmed write is durable, a read is current |
| KV store, `kv/store.rs` | a map | apply, snapshot, restore | determined by the commands applied |
| Pending requests, `raft/pending.rs` | a waiter per log index | register, notify_committed | a waiter is told about its own entry |
| Membership, `raft/membership.rs` | peers, pending change | add_node, remove_node | one change at a time, vectors stay aligned |
| Node.js client, `client-node/raft-client.js` | a hint of the leader, three attempts | put, delete, get, redirect | following redirects writes nothing twice |
| Timers, configuration, metrics, `raft/timer.rs`, `config.rs`, `metrics.rs` | deadlines | reset, expiry, parsing, formatting | - |
| Tests, `tests`, `client-node/integration-test.js` | - | start, write, read back | - |

Interactions. Every component reaches the two locks of its node. The main loop of
a node *awaits* each PreVote and RequestVote call without a time-out, so the node
that answers can hold it up. send_heartbeat *spawns* its calls: their answers come
back to whatever state the node has by then, in any order. transfer_leader awaits a
TimeoutNow call, inside which the target runs a whole campaign, which asks the
first node for its vote. Every handler that changes something writes the same
file, at a time of its own.

What is hard: the interleaving of those tasks, state copied under a lock and used
after it, answers of earlier rounds and earlier terms, saves out of order, calls
that fail in the middle, restarts from a file that is behind or has lost its
snapshot, locks taken in two orders. `PROJECT.json` lists these hazards line by
line with the properties that watch them.

## 2. The modules

| Module | Models |
|---|---|
| `LogStore` | `log.rs`: a log as a record, each operation as an operator |
| `RaftState` | the variables of a cluster, the three transitions of `state.rs`, what a save writes |
| `Election` | `election.rs` and its entry points in `rpc.rs` |
| `Replication` | `replication.rs`, append_entries, install_snapshot, the append of put and delete |
| `Raft` | the composition (Init, Next, fairness), types and properties |
| `RaftCrash` | Raft with restarts from disk |
| `RaftClaims` | what comments and tests say and the code does not keep |
| `Ballot` | an election in the abstract; `Raft` implements it |
| `NodeLocks` | the order in which tasks take the two locks, on tokio's fair RwLock |
| `StateFile` | `storage.rs` on top of `NodeLocks`: create, write and rename of the one temporary file by tasks that overlap, a start at any moment |
| `Membership` | `membership.rs` next to the heartbeats, answers and lease of `replication.rs` |
| `KvService` | `service.rs`, `pending.rs`, apply_committed_entries and the calls of `raft-client.js`, on ideal consensus |
| `LogStoreProofs`, `RaftTypes`, `ElectionProofs`, `RaftProofs`, `BallotProofs`, `KvServiceProofs`, `StateFileProofs`, `MembershipProofs` | theorems |
| `MCRaft`, `MCNodeLocks`, `MCStateFile`, `MCMembership`, `MCKvService` | instances for TLC |

`Raft` composes `Election` and `Replication` over `RaftState` and `LogStore`;
`StateFile` composes the locks with the file. `Membership` and `KvService` stand
beside them: each takes one side of the system as it is and the other as it ought
to be, so that what goes wrong there is that side's own doing.

**State.** `role term vote leaderId leaderState commit applied` are the fields of
RaftState, `log` the LogStore, `disk` the file, `machine` the commands the KV store
has applied. `loop[n]` is the main loop's position with the locals it carries,
`camp[n][t]` a campaign (`t = Loop` for start_election, `t \in Handler` for
handle_timeout_now) with its locals and the handler it waits for, `xfer[n]` a
transfer_leader call, `calls` the spawned AppendEntries and InstallSnapshot
calls. `frozen[v]` names the caller of a handler at `v` that holds `v`'s state lock and
hangs: `<<n, t>>` for a denied vote of campaign `t` of `n`, `<<n, s>>` for a call from
sender task `s` of `n`, `<<v, Client>>` for a put.
`ballots` and `wins` are history variables: they record votes and passages
through become_leader, and no guard reads them. `used` counts against `Limit`.

**Steps.** A step is one section of the node's state lock, or what a task does
between two. Everything a section does is in it: append_entries, for instance,
yields to the sender, truncates, appends, moves commit_index and saves in
`AcceptAppend`. Where a second lock is taken and what holds it may wait for the first, the
section is split, and the wait is in the model: apply_committed_entries keeps the log from
`ApplyEntries` to `SetApplied`, and an append that comes in between hangs (`Wedge`), as
does a put; a put also hangs at its second read of the state (`PutHangs`, service.rs:203)
and leaves an entry that nobody has saved when its client gives up (`PutBreaks`). What
the code reads in one section and uses in a later one stays in `loop`, `camp`, `xfer` or
a call, and may be stale by then.

The places where the model joins what the code does separately:

- `StartElection` joins the main loop's look at the role with start_election's
  reads of term and log; `PreVote` joins the reads of handle_pre_vote and its
  answer. Both only produce the probe; the later `StartRealElection` looks at nothing.
- `SaveCandidate` joins the save with the look at the log for the requests.
- `Tally` takes the log's lock once where the scan takes it per index; `CheckSnapshot`
  and `TakeSnapshot` join neighbouring reads of the log. The log of a leader does
  not shrink between them, except by a new leader's append.
- A save is one step, and `Put` and append_entries include theirs: they hold the
  lock while they write. Saves outside the lock (`SaveCandidate`, `SaveVote`,
  `SaveSnapshot`) are steps of their own: what they write was copied earlier
  (`StartRealElection`, `CopyState`, `GrantVote`, `CopySnapshot`) and may come late,
  over newer saves.
- install_snapshot waits for a log that apply holds like append_entries; `Wedge` is both.
- `IdlePass`, the loop's pass without a timer, happens when commit_index and
  last_applied differ or there is something to compact; the other passes change nothing.

Time is left out. An election timer may expire whenever the loop looks, at the
nodes in `Campaigner`; a heartbeat is due whenever the loop looks. Commands are
opaque, so keys and values are not told apart. A call that breaks costs one unit
of `Limit["fail"]`: the caller goes on with an error and the handler is dropped
where it waits, its locks with it.

**Locks.** `NodeLocks` forgets data and keeps the takes and drops of each handler.
A request joins the end of the lock's queue; only its head is granted. `Mixes` says
which programs may meet. The vote handler that denies its vote waits for itself
(election.rs:302); that one is in `Election` as `DenyVote`, because its
consequences reach across the cluster. Handlers without a program: handle_pre_vote,
handle_timeout_now, add_node and remove_node, get and the metrics. The inner locks of
RaftState (persistent, volatile, leader_state, leader_id) are left out: they are taken
under the state lock. Two handlers keep leader_state while they take the log
(transfer_leader, election.rs:429-447, and add_node, membership.rs:78-81); nobody asks
for leader_state with the log in hand, so no cycle comes of it.

**The file.** `StateFile` gives a meaning to the steps of those programs that are
neither a take nor a drop: `Change` and `Copy` are the new version in memory and
`PersistentData::from_state_and_log`; `Open`, `Write` and `Rename` are
`fs::write` to json.tmp (create or empty, then write) and `fs::rename`. A version
stands for the whole state, a file is a sequence of pieces of versions, and a
task holds the *file* it has opened: after a rename by another task its write goes
into the published file. `overlap` and `late` record the two causes of harm. A
crash of the process can come at any state, and finds what the files hold then;
a power cut, which also loses what was not synced, is not modelled (the code does
not sync).

**Membership.** `peers`, `ls` (the two vectors) and `changing` are the node's;
`call[c]` is an add_node or remove_node between its sections: checked (the reads
of membership.rs:40-55 and the position), marked (flag set), applied. `SlotOf` is
what Replication does all the time: it uses slot i + 1 for the i-th peer of the
*configuration*. A panic ends a task: an answer task alone, or the main loop
(`loop.at = "dead"`). The other nodes are ideal: `holds[p]` grows, an append
arrives at most once. `Send` joins the sends of one heartbeat, whose vector was
copied in `BeginHeartbeat`. `GiveUp` is a handler dropped while it waits for the
state lock with the flag set; that it can also be dropped at an inner lock or the log
(membership.rs:78, 81, 162), between the peers and the vectors, is not modelled. `counted`, `lease`, `asked`, `crowded`, `broken`,
`short` and `shifted` are history.

**Service.** In `KvService` one leader is elected per term and holds all that was
chosen; an old leader is not told and goes on as one. `AppendPut` and `Register`
are the two halves of a put (the entry under the locks, the waiter after them);
`ReadCommit`, `ApplyOne`, `SetApplied` and `NotifyCommitted` are
apply_committed_entries. `Redirect` is the client's loop with its hint. A get is
`LeaseRead` or `ReadIndex`, then `WaitForApply`, then `Read`, with no lock of the
node between them. Time decides which leases are valid; here any may be.
`outBy` and `late` in a waiting call, `notified` and `acknowledged` are history.

## 3. The runs

Bounds of `Raft`: `MaxTerm` (no campaign starts from it), `Campaigner` (whose timer
expires), `Handler` (handle_timeout_now tasks per node), `Sender` (open calls per
peer), `MaxEntries` (max_entries_per_append), `Threshold` (snapshot_threshold;
9 is "never" here), `Limit` (failed calls, transfers, puts, crashes). Bounds of
the others: terms, entries, heartbeat rounds and membership calls (`Membership`);
terms, attempts and calls (`KvService`); the tasks that meet (`Serving`) and the
versions that take two pieces (`Grown`) for `StateFile`.

Runs that pass:

| Run | Instance and bounds | Shows |
|---|---|---|
| `elections` | 3 nodes, 2 campaigners, 2 terms, 1 transfer, 1 broken call | `OneVotePerTerm`, `VoteStands`, `ElectedOnce`: the main loops elect at most one node per term; `RefinesBallot`; `SharedTermIsStale`: where two leaders share a term all the same, one came from a stale win or a TimeoutNow campaign; `DiskNotAhead`; `FrozenMeansWaiting`; `TransferWaits` |
| `writes` | 3 nodes, 1 campaigner, 1 term, 2 different writes, 1 entry per call, 1 call per peer | types; `MachinesAgree`, `MatchIsReplicated`, `CommittedOnMajority` when calls stay in order |
| `reordered` | 2 nodes, 1 campaigner, 1 term, 2 writes, 2 calls per peer, 1 broken call, no snapshots | `LogContiguous` and `AppliedAdvances` survive requests and answers in any order; `FrozenMeansWaiting`: an append or put that hangs belongs to a call that is still open, and ends with it |
| `restarts` | 2 nodes, 1 campaigner, 3 terms, 2 different writes, snapshot after 1 entry, 2 restarts, 1 call per peer | `LogMatching`, `MachinesAgree`, `DiskNotAhead`, `SnapshotSentIsComplete` with restarts at any moment, also between a compaction and its save, and with a put before the late save |
| `eventually` | 3 nodes, 1 campaigner, 1 term, 1 write, fair | `CampaignerLeads`; `WritesAreApplied`: a write is applied by every node none of whose handlers hangs. They can hang here: `apply_deadlock` is the order of locks of this very setting |
| `locks` | 5 mixes of 4 tasks: passes of the main loop, append_entries, a granted vote, an answer, puts, transfer_leader; fair | types of locks and files; `EveryTaskEnds`: all tasks end or stand still in one of the two ways of `apply_deadlock` and `PutEnds`; `WholeUnlessOverlap` and `RestartFindsNewest`: what a start finds at any moment; `RenameFailsByOverlap` |
| `membership` | 3 peers, one of them removed and added, 2 calls, 3 terms, 2 heartbeats, 1 entry | types; `VectorsAligned`; `FlagIsTakenBack`; `PeersAsAsked`; `LoopSurvives`; `MatchBacked`; `CommitNeedsMajority`; `LeaseBacked` |
| `service` | 2 nodes, 2 clients, 3 calls in all, 2 attempts, 2 terms | types; `ConfirmedIsChosen`, `AppendedOnce`, `NoWaiterForgotten`, `StoresFollowChosen`, `CurrentReadIsFresh` |

Runs that end in a counterexample, one property each:

| Run | Refutes | Because |
|---|---|---|
| `two_leaders_diverge` | `MachinesAgree` | election.rs:216 counts votes of one term and leads in another; append_entries does not check who sent it |
| `no_leader` | `LeaderIsElected` | election.rs:302: whoever denies a vote waits for itself, and the candidate for it |
| `stuck_after_snapshot` | `PutSucceeds` | replication.rs:226 sends term 0 for the boundary entry, which followers reject |
| `apply_deadlock` | `ApplyEnds` | replication.rs:414: log then state, against state then log |

**Why the bounds are enough for what they show.** Three nodes are the smallest
cluster in which a majority is not everybody, and the size `run_cluster.sh` starts.
Two campaigners and two terms let terms overlap and a stale win happen. Two writes
with `Threshold` 1 take a log over its boundary and let a second entry come between the
compaction and the save of the first; three terms let the campaigner lead again after
each of two restarts. Two open calls are what reordering takes. Three peers are the fewest with which a lease
takes two answers, so that a late one can stand in for another; the peer taken
out is the last, whose second removal is beyond the end; three terms let a node
lead, lose its role and lead again with other peers. Two rounds give late answers.
Three calls of the service are a put that is acknowledged, a put that lets the next
leader commit in its term, and a get from it. With a third term, in which an old put
can displace the waiter of a newer one, TLC finishes `service` as well, in 2.9
million states, and with two removable nodes it finishes `membership`, in 3.4
million; the proofs of both modules cover all of that. The narrower runs are narrow for cost:
`elections` writes nothing, so logs are equal there and the up-to-date check
always says yes; that winners hold every committed entry is not claimed.

**What passes here and not elsewhere.** `MachinesAgree`, `MatchIsReplicated`,
`LogContiguous`, `CommittedOnMajority`, `AppliedAdvances` and `SnapshotSentIsComplete` hold
in the runs above and are *not* invariants of the code. Section 4 says under which wider
bounds each of them fails. A run is narrower than the words of its properties:

- `elections` writes nothing and `LogMatching` needs entries of several terms, which only
  `restarts` has, from one campaigner. Two campaigners that write, calls that come late
  and truncation are in the theorem `RaftLogMatching` (section 5).
- `writes` and `restarts` have one call per peer, so no request is handled after a later
  one: late answers and truncation are in `reordered`, and `MatchIsReplicated` fails there.
- `writes`, `reordered` and `eventually` have no snapshots, `elections`, `writes` and
  `reordered` no restarts.
- `DiskNotAhead` lets a file be behind its node. That an older copy is saved last is a
  claim of section 4 (`VoteSavedBeforeUse`, `SavesStand`, `LeaderFileCurrent`).
- `SnapshotSentIsComplete` holds after a re-election for a sad reason: the new
  candidate's save drops the snapshot data (storage.rs:55), so there is nothing left
  to send.
- The properties of `locks`, `membership` and `service` name what they excuse: two known
  deadlocks, saves that overlap or come late, changes that overlap or break off, vectors
  out of which a slot was taken, late answers, a waiter put out by a put of another term,
  an entry of another term, a leader that has not committed in its term. Each excuse has
  its refuted claim in section 4.

**Fairness.** `FairSpec` of Raft asks weak fairness of each node's main loop
(`LoopRuns`: tokio runs a task that can run), of an expiring timer
(`StartElection`: nothing resets it in `no_leader` or `eventually` before a leader
exists), and of the handling and the answering of each open call (`HandlesCall`:
a connection that does not break delivers), and strong fairness of
`BeginHeartbeat`: a heartbeat timer that has expired stays expired until the loop
looks, so passes without a beat cannot go on for ever. Nothing is asked of clients,
transfers, failures or restarts, so a handler that hangs may hang for ever. `NodeLocks` and `StateFile` ask weak fairness of
their next step: programs are finite, so everything happens that can. `Membership`
and `KvService` state safety only; what they would need for liveness is in `Raft`.

**Deadlock** checking is off in all runs: the cluster stops at its bounds, and
frozen nodes and deadlocked tasks are what the liveness properties are about.

## 4. What the code does not keep

Besides the four findings above, `RaftClaims` states claims whose counterexamples
TLC finds with the following changes to `reordered.cfg` or `elections.cfg`
(with `SPECIFICATION SpecCrash` where a restart is needed; what is not named is one
campaigner, MaxTerm 1, Threshold 9):

| Claim | Counterexample with |
|---|---|
| `VoteSavedBeforeUse`: a vote is on disk when it is answered. An older copy of the state, saved late by another task, overwrites it (election.rs:297) | 3 nodes, 2 campaigners, MaxTerm 2 |
| `LeaderHasMajority`: a leader has a majority's votes in its own term | the same |
| `VotesForItself`: handle_timeout_now's campaign starts from its own vote. It copies the state in a second section and may find another candidate's term there (election.rs:582) | campaigners n1 and n3, MaxTerm 3, one transfer |
| `MatchIsReplicated`: a late request truncates without a conflict and removes acknowledged entries (rpc.rs:144) | 2 nodes, `Sender = {s1, s2}`, `TwoPuts` |
| `CommitNeverFalls`: a late heartbeat sets commit_index back (rpc.rs:160) | 2 nodes, `Sender = {s1, s2}`, `TwoPuts` |
| `EveryCommittedIsApplied`: an index the log does not hold is passed over (replication.rs:399) | 2 nodes, `Sender = {s1, s2}`, `TwoPuts` |
| `SnapshotCoversItsIndex`: the point is the commit index, the data what has been applied (replication.rs:446) | 2 nodes, `Sender = {s1}`, `TwoPuts`, Threshold 2 |
| `CompactedIsInStore`: a restart loads the boundary but not the snapshot (main.rs:158) | 2 nodes, `Sender = {s1}`, `CrashAndPut`, Threshold 1, MaxTerm 2 |
| `LogContiguous`: entries from below the boundary empty the log and are filed above it (log.rs:115) | 2 nodes, `Sender = {s1, s2}`, `TwoPuts`, Threshold 1 |
| `AppliedAdvances`: install_snapshot takes last_applied back, and the KV store with it | 3 nodes, `TwoPuts`, Threshold 1 |
| `LeaderFileCurrent`: the leader's log is in its file (service.rs:201). create_snapshot saves its copy after the locks are released, over the file of a put that came in between (replication.rs:499) | 2 nodes, `Sender = {s1}`, `TwoPuts`, Threshold 1 |
| `CommittedOnMajority`: an older compaction takes the boundary of a follower back after install_snapshot has moved it (replication.rs:487) | the same |
| `SnapshotSentIsComplete`: one of two leaders of a term takes appends of the other, compacts to a commit_index it has not applied yet, and sends what it has (replication.rs:446) | the same, campaigners n1 and n2, MaxTerm 2 |
| `MachinesAgree`: a node restarts behind its boundary with an empty store and passes over what it has compacted (replication.rs:399, main.rs:158) | `restarts` with 3 puts and 1 restart |

The other modules end with claims of their own. Each has a counterexample under the
configuration of the passing run of its module, except where one is named:

| Claim | Module | Counterexample |
|---|---|---|
| `PutEnds`: put and delete end | `NodeLocks` | `apply_deadlock.cfg` with `Task <- Leading`, `Mixes <- LeadingMix`: the second read of state waits behind a writer that waits for the first (service.rs:203) |
| `FileIsWhole`: a start finds no file or a whole one | `StateFile` | a rename publishes json.tmp just after another task has emptied it (storage.rs:104) |
| `SavesStand`: what was saved with Ok is there after a restart | `StateFile` | the same; and an older copy saved late |
| `OneChangeAtATime`: one membership change at a time | `Membership` | the flag is looked at in one section and set in another (membership.rs:50) |
| `LoopLives`: the main loop of a leader goes on | `Membership` | after one removal the vectors have fewer slots than there are configured peers, and the next heartbeat indexes past them |
| `CommitIsReplicated`: commit_index rises to what a majority holds | `Membership` | `Asked = {2, 4}`: an answer lands in the slot of another peer after a removal and an addition |
| `LeaseByMajority`: a lease is renewed by a majority | `Membership` | a late answer of the first round and one of the second, both of one peer, are counted as two (replication.rs:282) |
| `OwnPutConfirmed`: a put that succeeds was chosen | `KvService` | its index was filled by another leader's entry (service.rs:224) |
| `EveryWaiterIsTold`: a waiter is told when its index is applied | `KvService` | it registers after the notification (pending.rs:22) and times out |
| `ReadIndexIsFresh`: a ReadIndex of the newest leader covers all that was acknowledged | `KvService` | the leader has not committed in its term yet (service.rs:141) |
| `FailedPutIsNotWritten`: a put that fails is not written | `KvService` | time-out, then commit (service.rs:230) |

`PutSucceeds` and `WritesAreApplied` excuse nodes that hang; that they hang is what
`ApplyEnds` and `PutEnds` say. `stuck_after_snapshot` refutes `PutSucceeds` without any
node that hangs.

Three more things the service does, seen while modelling it. A put of an old term that registers late
takes the place of the waiter of a newer put at that index (three terms), so the
newer one times out although it was chosen. A get whose handler answers with an error
is reported by the client as "not found". The client never repeats a put on a
time-out, which is why `AppendedOnce` holds; an application that does writes twice.

## 5. What is proved

Theorems hold for every value of the constants under the named assumptions of the
modules: nodes (clients) are finite in number, each configuration lists every
other node once, bounds are natural numbers, `Nil` is not a value of the sets it
completes; `Mixes` are mixes of the programs.

| Theorem | Says |
|---|---|
| `RaftTypesHold` | `TypeOK`, every task record, message and file included |
| `RaftTransferWaits` | `TransferWaits` |
| `RaftOneVotePerTerm` | `OneVotePerTerm` |
| `RaftVoteStands` | terms never fall, votes stand within a term |
| `RaftElectedOnce` | two main loops never count a majority for one term |
| `RaftRefinesBallot` | the cluster implements `Ballot` |
| `BallotUniqueWinner` | where quorums meet, `Ballot` has one winner per term |
| `CrashTypeInvariant` | types, for nodes that restart from their files |
| `CrashFrozenMeansWaiting`, `CrashDiskNotAhead` and the same with `Raft...` | `FrozenMeansWaiting`, `DiskNotAhead`, with and without restarts |
| `RaftSharedTermIsStale` | two leaders of a term: one counted for an earlier term or by handle_timeout_now |
| `CrashLogContiguous`, `RaftLogContiguous` | `LogContiguous`, unless a step `Misfiles` |
| `RaftAppliedAdvances` | `AppliedAdvances`, unless a step `InstallsUnasked` |
| `RaftLogMatching` | `LogMatching` where `HonestWins`, before the first snapshot, for any number of campaigners, terms, failures and late requests |
| `LocksExclude` | a writer holds its lock alone, whatever tasks meet |
| `FilesTyped`, `FileWholeUnlessOverlap`, `FileRestartFindsNewest`, `FileRenameFailsByOverlap` | the safety properties of `locks`, for any tasks and versions |
| `MembershipTypes`, `...VectorsAligned`, `...FlagIsTakenBack`, `...PeersAsAsked`, `...LoopSurvives`, `...MatchBacked`, `...CommitNeedsMajority`, `...LeaseBacked` | all properties of `membership`, for any configuration, callers and rounds |
| `ServiceTypes`, `...ConfirmedIsChosen`, `...AppendedOnce`, `...NoWaiterForgotten`, `...StoresFollowChosen`, `...CurrentReadIsFresh` | all properties of `service`, for any nodes, clients, terms and calls |

**Types.** `TypeOK` is not inductive alone: the end of a handle_timeout_now
campaign writes into the transfer_leader call that waits for it, so that call must
be there. `TypeInv` adds `TransferWaits`. One lemma per action
(`RaftTypes`), on laws of the log operations (`LogStoreProofs`; the one with an
argument is that `Retain` yields a sequence).

**Votes.** Seen from `term`, `vote` and `ballots`, each action does
nothing, moves a node to a term no older, or casts a ballot it may cast
(`ServerStep`). `VoteInv` strengthens `OneVotePerTerm` by
`VoteRemembersBallot`: a ballot is of a term not newer than its voter's, and in
the voter's term it is the vote. Without it nothing excludes a second ballot in
the current term.

**Winners.** `LoopsBacked` says that what a main loop has counted, and the
grant that is on its way, are ballots of its term. So a win
has a majority (`WinsSupported`), and two majorities share a voter: `RaftElectedOnce`.
Campaigns of handle_timeout_now are left out of `LoopsBacked` because they are not
backed: `VotesForItself` is false. `ElectedOnce` does not say that a term has one
*leader*: `two_leaders_diverge` shows two.

**Refinement.** `epoch` is `term`, `winners` are the main loops' wins. The map
sends each `Moves` to `Join`, each `Votes` to `Cast`, each win to `Declare`,
the rest to stutters.

**Restarts.** `RaftProofs` is about `SpecCrash`; what holds there holds of `Spec`
(`RaftNeverCrashes`). A restart drops the handlers that worked for the node and moves
on the campaigns that waited for it, so `TypeInv` has that to survive too. A node
hangs for a campaign that waits at it, for an open append while apply has the log, or for
a client, in every step that touches any of them (`FrozenMeansWaiting`, inductive with
the types). A file is written from what a node
has now or from a copy taken earlier: `CopiesNotAhead` says of the copies what
`DiskNotAhead` says of the file, and terms and votes only move on in between.

**Two leaders.** A leader has a win recorded in its present term (`LeaderWon`), a
main loop's win counts for the term it was made in or an earlier one (`WinsLater`),
and no two wins of main loops count for one term (`RaftElectedOnce`). So two
leaders of a term whose wins are neither stale nor from a TimeoutNow campaign would be
one: `RaftSharedTermIsStale`.

**Causes.** Two theorems are of the form `Spec /\ [][~C]_vars => []P`: P is not
an invariant of the code, and C is the set of steps that the code takes and should
not. That keeps the cause out of the model and the claim exact.

- `Misfiles`: a request for the whole log reaches a compacted log, where index 0 always
  matches and entry 1 is filed above the boundary; or create_snapshot compacts to an
  index that install_snapshot has passed since. Without it `LogContiguous` follows from
  the same of files, copies and requests (`Filed`).
- `InstallsUnasked`: a snapshot older than last_applied is installed, or one newer
  than what apply_committed_entries is about to write. Otherwise what it will write
  is ahead (`ApplyingAhead`).

**Log matching.** `RaftLogMatching` has two hypotheses. `BeforeSnapshots`, that fewer
entries are written than a snapshot takes, is about the constants. `HonestWins` is about
the state: every win so far was counted by a main loop, in the term it then led.
Nothing else is asked of the steps: leaders of different terms side by side, logs that
are cut off, logs longer than the winner's, and requests of leaders long deposed, in any
order, are all covered. What it rules out is the stale win of `two_leaders_diverge` and the TimeoutNow
campaign that counts a vote nobody cast (section 4): with one of them two leaders share a
term and the claim fails. (TLC finds no counterexample to
`HonestWins => LogMatching` with 2 nodes that both campaign, MaxTerm 2, one broken call and
two writes, in 2.7 million states.)

The induction is over `MatchInv`. `HistoryInv` says that there is a function H from terms
to logs, such that

- H of the term of a leader is that leader's log, and it is empty for a term nobody won;
- every log is within H: up to each of its entries it is the history of that entry's
  term;
- every request, under way or late, is a stretch of entries of a log that is within H,
  with the entry that goes before it.

The winner of a term starts its history with the log it has (`FirstHistory`); that the
term had none before is `NotWonYet`, from `ElectedOnce` and `WinsPast` (no win is of a
term later than its node's). A put adds to H at the leader's term and to the leader's
log alike (`WriteHistory`); here one leader per term is needed. An accepted request
agrees with the log up to the entry before it, by what both say of the history of that
entry's term; whatever follows is cut off, and what is filed is within H because the
request is (`AcceptHistory`). commit_index, match_index and the votes play no part.
`ShortInv` carries the first hypothesis into the states: nothing is compacted
(`Uncompacted`), the entries in all logs and requests are no more than the puts so far
(`EntriesCounted`), one of which may still be in the hands of a leader that hangs
(`HungLeads`). H is the witness of an existential: no history variable is needed.

**Files.** Without an overlap at most one task is between its open and its rename
(`OneSave`); then json.tmp is its work and the published file some earlier save's.
That every program makes its saves in one piece, open, write, rename
(`SavesInOneGo`), is a fact about sequences, carried through the concatenations
the programs are written with. The locks need `QueueInv`: who
waits in a queue waits for the step it is at.

**Membership.** Five parts, in the order in which they need each other. The
vectors follow the peers (`VectorsAligned` with the types), through `RemoveAt` and
`Append`. A call under way knows where its node is as long as no second one is
past the checks (`CallsKnow`); that gives `PeersAsAsked`. As long as there are
enough peers, the copy a heartbeat works from is long enough (`Enough`);
`LoopSurvives`. A slot nobody has moved says no more than its peer holds
(`MatchBacked`), and then a majority of slots is a majority of peers, by the
injection from slots to configured peers (`HaveHold`): `CommitNeedsMajority`. An
answer task is of one slot and one round, so within a round each counts a new
slot (`CountBacked`); `LeaseBacked`.

**Service.** Four layers. `ConsensusInv`: a leader holds every entry of its term,
the newest leader holds all that was chosen, commit indexes are of chosen entries.
`CallInv`: a command is in a log only if its client has put, and only where the call says.
`LoopInv`: what a pass of apply_committed_entries has taken up so far is chosen, so
stores are prefixes; and what is notified was applied. `ReadInv`: a read's target
covers `want`. `NoWaiterForgotten` is inductive on top of these.

**Only model-checked**: liveness and the orders of locks (out of the prover's reach);
`MachinesAgree`, `MatchIsReplicated`, `CommittedOnMajority` and `SnapshotSentIsComplete`,
which the code does not keep in general and which hold in the runs above for reasons of
their bounds; `LogMatching` with compaction and restarts. With restarts `OneVotePerTerm`
and `VoteStands` do not hold of the votes in memory (a restart forgets a vote that is not
saved yet), so there is no `Crash...` theorem of them.

## 6. What is not modelled, and the plan

Next steps, in order:

1. `LogMatching` over restarts and snapshots: histories that start at a boundary, files
   and copies within them.
2. `MachinesAgree` from `LogMatching`, for behaviours in which what is committed stays on a
   majority: leader completeness needs that a vote counts only in its own term.
3. `NodeLocks` without put and apply is free of deadlock (an order on locks).
4. The composition of `KvService` with `Replication` in place of ideal consensus, on
   one leader.

Left out of handlers that are modelled:

- Errors of a save: the code logs them and goes on as if it had saved. Only `StateFile`
  has the rename that fails.
- A handler dropped between two of its own awaits under a lock (append_entries between
  truncate, append and save; put between append and save): a call breaks before or after
  the handler, or where it hangs.
- install_snapshot's answer when the store rejects the data (rpc.rs:232-237). The data is
  what a node of the same build has written.
- The refusal of an older request.term by handle_add_node and handle_remove_node
  (membership.rs:193 and the same in the other) and by handle_transfer_leader
  (election.rs:536): the model admits those calls too.

Not modelled, for good: configuration parsing, metrics formatting, generated
protocol code and the calculator demo (main.rs:20-101), which keep no state the
consensus depends on, and real time (timer.rs, the length of a lease), of which
only "an expiry may happen" matters to the properties here. PreVote's rule 4
(election.rs:316) is a comment without code. Liveness of `KvService` and
`Membership` would multiply instances that are already near a million states.

One leader transfers at a time and node, and a transfer's target is a configured
peer. The calls a node has open vanish when it crashes; calls to it are handled
after its restart. Keys and values are not told apart: a store is the sequence of
what was applied. The shell and JavaScript tests are not modelled; what they expect
is in `RaftClaims`.
