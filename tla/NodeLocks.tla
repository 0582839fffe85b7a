------------------------------ MODULE NodeLocks -----------------------------
(***************************************************************************)
(* The two locks every task of a node shares, state: RwLock<RaftState> and *)
(* log: RwLock<LogStore>, and the order in which the tasks take them.      *)
(*                                                                         *)
(* tokio's RwLock is fair: requests queue up first come, first served, so  *)
(* a reader that arrives after a waiting writer waits as well, even while  *)
(* other readers hold the lock.  The locks inside RaftState (persistent,   *)
(* volatile, leader_state, leader_id) are only taken under state; they are *)
(* left out.  Two of their holders wait for the log with leader_state in   *)
(* hand (transfer_leader, election.rs:429-447, and add_node,               *)
(* membership.rs:78-81), but nobody waits for leader_state with the log in *)
(* hand and without state.  Of what a task does between its takes and      *)
(* drops only the work on the state file has a place in its program;       *)
(* StateFile says what it does, here it is a step like another.            *)
(*                                                                         *)
(* No program of their own: handle_pre_vote, handle_timeout_now,           *)
(* transfer_leader, add_node, remove_node, get and the metrics.            *)
(***************************************************************************)
EXTENDS Naturals, Sequences, FiniteSets

CONSTANTS
  Task,        \* the tasks that run at the same time
  Mixes        \* what they may run, as functions from Task to kinds of programs

Lock == {"state", "log"}
Mode == {"read", "write"}

Take(l, m) == [op |-> "take", lock |-> l, mode |-> m]
Drop(l, m) == [op |-> "drop", lock |-> l, mode |-> m]

\* A lock held over nothing else.
Hold(l, m) == <<Take(l, m), Drop(l, m)>>

\* Something else: "change" what is to be saved, "copy" it, and the parts of a save.
Do(op) == <<[op |-> op, lock |-> "none", mode |-> "none"]>>

\* Mutant of Save: the name is given before the content.
SaveRenameFirst == Do("open") \o Do("rename") \o Do("write")

\* Mutant of Save: the rename is tried again after it has succeeded.
SaveRenameTwice == Do("open") \o Do("write") \o Do("rename") \o Do("rename")

\* PersistentStorage::save, as tasks that run next to each other see it.
Save == Do("open") \o Do("write") \o Do("rename")

(* The tasks, by what they take and drop, in order. *)

\* apply_committed_entries: the log is still read-locked when state is taken.
ApplyCommitted ==
  Hold("state", "read")
  \o <<Take("log", "read"), Take("state", "write")>>
  \o <<Drop("state", "write"), Drop("log", "read")>>

\* append_entries (and install_snapshot): the log under the state, both held to the
\* end of the save.
AppendEntries ==
  <<Take("state", "write"), Take("log", "write")>> \o Do("change") \o Do("copy") \o Save
  \o <<Drop("log", "write"), Drop("state", "write")>>

\* put (and delete): state is read-locked a second time for the save.
PutOrDelete ==
  <<Take("state", "read"), Take("log", "write")>> \o Do("change")
  \o <<Take("state", "read")>> \o Do("copy") \o <<Drop("state", "read")>> \o Save
  \o <<Drop("log", "write"), Drop("state", "read")>>

\* Mutant of VoteGranted: state is not dropped before it is read again.
VoteGrantedHolding ==
  <<Take("state", "write")>> \o Hold("log", "read") \o Do("change")
  \o <<Take("log", "read")>> \o Do("copy") \o <<Drop("log", "read")>> \o Save
  \o Hold("state", "read") \o <<Drop("state", "write")>>

\* handle_request_vote, when the vote is granted: state is dropped before the save.
\* (When it is not, the handler waits for itself: see Election, DenyVote.)
VoteGranted ==
  <<Take("state", "write")>> \o Hold("log", "read") \o Do("change")
  \o <<Take("log", "read")>> \o Do("copy") \o <<Drop("log", "read"), Drop("state", "write")>>
  \o Save \o Hold("state", "read")

\* start_real_election up to its requests, and its end.
RealElection ==
  <<Take("state", "write")>> \o Do("change")
  \o <<Take("log", "read")>> \o Do("copy") \o <<Drop("log", "read"), Drop("state", "write")>>
  \o Save \o Hold("log", "read") \o Hold("state", "write")

\* send_heartbeat for one peer, then update_commit_index.
Heartbeat ==
  Hold("state", "read") \o Hold("log", "read") \o Hold("log", "read")
  \o Hold("state", "read") \o Hold("log", "read") \o Hold("state", "write")

\* The task that receives the answer of a peer.
ReceiveAnswer == Hold("state", "write")

\* transfer_leader without its remote call.
TransferLeader ==
  <<Take("state", "read")>> \o Hold("log", "read") \o <<Drop("state", "read")>>
  \o Hold("state", "read") \o Hold("state", "write")

\* create_snapshot, after should_snapshot.
CreateSnapshot ==
  Hold("log", "read") \o
  Hold("state", "read") \o Hold("log", "read")
  \o <<Take("log", "write")>> \o Do("change") \o <<Drop("log", "write")>>
  \o <<Take("state", "read"), Take("log", "read")>> \o Do("copy")
  \o <<Drop("log", "read"), Drop("state", "read")>> \o Save

\* A pass of the main loop as a candidate, and one as a leader.
CandidatePass == RealElection \o CreateSnapshot
LeaderPass    == Heartbeat \o CreateSnapshot

Program(kind) ==
  CASE kind = "apply"     -> ApplyCommitted
    [] kind = "append"    -> AppendEntries
    [] kind = "put"       -> PutOrDelete
    [] kind = "granted"   -> VoteGranted
    [] kind = "candidate" -> CandidatePass
    [] kind = "leader"    -> LeaderPass
    [] kind = "answer"    -> ReceiveAnswer
    [] kind = "transfer"  -> TransferLeader

Kind == {"apply", "append", "put", "granted", "candidate", "leader", "answer", "transfer"}

ASSUME MixesAssumption == Mixes \subseteq [Task -> Kind]

VARIABLES
  runs,      \* runs[t]: what task t runs
  at,        \* at[t]: the step of its program task t does next
  held,      \* held[l]: <<t, mode, n>> when t holds l, taken by its step n
  queue      \* queue[l]: the requests for l not granted yet, oldest first

vars == <<runs, at, held, queue>>

Code(t) == Program(runs[t])
Done(t) == at[t] > Len(Code(t))
Step(t) == Code(t)[at[t]]

Waiting(t) == \E l \in Lock : \E i \in DOMAIN queue[l] : queue[l][i].task = t

Init ==
  /\ runs \in Mixes
  /\ at = [t \in Task |-> 1]
  /\ held = [l \in Lock |-> {}]
  /\ queue = [l \in Lock |-> <<>>]

\* Mutant of Free: a writer does not wait for readers.
FreeForWriter(l, m) == \A h \in held[l] : h.mode = "read"

\* l can be taken: to write when nobody holds it, to read when no writer does.
Free(l, m) == \A h \in held[l] : m = "read" /\ h.mode = "read"

\* A lock that is dropped is handed over before anybody else moves.
Settled == \A l \in Lock : queue[l] # <<>> => ~Free(l, Head(queue[l]).mode)

Taken(l, t, m) ==
  /\ held' = [held EXCEPT ![l] = @ \cup {[task |-> t, mode |-> m, by |-> at[t]]}]
  /\ at' = [at EXCEPT ![t] = @ + 1]

Ready(t, op) == Settled /\ ~Done(t) /\ ~Waiting(t) /\ Step(t).op = op

Acquire(t) ==
  LET s == Step(t) IN
  /\ Ready(t, "take") /\ queue[s.lock] = <<>> /\ Free(s.lock, s.mode)
  /\ Taken(s.lock, t, s.mode)
  /\ UNCHANGED <<runs, queue>>

\* A request that has to wait goes to the end of the queue, a reader's too: nobody
\* overtakes a writer that waits.
Request(t) ==
  LET s == Step(t) IN
  /\ Ready(t, "take") /\ ~(queue[s.lock] = <<>> /\ Free(s.lock, s.mode))
  /\ queue' = [queue EXCEPT ![s.lock] = Append(@, [task |-> t, mode |-> s.mode])]
  /\ UNCHANGED <<runs, at, held>>

\* Only the oldest request can be granted.
Grant(l) ==
  /\ queue[l] # <<>> /\ Free(l, Head(queue[l]).mode)
  /\ Taken(l, Head(queue[l]).task, Head(queue[l]).mode)
  /\ queue' = [queue EXCEPT ![l] = Tail(@)]
  /\ UNCHANGED runs

\* A guard taken last is dropped first.
Release(t) ==
  LET s == Step(t)
      mine == {h \in held[s.lock] : h.task = t /\ h.mode = s.mode}
  IN
  /\ Ready(t, "drop")
  /\ \E h \in mine : /\ \A g \in mine : g.by <= h.by
                     /\ held' = [held EXCEPT ![s.lock] = @ \ {h}]
  /\ at' = [at EXCEPT ![t] = @ + 1]
  /\ UNCHANGED <<runs, queue>>

\* What is neither a take nor a drop.
Work(t, op) ==
  /\ op \notin {"take", "drop"} /\ Ready(t, op)
  /\ at' = [at EXCEPT ![t] = @ + 1]
  /\ UNCHANGED <<runs, held, queue>>

LockStep ==
  \/ \E t \in Task : Acquire(t) \/ Request(t) \/ Release(t)
  \/ \E l \in Lock : Grant(l)

Next ==
  \/ LockStep
  \/ \E t \in Task : ~Done(t) /\ Work(t, Step(t).op)

Spec == Init /\ [][Next]_vars

\* The runtime does not stop while a task can go on or a lock can be handed over.
\* Programs are finite, so this lets everything happen that can.
FairSpec == Spec /\ WF_vars(Next)

-----------------------------------------------------------------------------
\* Types, and what a reader-writer lock is: whoever writes holds it alone.
TypeOK ==
  /\ runs \in Mixes
  /\ at \in [Task -> Nat \ {0}]
  /\ held \in [Lock -> SUBSET [task : Task, mode : Mode, by : Nat]]
  /\ queue \in [Lock -> Seq([task : Task, mode : Mode])]
  /\ \A l \in Lock : \A g, h \in held[l] : g # h => g.mode = "read" /\ h.mode = "read"

AllDone == \A t \in Task : Done(t)

Wants(t, l) == \E i \in DOMAIN queue[l] : queue[l][i].task = t
Has(t, l)   == \E h \in held[l] : h.task = t

\* The two ways in which the code locks itself out: a put (or delete) behind a writer
\* at its second look at the state, and apply_committed_entries with the log in its hand.
PutBlocked   == \E t \in Task : runs[t] = "put" /\ Has(t, "state") /\ Wants(t, "state")
ApplyBlocked == \E t \in Task : runs[t] = "apply" /\ Has(t, "log") /\ Wants(t, "state")

\* Nobody can go on.
Standstill == /\ Settled
              /\ \A t \in Task : Done(t) \/ Waiting(t)

\* Every handler that has been started returns, whatever the others do, or all wait in
\* one of those two ways.
EveryTaskEnds == <>(AllDone \/ (Standstill /\ (PutBlocked \/ ApplyBlocked)))

\* main.rs:223, "apply the committed log to the state machine (all nodes)".
ApplyEnds == \A t \in Task : runs[t] = "apply" => <>Done(t)

\* integration-test.js:91-95: a put gets an answer.
PutEnds == \A t \in Task : runs[t] = "put" => <>Done(t)
=============================================================================
