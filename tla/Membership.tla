----------------------------- MODULE Membership -----------------------------
(***************************************************************************)
(* add_node and remove_node of one node (membership.rs), next to the main  *)
(* loop and the answer tasks of its heartbeats (replication.rs).           *)
(*                                                                         *)
(* RaftState.peers is a list that the two calls change, and next_index and *)
(* match_index go by its positions: slot 1 is the node, slot i + 1 the     *)
(* i-th peer.  Replication keeps the peers it was configured with and uses *)
(* the same slots for those.  Nothing brings the two together again.       *)
(*                                                                         *)
(* The other nodes are ideal here: holds[p] is the last index p holds, an  *)
(* append reaches p at most once and nothing is cut off.  Snapshots and    *)
(* log compaction are in Replication.                                      *)
(***************************************************************************)
EXTENDS Naturals, FiniteSets, SequencesExt

CONSTANTS
  Self, Peers,   \* node_id and the peers of the configuration, in order
  Asked,         \* the nodes that may be added or removed
  Caller,        \* add_node and remove_node calls that may run at the same time
  Nil,
  MaxTerm, MaxLog, MaxRound, MaxCalls   \* bounds: terms, entries, heartbeat rounds, calls

Id == ToSet(Peers) \cup Asked

ASSUME PeersAssumption ==
  /\ Peers \in Seq(ToSet(Peers)) /\ IsInjective(Peers)
  /\ Self \notin Id
ASSUME BoundsAssumption == {MaxTerm, MaxLog, MaxRound, MaxCalls} \subseteq Nat
ASSUME NilAssumption == Nil \notin Id

\* Replication's (self.peers.len() + 1) / 2 + 1.
Majority == (Len(Peers) + 1) \div 2 + 1

VARIABLES
  role, term, log, commit,   \* of the node; log[i] is the term of entry i
  peers,       \* RaftState.peers
  ls,          \* leader_state: [next, match], or Nil
  changing,    \* Membership.changing
  call,        \* call[c]: [at, op, id, idx], where a call is and what it has read
  loop,        \* the main loop: "idle", "sending" what it has read, "sent", or "dead"
  count,       \* heartbeat_success_count
  appends,     \* the answer tasks: [idx, to, round, next, upto]
  round,       \* heartbeats so far
  holds,       \* holds[p]: the last index p holds
  (* History. *)
  counted,     \* the answers in count: [slot, round, late]
  lease,       \* how many nodes had renewed the lease, and whether one came late, or Nil
  asked,       \* the peers if every change had done what it was asked for
  crowded,     \* two changes have been past the checks at the same time
  broken,      \* a change has panicked or was given up
  short,       \* there have been fewer peers than configured
  shifted,     \* a slot has been taken out of the vectors now in use
  used         \* calls started

node    == <<role, term, log, commit>>
member  == <<peers, changing, call>>
beat    == <<loop, count, appends, round>>
history == <<asked, crowded, broken, short, shifted, used>>
vars    == <<node, member, ls, beat, holds, counted, lease, history>>

Idle == [at |-> "idle", op |-> "none", id |-> Nil, idx |-> 0]

Init ==
  /\ role = "Follower" /\ term = 0 /\ log = <<>> /\ commit = 0
  /\ peers = Peers /\ ls = Nil
  /\ changing = FALSE /\ call = [c \in Caller |-> Idle]
  /\ loop = [at |-> "idle"] /\ count = 0 /\ appends = {} /\ round = 0
  /\ holds = [p \in ToSet(Peers) |-> 0]
  /\ counted = {} /\ lease = Nil
  /\ asked = ToSet(Peers) /\ crowded = FALSE /\ broken = FALSE
  /\ short = FALSE /\ shifted = FALSE /\ used = 0

-----------------------------------------------------------------------------
(* The node wins an election, in its loop or by a TimeoutNow, and loses its role. *)

\* Mutant of Fresh: one slot per peer, none for the node.
FreshShort(k) == [next |-> [i \in 1..k |-> 1], match |-> [i \in 1..k |-> 0]]

Fresh(k) == [next |-> [i \in 1..k + 1 |-> 1], match |-> [i \in 1..k + 1 |-> 0]]

\* become_candidate, then become_leader: as many slots as there are peers now.
BecomeLeader ==
  /\ role # "Leader" /\ term < MaxTerm
  /\ term' = term + 1 /\ role' = "Leader"
  /\ ls' = Fresh(Len(peers))
  /\ lease' = Nil /\ shifted' = FALSE
  /\ UNCHANGED <<log, commit, member, beat, holds, counted, asked, crowded, broken, short, used>>

\* become_follower in a newer term: leader_state stays as it is.
StepDown ==
  /\ role = "Leader" /\ term < MaxTerm
  /\ term' = term + 1 /\ role' = "Follower"
  /\ UNCHANGED <<log, commit, member, ls, beat, holds, counted, lease, history>>

\* put.
AppendEntry ==
  /\ role = "Leader" /\ Len(log) < MaxLog
  /\ log' = Append(log, term)
  /\ UNCHANGED <<role, term, commit, member, ls, beat, holds, counted, lease, history>>

-----------------------------------------------------------------------------
(* add_node and remove_node. *)

Busy(c) == call[c].at # "idle"
Goes(c, where) == call' = [call EXCEPT ![c].at = where]

\* position(): the first slot that has the id.
PositionOf(id) == {i \in DOMAIN peers : peers[i] = id /\ \A j \in 1..i - 1 : peers[j] # id}

\* The checks, in one section of the state lock; the position is kept for later.  (The
\* refusal of an older term, in the handlers in front of them, is not looked at.)
Check(c, op, id, idx) ==
  /\ ~Busy(c) /\ used < MaxCalls
  /\ role = "Leader" /\ ~changing
  /\ call' = [call EXCEPT ![c] = [at |-> "checked", op |-> op, id |-> id, idx |-> idx]]
  /\ crowded' = (crowded \/ \E d \in Caller : Busy(d))
  /\ used' = used + 1
  /\ UNCHANGED <<node, peers, changing, ls, beat, holds, counted, lease,
                 asked, broken, short, shifted>>

\* Mutant of AddNode: whether the node is there already is not looked at.
AddAnyNode(c) == \E id \in Asked : Check(c, "add", id, 0)

AddNode(c) == \E id \in Asked \ ToSet(peers) : Check(c, "add", id, 0)

RemoveNode(c) == \E id \in Asked : \E i \in PositionOf(id) : Check(c, "remove", id, i)

\* Nothing is checked again when the flag is set.
Mark(c) ==
  /\ call[c].at = "checked"
  /\ changing' = TRUE
  /\ Goes(c, "marked")
  /\ UNCHANGED <<node, peers, ls, beat, holds, counted, lease, history>>

\* Mutant of Pushed: the new peer gets no slot in match_index.
PushedNext(v, last) == [next |-> Append(v.next, last + 1), match |-> v.match]

Pushed(v, last) == [next |-> Append(v.next, last + 1), match |-> Append(v.match, 0)]

ApplyAdd(c) ==
  /\ call[c].at = "marked" /\ call[c].op = "add"
  /\ peers' = Append(peers, call[c].id)
  /\ ls' = IF ls = Nil THEN Nil ELSE Pushed(ls, Len(log))
  /\ asked' = asked \cup {call[c].id}
  /\ Goes(c, "applied")
  /\ UNCHANGED <<node, changing, beat, holds, counted, lease,
                 crowded, broken, short, shifted, used>>

Pulled(v, idx) == [next |-> RemoveAt(v.next, idx + 1), match |-> RemoveAt(v.match, idx + 1)]

\* Whoever is at the position by now is removed.
ApplyRemove(c) ==
  /\ call[c].at = "marked" /\ call[c].op = "remove" /\ call[c].idx <= Len(peers)
  /\ peers' = RemoveAt(peers, call[c].idx)
  /\ ls' = IF ls = Nil THEN Nil ELSE Pulled(ls, call[c].idx)
  /\ asked' = asked \ {call[c].id}
  /\ short' = (short \/ Len(peers') < Len(Peers))
  /\ shifted' = TRUE
  /\ Goes(c, "applied")
  /\ UNCHANGED <<node, changing, beat, holds, counted, lease, crowded, broken, used>>

\* Vec::remove beyond the end panics; the task ends with its locks, the flag stays.
RemovePanics(c) ==
  /\ call[c].at = "marked" /\ call[c].op = "remove" /\ call[c].idx > Len(peers)
  /\ call' = [call EXCEPT ![c] = Idle]
  /\ broken' = TRUE
  /\ UNCHANGED <<node, peers, changing, ls, beat, holds, counted, lease,
                 asked, crowded, short, shifted, used>>

\* Mutant of Finish: the flag is not taken back.
FinishMarked(c) ==
  /\ call[c].at = "applied"
  /\ call' = [call EXCEPT ![c] = Idle]
  /\ UNCHANGED <<node, peers, changing, ls, beat, holds, counted, lease, history>>

Finish(c) ==
  /\ call[c].at = "applied"
  /\ changing' = FALSE
  /\ call' = [call EXCEPT ![c] = Idle]
  /\ UNCHANGED <<node, peers, ls, beat, holds, counted, lease, history>>

\* The caller goes away and the handler is dropped where it waits for the state lock,
\* the flag set.  (Before that it leaves nothing behind.  Between peers and the vectors
\* it can be dropped as well, where it waits for leader_state or the log: not here.)
GiveUp(c) ==
  /\ call[c].at = "marked"
  /\ call' = [call EXCEPT ![c] = Idle]
  /\ broken' = TRUE
  /\ UNCHANGED <<node, peers, changing, ls, beat, holds, counted, lease,
                 asked, crowded, short, shifted, used>>

-----------------------------------------------------------------------------
(* send_heartbeat, update_commit_index and the answers. *)

\* What a heartbeat sends is read in one section ...
BeginHeartbeat ==
  /\ loop.at = "idle" /\ role = "Leader" /\ ls # Nil /\ round < MaxRound
  /\ loop' = [at |-> "sending", next |-> ls.next]
  /\ UNCHANGED <<node, member, ls, count, appends, round, holds, counted, lease, history>>

\* Mutant of SlotOf: the leader's own slot is forgotten.
SlotHere(i) == i

\* The slot of the i-th peer of the configuration.
SlotOf(i) == i + 1

\* The peers that have a slot in the copy; the first that has none panics.
Reached == {i \in DOMAIN Peers : SlotOf(i) <= Len(loop.next)}

\* Mutant of Counted: the count is not set back.
CountedOn == count' = count + 1 /\ UNCHANGED counted

\* The count starts again at one, for the node itself.
Counted == count' = 1 /\ counted' = {}

\* ... and is sent to the configured peers one by one.  A panic ends the task of the
\* main loop, and with it heartbeats, elections and applying.
Send ==
  /\ loop.at = "sending"
  /\ round' = round + 1
  /\ Counted
  /\ appends' = appends \cup
       {[idx |-> SlotOf(i), to |-> Peers[i], round |-> round',
         next |-> loop.next[SlotOf(i)], upto |-> Len(log)] : i \in Reached}
  /\ loop' = [at |-> IF Reached = DOMAIN Peers THEN "sent" ELSE "dead"]
  /\ UNCHANGED <<node, member, ls, holds, lease, history>>

\* The slots of the configured peers, and who of them has n.
Slots == 2..Len(Peers) + 1
Have(n) == {i \in Slots : i <= Len(ls.match) /\ ls.match[i] >= n}

\* Mutant of Committable: the leader is counted twice.
CommittableTwice(n) == log[n] = term /\ Cardinality(Have(n)) + 2 >= Majority

Committable(n) == log[n] = term /\ Cardinality(Have(n)) + 1 >= Majority

\* update_commit_index ends the pass, unless a slot it looks at is gone.
UpdateCommit ==
  /\ loop.at = "sent"
  /\ LET new == {n \in commit + 1..Len(log) : Committable(n)}
         looks == role = "Leader" /\ ls # Nil /\ \E n \in commit + 1..Len(log) : log[n] = term
     IN
     IF looks /\ Len(ls.match) <= Len(Peers)
     THEN loop' = [at |-> "dead"] /\ UNCHANGED commit
     ELSE /\ loop' = [at |-> "idle"]
          /\ commit' = IF looks /\ new # {} THEN CHOOSE n \in new : \A m \in new : m <= n
                       ELSE commit
  /\ UNCHANGED <<role, term, log, member, ls, count, appends, round, holds,
                 counted, lease, history>>

\* What the peer does with an append, and says.
Accepts(a) == a.next <= holds[a.to] + 1
Stored(a) == IF Accepts(a) /\ a.upto > holds[a.to] THEN a.upto ELSE holds[a.to]

\* The peer handles the append and the answer task takes the answer, whatever the
\* node is by then: a success counts for the round that is on.
AnswerSuccess(a) ==
  /\ a \in appends /\ Accepts(a) /\ ls # Nil /\ a.idx <= Len(ls.match)
  /\ appends' = appends \ {a}
  /\ holds' = [holds EXCEPT ![a.to] = Stored(a)]
  /\ ls' = [next |-> [ls.next EXCEPT ![a.idx] = Stored(a) + 1],
            match |-> [ls.match EXCEPT ![a.idx] = Stored(a)]]
  /\ count' = count + 1
  /\ counted' = counted \cup {[slot |-> a.idx, round |-> a.round, late |-> a.round < round]}
  /\ lease' = IF count' >= Majority
                THEN [nodes |-> Cardinality({c.slot : c \in counted'}) + 1,
                      late  |-> \E c \in counted' : c.late]
                ELSE lease
  /\ UNCHANGED <<node, member, loop, round, history>>

\* Mutant of Retreat: there is no smallest next_index.
RetreatAlways(n) == n - 1

Retreat(n) == IF n > 1 THEN n - 1 ELSE n

AnswerFailure(a) ==
  /\ a \in appends /\ ~Accepts(a) /\ ls # Nil /\ a.idx <= Len(ls.next)
  /\ appends' = appends \ {a}
  /\ ls' = [ls EXCEPT !.next[a.idx] = Retreat(@)]
  /\ UNCHANGED <<node, member, loop, count, round, holds, counted, lease, history>>

\* The slot is gone: only the answer task panics.
AnswerPanics(a) ==
  /\ a \in appends /\ a.idx > Len(ls.match)
  /\ appends' = appends \ {a}
  /\ holds' = [holds EXCEPT ![a.to] = Stored(a)]
  /\ UNCHANGED <<node, member, ls, loop, count, round, counted, lease, history>>

Next ==
  \/ BecomeLeader \/ StepDown \/ AppendEntry
  \/ \E c \in Caller : \/ AddNode(c) \/ RemoveNode(c) \/ Mark(c) \/ ApplyAdd(c)
                       \/ ApplyRemove(c) \/ RemovePanics(c) \/ Finish(c) \/ GiveUp(c)
  \/ BeginHeartbeat \/ Send \/ UpdateCommit
  \/ \E a \in appends : AnswerSuccess(a) \/ AnswerFailure(a) \/ AnswerPanics(a)

Spec == Init /\ [][Next]_vars

-----------------------------------------------------------------------------
MembershipTypeOK ==
  /\ role \in {"Follower", "Leader"} /\ term \in Nat /\ log \in Seq(Nat) /\ commit \in Nat
  /\ peers \in Seq(Id) /\ changing \in BOOLEAN
  /\ ls = Nil \/ (ls.next \in Seq(Nat \ {0}) /\ ls.match \in Seq(Nat))
  /\ \A c \in Caller : /\ call[c].at \in {"idle", "checked", "marked", "applied"}
                       /\ call[c].op \in {"none", "add", "remove"}
                       /\ call[c].id \in Id \cup {Nil} /\ call[c].idx \in Nat
  /\ loop.at \in {"idle", "sending", "sent", "dead"}
  /\ loop.at = "sending" => loop.next \in Seq(Nat \ {0})
  /\ count \in Nat /\ round \in Nat /\ holds \in [ToSet(Peers) -> Nat]
  /\ \A a \in appends : /\ a.idx \in Slots /\ a.to = Peers[a.idx - 1]
                        /\ a.round \in Nat /\ a.next \in Nat \ {0} /\ a.upto \in Nat

\* Both vectors of a leader have one slot for itself and one for each peer, through
\* elections, additions, removals and panics: what keeps membership.rs:170 in range.
VectorsAligned == ls # Nil => Len(ls.next) = Len(peers) + 1 /\ Len(ls.match) = Len(peers) + 1

\* Changes are refused for ever (membership.rs:50) only where one broke off half-way.
FlagIsTakenBack ==
  changing /\ ~broken => \E c \in Caller : call[c].at \in {"marked", "applied"}

\* The peers are what was asked for, each once, unless two changes were past the
\* checks together; only then can Vec::remove be beyond the end.
PeersAsAsked ==
  ~crowded => /\ IsInjective(peers) /\ ToSet(peers) = asked
              /\ \A c \in Caller : call[c].at = "marked" /\ call[c].op = "remove"
                                     => call[c].idx <= Len(peers) /\ peers[call[c].idx] = call[c].id

\* The main loop of a leader survives heartbeats as long as there have never been
\* fewer peers than configured.
LoopSurvives == ~short => loop.at # "dead"

\* match_index of a configured peer is not above what the peer holds, as long as no
\* slot has been taken out: later elections make the slots fit again.
MatchBacked ==
  ls # Nil /\ ~shifted =>
    \A i \in Slots : i <= Len(ls.match) => ls.match[i] <= holds[Peers[i - 1]]

\* commit_index rises to what a majority of the configured cluster holds, unless slots
\* have been taken out.
CommitNeedsMajority ==
  [][commit' > commit /\ ~shifted
       => Cardinality({p \in ToSet(Peers) : holds[p] >= commit'}) + 1 >= Majority]_vars

\* The lease is renewed by a majority of different nodes, unless an answer to an
\* earlier heartbeat came in after the count had started again (replication.rs:282).
LeaseBacked == lease # Nil => lease.nodes >= Majority \/ lease.late

-----------------------------------------------------------------------------
(* What does not hold; see section 4 of the README. *)

\* membership.rs:36, "check whether another membership change is in progress".
OneChangeAtATime == \A c, d \in Caller : Busy(c) /\ Busy(d) => c = d

\* main.rs:208, "send heartbeats and replicate the log": the loop of a leader lives.
LoopLives == loop.at # "dead"

\* commit_index rises to what a majority holds.
CommitIsReplicated ==
  [][commit' > commit
       => Cardinality({p \in ToSet(Peers) : holds[p] >= commit'}) + 1 >= Majority]_vars

\* replication.rs:284, "confirmed by a majority, renew the lease".
LeaseByMajority == lease # Nil => lease.nodes >= Majority
=============================================================================
