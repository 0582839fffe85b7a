----------------------------- MODULE RaftClaims -----------------------------
(***************************************************************************)
(* What comments and tests of the repository say of the program, stated of *)
(* the model, and what the code does not keep.  Runs refute PutSucceeds    *)
(* and LeaderIsElected; the README gives the bounds that refute the rest.  *)
(***************************************************************************)
EXTENDS RaftCrash

\* state.rs:24, "persistent state (must be saved before use)": when a candidate is
\* answered with a vote, the file of the voter shows that vote or a newer term.
VoteSavedBeforeUse ==
  \A n \in Node, t \in Task :
    Running(n, t) /\ camp[n][t].st = "got" /\ camp[n][t].reply.granted =>
      LET c == camp[n][t]  d == disk[Peer(n, c)] IN
      d.term > c.term \/ (d.term = c.term /\ d.vote = n)

\* election.rs:208, "check whether a majority was obtained": a node is the leader of its
\* term only with the votes of a majority in that term.
LeaderHasMajority ==
  \A n \in Node : role[n] = "Leader" =>
    Cardinality({v \in Node : <<v, term[n], n>> \in ballots}) >= Majority(n)

\* election.rs:599, "voted for itself": the vote a handle_timeout_now campaign starts
\* counting from is one its node has cast.
VotesForItself ==
  \A n \in Node, t \in Handler :
    Running(n, t) /\ camp[n][t].st # "begin" => <<n, camp[n][t].term, n>> \in ballots

\* state.rs:36, "the highest log index known to be committed": once known, it does not fall.
CommitNeverFalls == [][\A n \in Node : commit'[n] >= commit[n]]_vars

\* replication.rs:384, "apply the committed log to the state machine": a node that says it
\* has applied i entries has applied i commands.
EveryCommittedIsApplied == \A n \in Node : ~LogHeld(n) => Len(machine[n]) = applied[n]

\* service.rs:201, "the leader persists the log": no entry of a leader's log is missing in
\* its file.
LeaderFileCurrent ==
  \A n \in Node : role[n] = "Leader" => LastIndex(disk[n].log) >= LastIndex(log[n])

\* log.rs:35, "the last log index the snapshot contains": a saved snapshot is made of the
\* commands up to the index it stands for.
SnapshotCoversItsIndex ==
  \A n \in Node : disk[n].snap # Nil => Len(disk[n].snap) = disk[n].log.snapIdx

\* integration-test.js:141, "verifying data persisted across restart": what has been
\* compacted out of the log is in the KV store.
CompactedIsInStore == \A n \in Node : log[n].snapIdx <= Len(machine[n])

\* integration-test.js:91-95, "Put failed": a put at the leader ends in a commit, where
\* no handler hangs.
PutSucceeds ==
  \A n \in Node, i \in 1..Limit["put"] :
    role[n] = "Leader" /\ LastIndex(log[n]) >= i
      ~> commit[n] >= i \/ \E p \in Node : ~Unlocked(p)

\* integration_test.sh:52-54: the test waits for a leader and fails without one.
LeaderIsElected == <>(\E n \in Node : role[n] = "Leader")
=============================================================================
