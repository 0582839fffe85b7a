----------------------------- MODULE Replication ----------------------------
(***************************************************************************)
(* Log replication, commitment, application and snapshots:                 *)
(* raft/replication.rs, the append_entries and install_snapshot handlers   *)
(* of raft/rpc.rs, and the append of kv/service.rs put and delete.         *)
(*                                                                         *)
(* The main loop runs send_heartbeat, update_commit_index,                 *)
(* apply_committed_entries and create_snapshot one after the other;        *)
(* loop[n].pc says where it is, the other fields what it has captured.     *)
(* send_heartbeat spawns one task per peer, [calls], which outlives it.    *)
(***************************************************************************)
EXTENDS RaftState

At(n, pc)     == loop[n].pc = pc
GoTo(n, next) == loop' = [loop EXCEPT ![n] = next]
Goto(n, pc)   == GoTo(n, [pc |-> pc])

electionVars == <<camp, xfer, frozen, ballots, wins>>
campaignVars == <<camp, xfer, ballots, wins>>      \* and no lock

\* apply_committed_entries of n holds the log while it waits for the state lock.
LogHeld(n) == At(n, "applied")

-----------------------------------------------------------------------------
(* The client's write. *)

\* The leader's log with the command v at its end.
WithCommand(n, v) ==
  AppendAll(log[n], <<[term |-> term[n], index |-> LastIndex(log[n]) + 1, cmd |-> v]>>)

\* put and delete: term and log position under the locks, the append and the save,
\* which drops the snapshot data from the file.
Put(n, v) ==
  LET l == WithCommand(n, v) IN
  /\ Unlocked(n) /\ ~LogHeld(n) /\ role[n] = "Leader" /\ Spend("put")
  /\ log' = [log EXCEPT ![n] = l]
  /\ disk' = [disk EXCEPT ![n] = PersistentData(term[n], vote[n], l)]
  /\ UNCHANGED <<stateVars, leaderState, indexVars, loop, calls, electionVars>>

\* The handler reads the state a second time, under the first read (service.rs:203): it
\* hangs when a writer has queued up in between, with the entry under a log lock nobody
\* gets any more.  So it does on its way to the log when apply holds that.
PutHangs(n) ==
  /\ Unlocked(n) /\ role[n] = "Leader" /\ Spend("put")
  /\ frozen' = [frozen EXCEPT ![n] = <<n, Client>>]
  /\ UNCHANGED <<stateVars, leaderState, indexVars, log, disk, loop, calls, campaignVars>>

\* The client of a put that hangs gives up.  An entry that is in the log by then stays
\* there, and is not saved.
PutBreaks(n, v) ==
  /\ frozen[n] = <<n, Client>> /\ Spend("fail")
  /\ frozen' = [frozen EXCEPT ![n] = Nil]
  /\ log' = IF LogHeld(n) THEN log ELSE [log EXCEPT ![n] = WithCommand(n, v)]
  /\ UNCHANGED <<stateVars, leaderState, indexVars, disk, loop, calls, campaignVars>>

-----------------------------------------------------------------------------
(* send_heartbeat. *)

\* A pass of the loop in which no timer has expired, when it has something to look at.
IdlePass(n) ==
  /\ At(n, "idle") /\ Unlocked(n)
  /\ commit[n] # applied[n] \/ Len(log[n].entries) >= Threshold
  /\ Goto(n, "apply")
  /\ UNCHANGED <<stateVars, leaderState, indexVars, log, disk, calls, electionVars, used>>

BeginHeartbeat(n) ==
  /\ At(n, "idle") /\ Unlocked(n) /\ role[n] = "Leader" /\ leaderState[n] # Nil
  /\ GoTo(n, [pc |-> "beat", term |-> term[n], commit |-> commit[n],
              next |-> leaderState[n].next])
  /\ UNCHANGED <<stateVars, leaderState, indexVars, log, disk, calls, electionVars, used>>

\* The snapshot boundary is read from the log, the snapshot itself from the file.
ReadSnapshot(n) ==
  /\ At(n, "beat") /\ LogFree(n)
  /\ GoTo(n, [pc |-> "send", term |-> loop[n].term, commit |-> loop[n].commit,
              next |-> loop[n].next, i |-> 1, snapIdx |-> log[n].snapIdx,
              snapTerm |-> log[n].snapTerm, snap |-> disk[n].snap])
  /\ UNCHANGED <<stateVars, leaderState, indexVars, log, disk, calls, electionVars, used>>

Open(n, p, s) == \E c \in calls : c.from = n /\ c.to = p /\ c.slot = s

AppendRequest(n, p, b) ==
  LET next == b.next[p] IN
  [kind |-> "append", term |-> b.term,
   prevIdx |-> next - 1, prevTerm |-> TermAt(log[n], next - 1),
   entries |-> FirstOf(EntriesFrom(log[n], next), MaxEntries), commit |-> b.commit]

SnapshotRequest(b) ==
  [kind |-> "snapshot", term |-> b.term, lastIdx |-> b.snapIdx, lastTerm |-> b.snapTerm,
   data |-> b.snap]

\* The request to the next peer of the round, made from what the round captured
\* and from the log as it is now.  A peer behind the snapshot boundary gets the
\* snapshot, or nothing when the file has none.
SendToPeer(n, s) ==
  LET b == loop[n]  p == PeerSeq[n][b.i]
      behind == b.next[p] <= b.snapIdx
      Spawn(q) == calls' = calls \cup {[from |-> n, to |-> p, slot |-> s,
                                        req |-> q, reply |-> Nil]}
  IN
  /\ At(n, "send") /\ b.i <= Len(PeerSeq[n])
  /\ ~Open(n, p, s)
  /\ IF behind THEN IF b.snap = Nil THEN UNCHANGED calls ELSE Spawn(SnapshotRequest(b))
               ELSE LogFree(n) /\ Spawn(AppendRequest(n, p, b))
  /\ GoTo(n, [b EXCEPT !.i = @ + 1])
  /\ UNCHANGED <<stateVars, leaderState, indexVars, log, disk, electionVars, used>>

\* The bound on open calls: a request past it counts as lost.
SkipPeer(n) ==
  LET b == loop[n] IN
  /\ At(n, "send") /\ b.i <= Len(PeerSeq[n])
  /\ \A s \in Sender : Open(n, PeerSeq[n][b.i], s)
  /\ GoTo(n, [b EXCEPT !.i = @ + 1])
  /\ UNCHANGED <<stateVars, leaderState, indexVars, log, disk, calls, electionVars, used>>

EndHeartbeat(n) ==
  /\ At(n, "send") /\ loop[n].i > Len(PeerSeq[n])
  /\ Goto(n, "commit")
  /\ UNCHANGED <<stateVars, leaderState, indexVars, log, disk, calls, electionVars, used>>

-----------------------------------------------------------------------------
(* append_entries at m.to. *)

Reply(m, r) == calls' = (calls \ {m}) \cup {[m EXCEPT !.reply = r]}

Received(m, kind) == m.reply = Nil /\ m.req.kind = kind /\ Unlocked(m.to)

RejectStaleAppend(m) ==
  /\ Received(m, "append") /\ m.req.term < term[m.to]
  /\ Reply(m, [term |-> term[m.to], success |-> FALSE, match |-> 0])
  /\ UNCHANGED <<stateVars, leaderState, indexVars, log, disk, loop, electionVars, used>>

\* A newer term, or a candidate in the same term, yields to the sender; a leader in
\* the same term does not.
YieldTo(m) ==
  LET p == m.to IN
  IF m.req.term > term[p] \/ role[p] = "Candidate"
  THEN BecomeFollower(p, m.req.term, m.from)
  ELSE /\ leaderId' = [leaderId EXCEPT ![p] = m.from]
       /\ UNCHANGED <<role, term, vote>>

\* With the state in hand the handler waits for a log that apply holds, while apply
\* waits for the state.
Wedge(m) ==
  /\ m.reply = Nil /\ Unlocked(m.to) /\ m.req.term >= term[m.to] /\ LogHeld(m.to)
  /\ YieldTo(m)
  /\ frozen' = [frozen EXCEPT ![m.to] = <<m.from, m.slot>>]
  /\ UNCHANGED <<leaderState, indexVars, log, disk, loop, calls, campaignVars, used>>

\* Nothing is saved on this path, although the term may have changed.
MismatchAppend(m) ==
  LET p == m.to  q == m.req IN
  /\ Received(m, "append") /\ q.term >= term[p] /\ ~LogHeld(p)
  /\ ~MatchEntry(log[p], q.prevIdx, q.prevTerm)
  /\ YieldTo(m)
  /\ Reply(m, [term |-> q.term, success |-> FALSE, match |-> LastIndex(log[p])])
  /\ UNCHANGED <<leaderState, indexVars, log, disk, loop, electionVars, used>>

\* Mutant of Merge: nothing is cut off.
MergeAppend(l, es) == AppendAll(l, es)

\* Whatever the log holds from the first new entry on is cut off, conflict or not.
Merge(l, es) == IF es = <<>> THEN l ELSE AppendAll(Truncate(l, es[1].index), es)

\* The answer and the commit index are taken from the end of the log, not from the
\* end of what the request covers.
AcceptAppend(m) ==
  LET p == m.to  q == m.req
      l == Merge(log[p], q.entries)
      last == LastIndex(l)
  IN
  /\ Received(m, "append") /\ q.term >= term[p] /\ ~LogHeld(p)
  /\ MatchEntry(log[p], q.prevIdx, q.prevTerm)
  /\ YieldTo(m)
  /\ log' = [log EXCEPT ![p] = l]
  /\ commit' = [commit EXCEPT ![p] = IF q.commit > 0 THEN Smaller(q.commit, last) ELSE @]
  /\ disk' = [disk EXCEPT ![p] = PersistentData(term'[p], vote'[p], l)]
  /\ Reply(m, [term |-> q.term, success |-> TRUE, match |-> last])
  /\ UNCHANGED <<leaderState, applied, machine, loop, electionVars, used>>

-----------------------------------------------------------------------------
(* install_snapshot at m.to. *)

RejectStaleSnapshot(m) ==
  /\ Received(m, "snapshot") /\ m.req.term < term[m.to]
  /\ Reply(m, [term |-> term[m.to]])
  /\ UNCHANGED <<stateVars, leaderState, indexVars, log, disk, loop, electionVars, used>>

InstallSnapshot(m) ==
  LET p == m.to  q == m.req
      l == ApplySnapshot(log[p], q.lastIdx, q.lastTerm)
  IN
  /\ Received(m, "snapshot") /\ q.term >= term[p] /\ ~LogHeld(p)
  /\ YieldTo(m)
  /\ IF q.lastIdx > log[p].snapIdx
     THEN /\ machine' = [machine EXCEPT ![p] = q.data]
          /\ log' = [log EXCEPT ![p] = l]
          /\ applied' = [applied EXCEPT ![p] = q.lastIdx]
          /\ commit' = [commit EXCEPT ![p] = Larger(@, q.lastIdx)]
          /\ disk' = [disk EXCEPT ![p] =
               [PersistentData(term'[p], vote'[p], l) EXCEPT !.snap = q.data]]
     ELSE UNCHANGED <<indexVars, log, disk>>
  /\ Reply(m, [term |-> q.term])
  /\ UNCHANGED <<leaderState, loop, electionVars, used>>

-----------------------------------------------------------------------------
(* The answers, at the sender, and calls that fail. *)

Answer(m) == m.reply # Nil /\ Unlocked(m.from) /\ calls' = calls \ {m}

NewerTermAnswer(m) ==
  /\ Answer(m) /\ m.reply.term > term[m.from]
  /\ BecomeFollower(m.from, m.reply.term, Nil)
  /\ UNCHANGED <<leaderState, indexVars, log, disk, loop, electionVars, used>>

\* Mutant of Matched: next_index is one too low.
MatchedHere(n, p, i) ==
  leaderState' = [leaderState EXCEPT ![n] =
    [next |-> [@.next EXCEPT ![p] = i], match |-> [@.match EXCEPT ![p] = i]]]

\* Neither the role nor the term the request was sent in is looked at; leader_state
\* is there as soon as the node has been a leader once.
Matched(n, p, i) ==
  leaderState' = [leaderState EXCEPT ![n] =
    [next |-> [@.next EXCEPT ![p] = i + 1], match |-> [@.match EXCEPT ![p] = i]]]

AppendAnswer(m) ==
  LET n == m.from  p == m.to IN
  /\ Answer(m) /\ m.req.kind = "append" /\ m.reply.term <= term[n]
  /\ IF leaderState[n] = Nil THEN UNCHANGED leaderState
     ELSE IF m.reply.success THEN Matched(n, p, m.reply.match)
     ELSE leaderState' = [leaderState EXCEPT ![n].next[p] = IF @ > 1 THEN @ - 1 ELSE @]
  /\ UNCHANGED <<stateVars, indexVars, log, disk, loop, electionVars, used>>

SnapshotAnswer(m) ==
  /\ Answer(m) /\ m.req.kind = "snapshot" /\ m.reply.term <= term[m.from]
  /\ IF leaderState[m.from] = Nil THEN UNCHANGED leaderState
     ELSE Matched(m.from, m.to, m.req.lastIdx)
  /\ UNCHANGED <<stateVars, indexVars, log, disk, loop, electionVars, used>>

\* Mutant of CallFails: the handler stays, with the lock.
CallFailsAlone(m) ==
  /\ Spend("fail")
  /\ calls' = calls \ {m}
  /\ UNCHANGED <<stateVars, leaderState, indexVars, log, disk, loop, electionVars>>

\* The request or the answer is lost; a handler that hangs with it is dropped.
CallFails(m) ==
  /\ Spend("fail")
  /\ calls' = calls \ {m}
  /\ frozen' = [frozen EXCEPT ![m.to] = IF @ = <<m.from, m.slot>> THEN Nil ELSE @]
  /\ UNCHANGED <<stateVars, leaderState, indexVars, log, disk, loop, campaignVars>>

-----------------------------------------------------------------------------
(* update_commit_index. *)

ReadMatch(n) ==
  /\ At(n, "commit") /\ Unlocked(n)
  /\ IF role[n] = "Leader" /\ leaderState[n] # Nil
     THEN GoTo(n, [pc |-> "tally", term |-> term[n], match |-> leaderState[n].match,
                   commit |-> commit[n]])
     ELSE Goto(n, "apply")
  /\ UNCHANGED <<stateVars, leaderState, indexVars, log, disk, calls, electionVars, used>>

\* Mutants of Committable: nobody is counted; the scan starts one index late.
CommittableAlone(n, b) ==
  {i \in (b.commit + 1)..LastIndex(log[n]) : TermAt(log[n], i) = b.term}
CommittableLater(n, b) ==
  {i \in (b.commit + 2)..LastIndex(log[n]) :
     /\ TermAt(log[n], i) = b.term
     /\ 1 + Cardinality({p \in Node \ {n} : b.match[p] >= i}) >= Majority(n)}

\* The indexes that count as replicated on a majority: the term is the one captured,
\* the leader itself always counts.
Committable(n, b) ==
  {i \in (b.commit + 1)..LastIndex(log[n]) :
     /\ TermAt(log[n], i) = b.term
     /\ 1 + Cardinality({p \in Node \ {n} : b.match[p] >= i}) >= Majority(n)}

\* The scan takes the lock of the log anew for every index; here it is one look.
Tally(n) ==
  LET C == Committable(n, loop[n]) IN
  /\ At(n, "tally") /\ LogFree(n)
  /\ \/ C = {} /\ Goto(n, "apply")
     \/ \E i \in C : /\ \A j \in C : j <= i
                     /\ GoTo(n, [pc |-> "advance", upTo |-> i])
  /\ UNCHANGED <<stateVars, leaderState, indexVars, log, disk, calls, electionVars, used>>

\* commit_index is set: role, term and the present commit_index are not looked at.
AdvanceCommit(n) ==
  /\ At(n, "advance") /\ Unlocked(n)
  /\ commit' = [commit EXCEPT ![n] = loop[n].upTo]
  /\ Goto(n, "apply")
  /\ UNCHANGED <<stateVars, leaderState, applied, machine, log, disk, calls,
                 electionVars, used>>

-----------------------------------------------------------------------------
(* apply_committed_entries. *)

\* Mutant of ReadCommit: commit_index and last_applied are not compared.
ReadCommitAlways(n) ==
  /\ At(n, "apply") /\ Unlocked(n)
  /\ GoTo(n, [pc |-> "applying", from |-> applied[n], upTo |-> commit[n]])
  /\ UNCHANGED <<stateVars, leaderState, indexVars, log, disk, calls, electionVars, used>>

ReadCommit(n) ==
  /\ At(n, "apply") /\ Unlocked(n)
  /\ IF commit[n] <= applied[n] THEN Goto(n, "check")
     ELSE GoTo(n, [pc |-> "applying", from |-> applied[n], upTo |-> commit[n]])
  /\ UNCHANGED <<stateVars, leaderState, indexVars, log, disk, calls, electionVars, used>>

\* The commands from+1 to upTo; an index the log does not hold is passed over.
Commands(n, from, upTo) ==
  LET low == Larger(from, log[n].snapIdx)  high == Smaller(upTo, LastIndex(log[n])) IN
  [k \in 1..(high - low) |-> EntryAt(log[n], low + k).cmd]

\* The commands are applied with the log in hand ...
ApplyEntries(n) ==
  LET b == loop[n] IN
  /\ At(n, "applying") /\ LogFree(n)
  /\ machine' = [machine EXCEPT ![n] = @ \o Commands(n, b.from, b.upTo)]
  /\ GoTo(n, [pc |-> "applied", upTo |-> b.upTo])
  /\ UNCHANGED <<stateVars, leaderState, commit, applied, log, disk, calls, electionVars,
                 used>>

\* ... which is kept until last_applied is set.
SetApplied(n) ==
  /\ At(n, "applied") /\ Unlocked(n)
  /\ applied' = [applied EXCEPT ![n] = loop[n].upTo]
  /\ Goto(n, "check")
  /\ UNCHANGED <<stateVars, leaderState, commit, machine, log, disk, calls, electionVars,
                 used>>

-----------------------------------------------------------------------------
(* should_snapshot and create_snapshot. *)

\* Mutant of CheckSnapshot: the snapshot point is the end of the log.
CheckSnapshotAtEnd(n) ==
  /\ At(n, "check") /\ Unlocked(n)
  /\ IF Len(log[n].entries) >= Threshold
     THEN GoTo(n, [pc |-> "snapshot", upTo |-> LastIndex(log[n])]) ELSE Goto(n, "idle")
  /\ UNCHANGED <<stateVars, leaderState, indexVars, log, disk, calls, electionVars, used>>

\* The snapshot point is the commit index, whatever has been applied.
CheckSnapshot(n) ==
  /\ At(n, "check") /\ LogFree(n)
  /\ IF Len(log[n].entries) >= Threshold
     THEN /\ Unlocked(n)
          /\ IF commit[n] = 0 THEN Goto(n, "idle")
                              ELSE GoTo(n, [pc |-> "snapshot", upTo |-> commit[n]])
     ELSE Goto(n, "idle")
  /\ UNCHANGED <<stateVars, leaderState, indexVars, log, disk, calls, electionVars, used>>

TakeSnapshot(n) ==
  LET i == loop[n].upTo IN
  /\ At(n, "snapshot") /\ LogFree(n)
  /\ IF i <= log[n].snapIdx THEN Goto(n, "idle")
     ELSE GoTo(n, [pc |-> "copy", upTo |-> i, term |-> TermAt(log[n], i)])
  /\ UNCHANGED <<stateVars, leaderState, indexVars, log, disk, calls, electionVars, used>>

\* The copy of the KV store: no lock ties it to the index chosen before.
CopyStore(n) ==
  LET b == loop[n] IN
  /\ At(n, "copy")
  /\ GoTo(n, [pc |-> "compact", upTo |-> b.upTo, term |-> b.term, data |-> machine[n]])
  /\ UNCHANGED <<stateVars, leaderState, indexVars, log, disk, calls, electionVars, used>>

Compact(n) ==
  LET b == loop[n] IN
  /\ At(n, "compact") /\ LogFree(n)
  /\ log' = [log EXCEPT ![n] = ApplySnapshot(@, b.upTo, b.term)]
  /\ GoTo(n, [pc |-> "store", data |-> b.data])
  /\ UNCHANGED <<stateVars, leaderState, indexVars, disk, calls, electionVars, used>>

\* Term, vote and log are copied under the lock ...
CopySnapshot(n) ==
  /\ At(n, "store") /\ Unlocked(n)
  /\ GoTo(n, [pc |-> "save",
       data |-> [PersistentData(term[n], vote[n], log[n]) EXCEPT !.snap = loop[n].data]])
  /\ UNCHANGED <<stateVars, leaderState, indexVars, log, disk, calls, electionVars, used>>

\* ... and saved without it, whatever has been saved since.
SaveSnapshot(n) ==
  /\ At(n, "save")
  /\ disk' = [disk EXCEPT ![n] = loop[n].data]
  /\ Goto(n, "idle")
  /\ UNCHANGED <<stateVars, leaderState, indexVars, log, calls, electionVars, used>>

-----------------------------------------------------------------------------
LoopStep(n) ==
  \/ IdlePass(n) \/ BeginHeartbeat(n) \/ ReadSnapshot(n)
  \/ \E s \in Sender : SendToPeer(n, s)
  \/ SkipPeer(n) \/ EndHeartbeat(n)
  \/ ReadMatch(n) \/ Tally(n) \/ AdvanceCommit(n)
  \/ ReadCommit(n) \/ ApplyEntries(n) \/ SetApplied(n)
  \/ CheckSnapshot(n) \/ TakeSnapshot(n) \/ CopyStore(n) \/ Compact(n)
  \/ CopySnapshot(n) \/ SaveSnapshot(n)

Handled(m) ==
  \/ Wedge(m)
  \/ RejectStaleAppend(m) \/ MismatchAppend(m) \/ AcceptAppend(m)
  \/ RejectStaleSnapshot(m) \/ InstallSnapshot(m)
  \/ NewerTermAnswer(m) \/ AppendAnswer(m) \/ SnapshotAnswer(m)
=============================================================================
