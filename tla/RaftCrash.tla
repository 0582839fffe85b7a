------------------------------ MODULE RaftCrash -----------------------------
(***************************************************************************)
(* A cluster whose nodes stop and start again: main.rs builds the state of *)
(* a node from its file (storage.rs load, to_raft_state, to_log_store),    *)
(* everything else starts as on the first day.                             *)
(***************************************************************************)
EXTENDS Raft

\* The campaigns that wait for an answer of a handler of n.
CallersOf(n) ==
  {ct \in Node \X Task :
     LET c == camp[ct[1]][ct[2]] IN
     Running(ct[1], ct[2]) /\ c.st \in {"saving", "saved", "wait"} /\ Peer(ct[1], c) = n}

\* The nodes whose transfer_leader waits for a handle_timeout_now of n.
TransfersTo(n) ==
  {q \in Node : \E t \in Handler : Running(n, t) /\ camp[n][t].caller = q}

\* n stops and starts: what it was doing is gone, and the handlers at other nodes
\* that worked for it are dropped; those that waited for it go on with an error.
\* The snapshot data of the file is not given to the KV store, commit_index and
\* last_applied start from 0.
Restart(n) ==
  LET gone == Served(n) \cup {<<n, t>> : t \in Task}
      lost == gone \cup {<<n, s>> : s \in Sender}
      d    == disk[n]
  IN
  /\ Spend("crash")
  /\ role' = [role EXCEPT ![n] = "Follower"]
  /\ term' = [term EXCEPT ![n] = d.term]
  /\ vote' = [vote EXCEPT ![n] = d.vote]
  /\ log' = [log EXCEPT ![n] = d.log]
  /\ leaderId' = [leaderId EXCEPT ![n] = Nil]
  /\ leaderState' = [leaderState EXCEPT ![n] = Nil]
  /\ commit' = [commit EXCEPT ![n] = 0]
  /\ applied' = [applied EXCEPT ![n] = 0]
  /\ machine' = [machine EXCEPT ![n] = <<>>]
  /\ loop' = [loop EXCEPT ![n] = [pc |-> "idle"]]
  /\ camp' = [c \in Node |-> [t \in Task |->
       IF <<c, t>> \in gone THEN Nil
       ELSE IF <<c, t>> \in CallersOf(n)
       THEN [camp[c][t] EXCEPT !.i = @ + 1, !.data = Nil, !.st = "ask"]
       ELSE camp[c][t]]]
  /\ xfer' = [q \in Node |-> IF q \in {n} \cup TransfersTo(n) THEN Nil ELSE xfer[q]]
  /\ frozen' = [v \in Node |-> IF v = n \/ frozen[v] \in lost THEN Nil ELSE frozen[v]]
  /\ calls' = {m \in calls : m.from # n /\ (m.to = n => frozen[n] # <<m.from, m.slot>>)}
  /\ UNCHANGED <<disk, ballots, wins>>

NextCrash == Next \/ \E n \in Node : Restart(n)

SpecCrash == Init /\ [][NextCrash]_vars
=============================================================================
