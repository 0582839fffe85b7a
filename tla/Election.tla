------------------------------ MODULE Election ------------------------------
(***************************************************************************)
(* Elections and leadership transfer: raft/election.rs and the handlers of *)
(* raft/rpc.rs that call it.                                               *)
(*                                                                         *)
(* A campaign is one run of start_election (task Loop) or of               *)
(* handle_timeout_now (a task in Handler).  It asks the peers one after    *)
(* the other and waits for each answer without a time-out.  Its stages:    *)
(*   pre     asking peer i for a PreVote          (Loop only)              *)
(*   begin   a candidate, about to copy its state (Handler only)           *)
(*   save    about to save the copy of its state                           *)
(*   ask     about to be heard by peer i, or past the last peer            *)
(*   saving  peer i has granted its vote and is about to save              *)
(*   saved   peer i has saved and is about to read the term it answers     *)
(*   wait    peer i has denied its vote: it waits for its own lock         *)
(*   got     the answer of peer i has arrived                              *)
(***************************************************************************)
EXTENDS RaftState

Peer(n, c)       == PeerSeq[n][c.i]
PeersLeft(n, c)  == c.i <= Len(PeerSeq[n])
HasMajority(n, c) == Cardinality(c.yes) >= Majority(n)
Running(n, t)    == camp[n][t] # Nil

Campaign(stage, n) ==
  [st |-> stage, term |-> 0, lastTerm |-> 0, lastIdx |-> 0, i |-> 1, yes |-> {n},
   data |-> Nil, reply |-> Nil, caller |-> Nil]

SetCamp(n, t, c) == camp' = [camp EXCEPT ![n][t] = c]

\* The task of campaign t goes on: the main loop to its apply step, a
\* handle_timeout_now handler nowhere.
Leave(n, t) == IF t = Loop THEN [loop EXCEPT ![n] = [pc |-> "apply"]] ELSE loop

-----------------------------------------------------------------------------
(* start_election: the PreVote round.  The read of the term and the read of
   the log that follows it are one step; they only feed the probe. *)

StartElection(n) ==
  /\ loop[n].pc = "idle" /\ n \in Campaigner
  /\ Unlocked(n) /\ role[n] # "Leader"
  /\ term[n] < MaxTerm
  /\ loop' = [loop EXCEPT ![n] = [pc |-> "elect"]]
  /\ SetCamp(n, Loop, [Campaign("pre", n) EXCEPT
       !.term = term[n] + 1, !.lastTerm = LastTerm(log[n]), !.lastIdx = LastIndex(log[n])])
  /\ UNCHANGED <<stateVars, leaderState, indexVars, log, disk, xfer, frozen, calls,
                 ballots, wins, used>>

GrantsPreVote(v, c) ==
  /\ c.term >= term[v]
  /\ role[v] # "Leader"
  /\ UpToDate(c.lastTerm, c.lastIdx, log[v])

\* handle_pre_vote reads and answers; the caller has nothing to do but wait.
PreVote(n) ==
  LET c == camp[n][Loop] IN
  /\ Running(n, Loop) /\ c.st = "pre" /\ PeersLeft(n, c)
  /\ Unlocked(Peer(n, c))
  /\ SetCamp(n, Loop, [c EXCEPT !.i = @ + 1,
       !.yes = IF GrantsPreVote(Peer(n, c), c) THEN @ \cup {Peer(n, c)} ELSE @])
  /\ UNCHANGED <<stateVars, leaderState, indexVars, log, disk, loop, xfer, frozen,
                 calls, ballots, wins, used>>

PreVoteLost(n) ==
  LET c == camp[n][Loop] IN
  /\ Running(n, Loop) /\ c.st = "pre" /\ ~PeersLeft(n, c) /\ ~HasMajority(n, c)
  /\ SetCamp(n, Loop, Nil)
  /\ loop' = Leave(n, Loop)
  /\ UNCHANGED <<stateVars, leaderState, indexVars, log, disk, xfer, frozen, calls,
                 ballots, wins, used>>

-----------------------------------------------------------------------------
(* start_real_election, and the same steps of handle_timeout_now. *)

\* The copy that will be saved is taken in the section that makes the candidate.
\* The role the loop saw, and the term PreVote was won for, are not looked at.
StartRealElection(n) ==
  LET c == camp[n][Loop] IN
  /\ Running(n, Loop) /\ c.st = "pre" /\ ~PeersLeft(n, c) /\ HasMajority(n, c)
  /\ Unlocked(n) /\ term[n] < MaxTerm
  /\ BecomeCandidate(n)
  /\ SetCamp(n, Loop, [Campaign("save", n) EXCEPT
       !.term = term[n] + 1, !.data = PersistentData(term[n] + 1, n, log[n])])
  /\ UNCHANGED <<leaderState, indexVars, log, disk, loop, xfer, frozen, calls, wins, used>>

\* handle_timeout_now copies its state, and takes the term it will campaign for
\* from the copy, in a second section of the lock.
CopyState(n, t) ==
  LET c == camp[n][t] IN
  /\ Running(n, t) /\ c.st = "begin" /\ Unlocked(n)
  /\ SetCamp(n, t, [c EXCEPT !.st = "save", !.term = term[n],
                             !.data = PersistentData(term[n], vote[n], log[n])])
  /\ UNCHANGED <<stateVars, leaderState, indexVars, log, disk, loop, xfer, frozen,
                 calls, ballots, wins, used>>

\* The save, then the look at the log the requests are made from.
SaveCandidate(n, t) ==
  LET c == camp[n][t] IN
  /\ Running(n, t) /\ c.st = "save" /\ LogFree(n)
  /\ disk' = [disk EXCEPT ![n] = c.data]
  /\ SetCamp(n, t, [c EXCEPT !.st = "ask", !.data = Nil,
                    !.lastTerm = LastTerm(log[n]), !.lastIdx = LastIndex(log[n])])
  /\ UNCHANGED <<stateVars, leaderState, indexVars, log, loop, xfer, frozen, calls,
                 ballots, wins, used>>

\* A vote answer.  The main loop's campaign ends when it shows a newer term; a
\* handle_timeout_now campaign does not look at the term.
ReceiveVote(n, t) ==
  LET c == camp[n][t]  r == c.reply IN
  /\ Running(n, t) /\ c.st = "got"
  /\ IF t = Loop /\ r.term > c.term
     THEN /\ Unlocked(n)
          /\ BecomeFollower(n, r.term, Nil)
          /\ SetCamp(n, t, Nil)
          /\ loop' = Leave(n, t)
     ELSE /\ SetCamp(n, t, [c EXCEPT !.st = "ask", !.i = @ + 1, !.reply = Nil,
               !.yes = IF r.granted THEN @ \cup {Peer(n, c)} ELSE @])
          /\ UNCHANGED <<stateVars, loop>>
  /\ UNCHANGED <<leaderState, indexVars, log, disk, xfer, frozen, calls, ballots, wins, used>>

\* All the peers have been asked: a majority makes a leader, unconditionally.
FinishCampaign(n, t) ==
  LET c == camp[n][t] IN
  /\ Running(n, t) /\ c.st = "ask" /\ ~PeersLeft(n, c)
  /\ IF HasMajority(n, c)
     THEN /\ Unlocked(n)
          /\ BecomeLeader(n)
          /\ wins' = wins \cup {[node |-> n, task |-> t, term |-> c.term, at |-> term[n]]}
     ELSE UNCHANGED <<stateVars, leaderState, wins>>
  /\ SetCamp(n, t, Nil)
  /\ loop' = Leave(n, t)
  /\ xfer' = IF t = Loop THEN xfer
             ELSE [xfer EXCEPT ![c.caller] = [@ EXCEPT !.st = "got", !.reply = c.term]]
  /\ UNCHANGED <<indexVars, log, disk, frozen, calls, ballots, used>>

-----------------------------------------------------------------------------
(* handle_request_vote at peer v of campaign <<n, t>>. *)

Asked(n, t, v) ==
  LET c == camp[n][t] IN
  Running(n, t) /\ c.st = "ask" /\ PeersLeft(n, c) /\ v = Peer(n, c) /\ Unlocked(v)

RejectStaleVote(n, t, v) ==
  /\ Asked(n, t, v)
  /\ camp[n][t].term < term[v]
  /\ SetCamp(n, t, [camp[n][t] EXCEPT !.st = "got",
                    !.reply = [term |-> term[v], granted |-> FALSE]])
  /\ UNCHANGED <<stateVars, leaderState, indexVars, log, disk, loop, xfer, frozen,
                 calls, ballots, wins, used>>

\* Mutant of VoteIn: the vote is cleared in the same term, too.
VoteReset(v, t) == IF t >= term[v] THEN Nil ELSE vote[v]

\* The vote of v in the term of the request, once a newer term has cleared it.
VoteIn(v, t) == IF t > term[v] THEN Nil ELSE vote[v]

CanVote(n, t, v) ==
  LET c == camp[n][t] IN
  VoteIn(v, c.term) \in {Nil, n} /\ UpToDate(c.lastTerm, c.lastIdx, log[v])

\* Mutant of JoinTerm: the newer term is not taken over.
JoinNothing(n, t, v) == UNCHANGED <<term, role, leaderId>>

\* The term is taken over from the request, leader_id is not touched.
JoinTerm(n, t, v) ==
  LET q == camp[n][t].term IN
  /\ term' = [term EXCEPT ![v] = Larger(@, q)]
  /\ role' = [role EXCEPT ![v] = IF q > term[v] THEN "Follower" ELSE @]
  /\ UNCHANGED leaderId

\* The vote is recorded and the state copied under the lock; the save comes later.
GrantVote(n, t, v) ==
  LET q == camp[n][t].term IN
  /\ Asked(n, t, v) /\ q >= term[v] /\ CanVote(n, t, v)
  /\ JoinTerm(n, t, v)
  /\ vote' = [vote EXCEPT ![v] = n]
  /\ ballots' = ballots \cup {<<v, q, n>>}
  /\ SetCamp(n, t, [camp[n][t] EXCEPT !.st = "saving",
                    !.data = PersistentData(q, n, log[v])])
  /\ UNCHANGED <<leaderState, indexVars, log, disk, loop, xfer, frozen, calls, wins, used>>

\* Without a grant the write guard is still held where the handler takes the lock
\* again to read the term it answers: v waits for itself.
DenyVote(n, t, v) ==
  LET q == camp[n][t].term IN
  /\ Asked(n, t, v) /\ q >= term[v] /\ ~CanVote(n, t, v)
  /\ JoinTerm(n, t, v)
  /\ vote' = [vote EXCEPT ![v] = VoteIn(v, q)]
  /\ frozen' = [frozen EXCEPT ![v] = <<n, t>>]
  /\ SetCamp(n, t, [camp[n][t] EXCEPT !.st = "wait"])
  /\ UNCHANGED <<leaderState, indexVars, log, disk, loop, xfer, calls, ballots, wins, used>>

SaveVote(n, t) ==
  LET c == camp[n][t] IN
  /\ Running(n, t) /\ c.st = "saving"
  /\ disk' = [disk EXCEPT ![Peer(n, c)] = c.data]
  /\ SetCamp(n, t, [c EXCEPT !.st = "saved", !.data = Nil])
  /\ UNCHANGED <<stateVars, leaderState, indexVars, log, loop, xfer, frozen, calls,
                 ballots, wins, used>>

\* The answer carries the term v has by now.
AnswerVote(n, t) ==
  LET c == camp[n][t] IN
  /\ Running(n, t) /\ c.st = "saved" /\ Unlocked(Peer(n, c))
  /\ SetCamp(n, t, [c EXCEPT !.st = "got",
                    !.reply = [term |-> term[Peer(n, c)], granted |-> TRUE]])
  /\ UNCHANGED <<stateVars, leaderState, indexVars, log, disk, loop, xfer, frozen,
                 calls, ballots, wins, used>>

-----------------------------------------------------------------------------
(* Failing calls.  When a connection breaks the caller goes on with an error
   and the server drops the handler: its locks are released, and its save
   happens or does not. *)

Calling(n, t) ==
  LET c == camp[n][t] IN
  Running(n, t) /\ (\/ c.st \in {"pre", "ask"} /\ PeersLeft(n, c)
                   \/ c.st \in {"saving", "saved", "wait"})

\* Mutant of Release: the guard of a dropped handler stays locked.
ReleaseNothing(S) == UNCHANGED frozen

Release(S) == frozen' = [v \in Node |-> IF frozen[v] \in S THEN Nil ELSE frozen[v]]

DropSave(n, t) ==
  LET c == camp[n][t] IN
  \/ UNCHANGED disk
  \/ /\ Running(n, t) /\ c.st = "saving"
     /\ disk' = [disk EXCEPT ![Peer(n, c)] = c.data]

VoteCallFails(n, t) ==
  LET c == camp[n][t] IN
  /\ Calling(n, t) /\ Spend("fail")
  /\ SetCamp(n, t, [c EXCEPT !.i = @ + 1, !.data = Nil,
                             !.st = IF c.st = "pre" THEN "pre" ELSE "ask"])
  /\ Release({<<n, t>>})
  /\ DropSave(n, t)
  /\ UNCHANGED <<stateVars, leaderState, indexVars, log, loop, xfer, calls, ballots, wins>>

-----------------------------------------------------------------------------
(* transfer_leader at n, and handle_timeout_now at its target p. *)

\* match_index and the log are compared in one section of the lock (the refusal of an
\* older term, in the handler in front of it, is not looked at) ...
TransferLeader(n, p) ==
  /\ xfer[n] = Nil /\ Spend("transfer")
  /\ Unlocked(n) /\ role[n] = "Leader" /\ p # n
  /\ leaderState[n] # Nil /\ leaderState[n].match[p] >= LastIndex(log[n])
  /\ xfer' = [xfer EXCEPT ![n] = [st |-> "checked", target |-> p, term |-> 0, reply |-> 0]]
  /\ UNCHANGED <<stateVars, leaderState, indexVars, log, disk, loop, camp, frozen,
                 calls, ballots, wins>>

\* ... and the term of the TimeoutNow request is read in another.
SendTimeoutNow(n) ==
  /\ xfer[n] # Nil /\ xfer[n].st = "checked" /\ Unlocked(n)
  /\ xfer' = [xfer EXCEPT ![n].st = "sent", ![n].term = term[n]]
  /\ UNCHANGED <<stateVars, leaderState, indexVars, log, disk, loop, camp, frozen,
                 calls, ballots, wins, used>>

RejectTimeoutNow(n) ==
  LET p == xfer[n].target IN
  /\ xfer[n] # Nil /\ xfer[n].st = "sent" /\ Unlocked(p)
  /\ xfer[n].term < term[p]
  /\ xfer' = [xfer EXCEPT ![n].st = "got", ![n].reply = term[p]]
  /\ UNCHANGED <<stateVars, leaderState, indexVars, log, disk, loop, camp, frozen,
                 calls, ballots, wins, used>>

HandleTimeoutNow(n, t) ==
  LET p == xfer[n].target IN
  /\ xfer[n] # Nil /\ xfer[n].st = "sent" /\ Unlocked(p)
  /\ xfer[n].term >= term[p] /\ term[p] < MaxTerm
  /\ ~Running(p, t)
  /\ BecomeCandidate(p)
  /\ SetCamp(p, t, [Campaign("begin", p) EXCEPT !.caller = n])
  /\ xfer' = [xfer EXCEPT ![n].st = "wait"]
  /\ UNCHANGED <<leaderState, indexVars, log, disk, loop, frozen, calls, wins, used>>

\* A newer term in the answer is taken over first ...
ReceiveTimeoutNow(n) ==
  LET x == xfer[n] IN
  /\ x # Nil /\ x.st = "got"
  /\ IF x.reply > x.term THEN Unlocked(n) /\ BecomeFollower(n, x.reply, x.target)
                         ELSE UNCHANGED stateVars
  /\ xfer' = [xfer EXCEPT ![n].st = "down"]
  /\ UNCHANGED <<leaderState, indexVars, log, disk, loop, camp, frozen, calls, ballots,
                 wins, used>>

\* ... then n steps down, whatever it has become in the meantime.
StepDown(n) ==
  LET x == xfer[n] IN
  /\ x # Nil /\ x.st = "down" /\ Unlocked(n)
  /\ BecomeFollower(n, x.term, x.target)
  /\ xfer' = [xfer EXCEPT ![n] = Nil]
  /\ UNCHANGED <<leaderState, indexVars, log, disk, loop, camp, frozen, calls, ballots,
                 wins, used>>

\* Mutant of Served: a handler outlives the call it answers.
ServedByNone(n) == {}

\* The handle_timeout_now tasks that work for n's TimeoutNow call.
Served(n) == {pt \in Node \X Handler : Running(pt[1], pt[2]) /\ camp[pt[1]][pt[2]].caller = n}

EndCampaigns(S) ==
  camp' = [p \in Node |-> [t \in Task |-> IF <<p, t>> \in S THEN Nil ELSE camp[p][t]]]

\* The TimeoutNow call breaks: no stepping down, and the target's handler ends
\* where it is, dropping the vote call it waits for.
TimeoutNowFails(n) ==
  /\ xfer[n] # Nil /\ xfer[n].st \in {"sent", "wait"} /\ Spend("fail")
  /\ xfer' = [xfer EXCEPT ![n] = Nil]
  /\ EndCampaigns(Served(n)) /\ Release(Served(n))
  /\ IF Served(n) = {} THEN UNCHANGED disk ELSE \E pt \in Served(n) : DropSave(pt[1], pt[2])
  /\ UNCHANGED <<stateVars, leaderState, indexVars, log, loop, calls, ballots, wins>>

-----------------------------------------------------------------------------
CampaignStep(n, t) ==
  \/ SaveCandidate(n, t) \/ ReceiveVote(n, t) \/ FinishCampaign(n, t)
  \/ \E v \in Node : RejectStaleVote(n, t, v) \/ GrantVote(n, t, v) \/ DenyVote(n, t, v)
  \/ SaveVote(n, t) \/ AnswerVote(n, t)

ElectionStep(n) ==
  \/ StartElection(n) \/ PreVote(n) \/ PreVoteLost(n) \/ StartRealElection(n)
  \/ \E t \in Handler : CopyState(n, t)
  \/ \E t \in Task : CampaignStep(n, t) \/ VoteCallFails(n, t)
  \/ \E p \in Node : TransferLeader(n, p)
  \/ \E t \in Handler : HandleTimeoutNow(n, t)
  \/ SendTimeoutNow(n) \/ RejectTimeoutNow(n) \/ ReceiveTimeoutNow(n) \/ StepDown(n)
  \/ TimeoutNowFails(n)
=============================================================================
