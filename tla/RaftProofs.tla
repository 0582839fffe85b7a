------------------------------ MODULE RaftProofs -----------------------------
(***************************************************************************)
(* Safety of a cluster.                                                    *)
(*                                                                         *)
(* The first part is about every behaviour of RaftCrash: types, files and  *)
(* frozen nodes.  A restart resets what a node was doing and drops what    *)
(* others were doing with it, so each invariant has one more step to       *)
(* survive.  What holds with restarts holds without (RaftNeverCrashes).    *)
(*                                                                         *)
(* The second part is about terms with two leaders.  The third names the   *)
(* only steps of the code that can misplace entries of a log (Misfiles),   *)
(* or set last_applied back (InstallsUnasked): a behaviour without them    *)
(* keeps LogContiguous, or AppliedAdvances.                                *)
(*                                                                         *)
(* The fourth part is about log matching, while nodes stay up and their    *)
(* logs are too short for a snapshot.  The log of the leader of a term is  *)
(* the history of that term, and every log agrees, up to each of its       *)
(* entries, with the history of that entry's term.  Requests, open or      *)
(* late, are stretches of a history; so a log that is cut and filed anew   *)
(* by one is within the histories still.  It needs one leader a term,      *)
(* which the second part leaves to two conditions on wins (HonestWins).    *)
(***************************************************************************)
EXTENDS RaftCrash, ElectionProofs

-----------------------------------------------------------------------------
(* Types, with restarts. *)

\* A file is what it takes to start a node.
LEMMA FileTyped ==
  ASSUME DiskOK, NEW n \in Node
  PROVE  disk[n].term \in Term /\ disk[n].vote \in Option(Node) /\ disk[n].log \in Log(Cmd)
BY DEF DiskOK, Persistent

LEMMA RestartServer ==
  ASSUME TypeOK, NEW n \in Node, Restart(n)
  PROVE  ServerOK' /\ LeaderOK' /\ IndexOK' /\ LogOK' /\ DiskOK' /\ LoopOK' /\ PastOK'
<1> USE TypeParts, FileTyped
<1>1. ServerOK' BY DEF Restart, ServerOK, Role, Option
<1>2. LeaderOK' BY DEF Restart, LeaderOK, Option
<1>3. IndexOK' BY EmptySeq DEF Restart, IndexOK
<1>4. LogOK' BY DEF Restart, LogOK
<1>5. DiskOK' BY Unchanged DEF Restart
<1>6. LoopOK' BY DEF Restart, LoopOK, LoopState, Marker
<1>7. PastOK' BY SpendTypes DEF Restart
<1> QED BY <1>1, <1>2, <1>3, <1>4, <1>5, <1>6, <1>7

\* What a restart of n leaves of a campaign: nothing, all of it, or its next call.
LEMMA RestartCampaigns ==
  ASSUME CampOK, NEW n \in Node, Restart(n), NEW p \in Node, NEW t \in Task,
         camp'[p][t] # Nil
  PROVE  /\ Running(p, t) /\ p # n /\ <<p, t>> \notin Served(n)
         /\ \/ <<p, t>> \notin CallersOf(n) /\ camp'[p][t] = camp[p][t]
            \/ /\ <<p, t>> \in CallersOf(n)
               /\ camp'[p][t] = [camp[p][t] EXCEPT !.i = @ + 1, !.data = Nil, !.st = "ask"]
<1> DEFINE gone == Served(n) \cup {<<n, u>> : u \in Task}
<1>1. camp' = [c \in Node |-> [u \in Task |->
        IF <<c, u>> \in gone THEN Nil
        ELSE IF <<c, u>> \in CallersOf(n)
        THEN [camp[c][u] EXCEPT !.i = @ + 1, !.data = Nil, !.st = "ask"]
        ELSE camp[c][u]]]
  BY DEF Restart
<1>2. <<n, t>> \in gone OBVIOUS
<1>3. Served(n) \subseteq gone OBVIOUS
<1> HIDE DEF gone
<1>4. <<p, t>> \notin gone BY <1>1
<1>5. p # n /\ <<p, t>> \notin Served(n) BY <1>2, <1>3, <1>4
<1>6. CASE <<p, t>> \in CallersOf(n)
  <2>1. Running(p, t) BY <1>6 DEF CallersOf
  <2> QED BY <1>1, <1>4, <1>5, <1>6, <2>1
<1>7. CASE <<p, t>> \notin CallersOf(n)
  BY <1>1, <1>4, <1>5, <1>7 DEF Running
<1> QED BY <1>6, <1>7

\* The campaign that goes on to its next call has the shape of one that asks.
LEMMA NextCallTyped ==
  ASSUME NEW n \in Node, NEW t \in Task, NEW c \in CampaignRecord, CampaignShape(n, t, c),
         NEW d, d = [c EXCEPT !.i = @ + 1, !.data = Nil, !.st = "ask"]
  PROVE  d \in CampaignRecord /\ CampaignShape(n, t, d)
<1>1. c.i + 1 \in Nat \ {0} BY DEF CampaignRecord
<1>2. d \in CampaignRecord /\ d.st = "ask" /\ d.caller = c.caller
  BY <1>1 DEF CampaignRecord, CampaignStage, Option
<1>3. CampaignShape(n, t, d) BY <1>2 DEF CampaignShape
<1> QED BY <1>2, <1>3

LEMMA RestartTyped ==
  ASSUME TypeOK, NEW n \in Node, Restart(n)
  PROVE  CampOK' /\ WaitOK' /\ CallsOK'
<1> USE TypeParts
<1>1. CampOK'
  <2>1. ASSUME NEW p \in Node, NEW t \in Task, camp'[p][t] # Nil
        PROVE  camp'[p][t] \in CampaignRecord /\ CampaignShape(p, t, camp'[p][t])
    <3>1. Running(p, t) BY <2>1, RestartCampaigns
    <3>2. camp[p][t] \in CampaignRecord /\ CampaignShape(p, t, camp[p][t])
      BY <3>1, CampaignTyped
    <3>3. CASE camp'[p][t] = camp[p][t] BY <3>2, <3>3
    <3>4. CASE camp'[p][t] = [camp[p][t] EXCEPT !.i = @ + 1, !.data = Nil, !.st = "ask"]
      BY <3>2, <3>4, NextCallTyped
    <3> QED BY <2>1, <3>3, <3>4, RestartCampaigns
  <2>2. \E f : camp' = [p \in Node |-> [t \in Task |-> f[p][t]]]
    <3>1. camp' = [p \in Node |-> [t \in Task |-> camp'[p][t]]] BY DEF Restart
    <3> QED BY <3>1
  <2>3. camp' \in [Node -> [Task -> Option(CampaignRecord)]] BY <2>1, <2>2 DEF Option
  <2> QED BY <2>1, <2>3 DEF CampOK, Running
<1>2. WaitOK' BY DEF Restart, WaitOK, Option
<1>3. CallsOK' BY DEF Restart, CallsOK
<1> QED BY <1>1, <1>2, <1>3

\* The callers of the handlers that a restart leaves still wait: their handler is not
\* one of n's, and n is not its caller.
LEMMA RestartKeepsCallers ==
  ASSUME TypeOK, TransferWaits, NEW n \in Node, Restart(n)
  PROVE  TransferWaits'
<1> USE TypeParts
<1>1. ASSUME NEW p \in Node, NEW t \in Handler, camp'[p][t] # Nil
      PROVE  /\ Running(p, t) /\ camp'[p][t].caller = camp[p][t].caller
             /\ xfer'[camp[p][t].caller] = xfer[camp[p][t].caller]
  <2>1. t \in Task /\ t # Loop BY TaskAssumption DEF Task
  <2>2. Running(p, t) /\ p # n /\ <<p, t>> \notin Served(n) BY <1>1, <2>1, RestartCampaigns
  <2>3. camp[p][t] \in CampaignRecord /\ camp[p][t].caller \in Node
    BY <2>1, <2>2, CampaignTyped DEF CampaignShape
  <2>4. camp'[p][t].caller = camp[p][t].caller
    <3> DEFINE c == camp[p][t]
    <3>1. c \in CampaignRecord BY <2>3
    <3>2. \/ camp'[p][t] = c
          \/ camp'[p][t] = [c EXCEPT !.i = @ + 1, !.data = Nil, !.st = "ask"]
      BY <1>1, <2>1, RestartCampaigns
    <3> HIDE DEF c
    <3>3. camp'[p][t].caller = c.caller BY <3>1, <3>2 DEF CampaignRecord
    <3> QED BY <3>3 DEF c
  <2>5. camp[p][t].caller # n BY <2>2 DEF Served
  <2>6. camp[p][t].caller \notin TransfersTo(n) BY <2>2 DEF TransfersTo, TransferWaits
  <2> QED BY <2>2, <2>3, <2>4, <2>5, <2>6 DEF Restart
<1> QED BY <1>1 DEF TransferWaits, Running

LEMMA CrashTypes == TypeInv /\ [NextCrash]_vars => TypeInv'
<1> SUFFICES ASSUME TypeInv, [NextCrash]_vars PROVE TypeInv' OBVIOUS
<1>1. CASE [Next]_vars BY <1>1, NextTypes
<1>2. ASSUME NEW n \in Node, Restart(n) PROVE TypeInv'
  <2>1. TypeOK' BY <1>2, RestartServer, RestartTyped, TypePartsNext DEF TypeInv
  <2> QED BY <1>2, <2>1, RestartKeepsCallers DEF TypeInv
<1> QED BY <1>1, <1>2 DEF NextCrash

\* Types and waiting callers, with restarts: what a node starts from after a crash is
\* a state like any other (storage.rs load, main.rs).
THEOREM CrashTypeInvariant == SpecCrash => []TypeInv
BY InitTypes, CrashTypes, PTL DEF SpecCrash

\* A cluster whose nodes do not stop is one whose nodes may.
LEMMA RaftNeverCrashes == Spec => SpecCrash
<1>1. [Next]_vars => [NextCrash]_vars BY DEF NextCrash
<1> QED BY <1>1, PTL DEF Spec, SpecCrash

-----------------------------------------------------------------------------
(* Frozen nodes. *)

\* A main loop that campaigns is at its election, so no second campaign of its starts.
LoopElects == \A n \in Node : Running(n, Loop) => loop[n].pc = "elect"

FrozenInv == TypeInv /\ LoopElects /\ FrozenMeansWaiting

\* The three reasons a handler of v can hang: a denied vote, entries, a write.
CampaignWaits(v) ==
  \E n \in Node, t \in Task : /\ frozen[v] = <<n, t>> /\ Running(n, t)
                              /\ camp[n][t].st = "wait" /\ Peer(n, camp[n][t]) = v
CallWaits(v) ==
  \E m \in calls : frozen[v] = <<m.from, m.slot>> /\ m.to = v /\ m.reply = Nil /\ LogHeld(v)
ClientWaits(v) == frozen[v] = <<v, Client>>

LEMMA WaitingParts ==
  FrozenMeansWaiting <=>
    \A v \in Node : frozen[v] # Nil => CampaignWaits(v) \/ CallWaits(v) \/ ClientWaits(v)
BY DEF FrozenMeansWaiting, CampaignWaits, CallWaits, ClientWaits

LEMMA WaitingNext ==
  FrozenMeansWaiting' <=>
    \A v \in Node : frozen'[v] # Nil => (CampaignWaits(v) \/ CallWaits(v) \/ ClientWaits(v))'
BY DEF FrozenMeansWaiting, CampaignWaits, CallWaits, ClientWaits

\* A node nothing happens to waits on, for the same reason.
LEMMA StillWaits ==
  ASSUME NEW v \in Node, frozen'[v] = frozen[v],
         CampaignWaits(v) \/ CallWaits(v) \/ ClientWaits(v),
         \A p \in Node, u \in Task :
           frozen[v] = <<p, u>> /\ Running(p, u) /\ camp[p][u].st = "wait"
             /\ Peer(p, camp[p][u]) = v => camp'[p][u] = camp[p][u],
         \A m \in calls : frozen[v] = <<m.from, m.slot>> /\ m.to = v /\ m.reply = Nil
                            => m \in calls',
         LogHeld(v) => LogHeld(v)'
  PROVE  (CampaignWaits(v) \/ CallWaits(v) \/ ClientWaits(v))'
<1>1. CASE CampaignWaits(v)
  <2>1. PICK p \in Node, u \in Task :
          /\ frozen[v] = <<p, u>> /\ Running(p, u) /\ camp[p][u].st = "wait"
          /\ Peer(p, camp[p][u]) = v
    BY <1>1 DEF CampaignWaits
  <2>2. camp'[p][u] = camp[p][u] BY <2>1
  <2>3. CampaignWaits(v)' BY <2>1, <2>2 DEF CampaignWaits, Running, Peer
  <2> QED BY <2>3
<1>2. CASE CallWaits(v) BY <1>2 DEF CallWaits
<1>3. CASE ClientWaits(v) BY <1>3 DEF ClientWaits
<1> QED BY <1>1, <1>2, <1>3

\* A campaign that does not wait for an answer takes a step: nobody is frozen by it.
LEMMA OthersWait ==
  ASSUME CampOK, FrozenMeansWaiting, NEW n \in Node, NEW t \in Task, NEW c,
         SetCamp(n, t, c), UNCHANGED <<frozen, calls>>,
         Running(n, t) => camp[n][t].st # "wait",
         \A v \in Node : LogHeld(v) => LogHeld(v)'
  PROVE  FrozenMeansWaiting'
<1>1. ASSUME NEW v \in Node, frozen'[v] # Nil
      PROVE  (CampaignWaits(v) \/ CallWaits(v) \/ ClientWaits(v))'
  <2>1. CampaignWaits(v) \/ CallWaits(v) \/ ClientWaits(v) BY <1>1, WaitingParts
  <2>2. \A p \in Node, u \in Task :
          Running(p, u) /\ camp[p][u].st = "wait" => camp'[p][u] = camp[p][u]
    BY DEF SetCamp, CampOK
  <2> QED BY <2>1, <2>2, StillWaits
<1> QED BY <1>1, WaitingNext

\* The loop of a node goes on as it is while its campaign does, and ends with it.
LEMMA LoopFollows ==
  ASSUME CampOK, LoopOK, LoopElects, NEW n \in Node, NEW t \in Task, NEW c, SetCamp(n, t, c),
         \/ loop' = loop /\ (t = Loop => Running(n, t))
         \/ c = Nil /\ loop' = Leave(n, t)
  PROVE  LoopElects'
<1>0. Loop \in Task BY DEF Task
<1>1. ASSUME NEW p \in Node, camp'[p][Loop] # Nil
      PROVE  Running(p, Loop) /\ loop'[p] = loop[p]
  <2>1. CASE p = n /\ t = Loop
    <3>1. camp'[n][Loop] = c BY <1>0, <2>1 DEF SetCamp, CampOK
    <3> QED BY <1>1, <2>1, <3>1
  <2>2. CASE ~(p = n /\ t = Loop)
    <3>1. camp'[p][Loop] = camp[p][Loop] BY <1>0, <2>2 DEF SetCamp, CampOK
    <3>2. loop'[p] = loop[p] BY <2>2 DEF Leave, LoopOK
    <3> QED BY <1>1, <3>1, <3>2 DEF Running
  <2> QED BY <2>1, <2>2
<1> QED BY <1>1 DEF LoopElects, Running

\* A step of a campaign that goes on or ends, when it is not waiting.
LEMMA FrozenKept ==
  ASSUME TypeOK, LoopElects, FrozenMeansWaiting,
         NEW n \in Node, NEW t \in Task, NEW c, SetCamp(n, t, c), UNCHANGED <<frozen, calls>>,
         Running(n, t) => camp[n][t].st # "wait",
         \/ loop' = loop /\ (t = Loop => Running(n, t))
         \/ c = Nil /\ Running(n, t) /\ loop' = Leave(n, t)
  PROVE  LoopElects' /\ FrozenMeansWaiting'
<1>1. LoopElects' BY TypeParts, LoopFollows
<1>2. \A v \in Node : LogHeld(v) => LogHeld(v)'
  BY TypeParts DEF LoopOK, LoopElects, Leave, LogHeld, At
<1> QED BY <1>1, <1>2, TypeParts, OthersWait

\* What frees the nodes frozen by the campaigns S and ends, or moves on, those.
LEMMA ReleasedWait ==
  ASSUME WaitOK, FrozenMeansWaiting, NEW S, Release(S), UNCHANGED <<calls, loop>>,
         \A p \in Node, u \in Task : <<p, u>> \notin S => camp'[p][u] = camp[p][u]
  PROVE  FrozenMeansWaiting'
<1>1. ASSUME NEW v \in Node, frozen'[v] # Nil
      PROVE  (CampaignWaits(v) \/ CallWaits(v) \/ ClientWaits(v))'
  <2>1. frozen'[v] = frozen[v] /\ frozen[v] # Nil /\ frozen[v] \notin S
    BY <1>1 DEF Release
  <2>2. CampaignWaits(v) \/ CallWaits(v) \/ ClientWaits(v) BY <2>1, WaitingParts
  <2>3. LogHeld(v) => LogHeld(v)' BY DEF LogHeld, At
  <2> QED BY <2>1, <2>2, <2>3, StillWaits
<1> QED BY <1>1, WaitingNext

LEMMA DenyVoteFreezes ==
  ASSUME TypeOK, LoopElects, FrozenMeansWaiting,
         NEW n \in Node, NEW t \in Task, NEW v \in Node, DenyVote(n, t, v)
  PROVE  LoopElects' /\ FrozenMeansWaiting'
<1> USE TypeParts
<1> DEFINE c == camp[n][t]
           d == [c EXCEPT !.st = "wait"]
<1>1. /\ Running(n, t) /\ c.st = "ask" /\ v = Peer(n, c) /\ SetCamp(n, t, d)
      /\ loop' = loop /\ frozen' = [frozen EXCEPT ![v] = <<n, t>>]
  BY DEF DenyVote, Asked
<1>2. c \in CampaignRecord BY <1>1, CampaignTyped
<1>3. d.st = "wait" /\ Peer(n, d) = v /\ d # Nil
  <2>1. v = Peer(n, c) BY <1>1
  <2> HIDE DEF c
  <2>2. d \in CampaignRecord /\ d.st = "wait" /\ d.i = c.i
    BY <1>2 DEF CampaignRecord, CampaignStage
  <2> QED BY <2>1, <2>2, NoRecordIsNil DEF Peer
<1> HIDE DEF d
<1>4. LoopElects' BY <1>1, LoopFollows
<1>5. ASSUME NEW w \in Node, frozen'[w] # Nil
      PROVE  (CampaignWaits(w) \/ CallWaits(w) \/ ClientWaits(w))'
  <2>1. CASE w = v
    <3>1. frozen'[w] = <<n, t>> /\ camp'[n][t] = d
      BY <1>1, <2>1 DEF SetCamp, CampOK, WaitOK
    <3> QED BY <1>3, <2>1, <3>1 DEF CampaignWaits, Running, Peer
  <2>2. CASE w # v
    <3>1. frozen'[w] = frozen[w] BY <1>1, <2>2 DEF WaitOK
    <3>2. CampaignWaits(w) \/ CallWaits(w) \/ ClientWaits(w) BY <1>5, <3>1, WaitingParts
    <3>3. \A p \in Node, u \in Task :
            Running(p, u) /\ camp[p][u].st = "wait" => camp'[p][u] = camp[p][u]
      BY <1>1 DEF SetCamp, CampOK
    <3>4. UNCHANGED <<calls, loop>> BY DEF DenyVote
    <3>5. LogHeld(w) => LogHeld(w)' BY <3>4 DEF LogHeld, At
    <3> QED BY <3>1, <3>2, <3>3, <3>4, <3>5, StillWaits
  <2> QED BY <2>1, <2>2
<1>6. FrozenMeansWaiting' BY <1>5, WaitingNext
<1> QED BY <1>4, <1>6

\* The steps of one campaign.
LEMMA CampaignFrozen ==
  ASSUME TypeOK, LoopElects, FrozenMeansWaiting,
         NEW n \in Node, NEW t \in Task, CampaignStep(n, t) \/ VoteCallFails(n, t)
  PROVE  LoopElects' /\ FrozenMeansWaiting'
<1> USE TypeParts
<1>1. CASE SaveCandidate(n, t) BY <1>1, FrozenKept DEF SaveCandidate
<1>2. CASE SaveVote(n, t) BY <1>2, FrozenKept DEF SaveVote
<1>3. CASE AnswerVote(n, t) BY <1>3, FrozenKept DEF AnswerVote
<1>4. CASE FinishCampaign(n, t) BY <1>4, FrozenKept DEF FinishCampaign
<1>5. CASE ReceiveVote(n, t) BY <1>5, FrozenKept DEF ReceiveVote
<1>6. ASSUME NEW v \in Node, RejectStaleVote(n, t, v)
      PROVE  LoopElects' /\ FrozenMeansWaiting'
  BY <1>6, FrozenKept DEF RejectStaleVote, Asked
<1>7. ASSUME NEW v \in Node, GrantVote(n, t, v)
      PROVE  LoopElects' /\ FrozenMeansWaiting'
  BY <1>7, FrozenKept DEF GrantVote, Asked
<1>8. CASE VoteCallFails(n, t)
  <2>1. LoopElects' BY <1>8, LoopFollows DEF VoteCallFails, Calling
  <2>2. \A p \in Node, u \in Task : <<p, u>> \notin {<<n, t>>} => camp'[p][u] = camp[p][u]
    BY <1>8 DEF VoteCallFails, SetCamp, CampOK
  <2>3. Release({<<n, t>>}) BY <1>8 DEF VoteCallFails
  <2>4. UNCHANGED <<calls, loop>> BY <1>8 DEF VoteCallFails
  <2> QED BY <2>1, <2>2, <2>3, <2>4, ReleasedWait
<1> QED BY <1>1, <1>2, <1>3, <1>4, <1>5, <1>6, <1>7, <1>8, DenyVoteFreezes DEF CampaignStep

LEMMA ElectionFrozen ==
  ASSUME TypeOK, LoopElects, FrozenMeansWaiting, NEW n \in Node, ElectionStep(n)
  PROVE  LoopElects' /\ FrozenMeansWaiting'
<1> USE TypeParts
<1>0. Loop \in Task /\ \A t \in Handler : t \in Task /\ t # Loop
  BY TaskAssumption DEF Task
<1>1. CASE \E t \in Task : CampaignStep(n, t) \/ VoteCallFails(n, t)
  BY <1>1, CampaignFrozen
<1>2. CASE StartElection(n)
  <2>1. PICK c : SetCamp(n, Loop, c) BY <1>2 DEF StartElection
  <2>2. ~Running(n, Loop) BY <1>2 DEF StartElection, LoopElects
  <2>3. \A v \in Node : LogHeld(v) => LogHeld(v)'
    BY <1>2 DEF StartElection, LoopOK, LogHeld, At
  <2>5. FrozenMeansWaiting' BY <1>0, <1>2, <2>1, <2>2, <2>3, OthersWait DEF StartElection
  <2>4. ASSUME NEW p \in Node, camp'[p][Loop] # Nil PROVE loop'[p].pc = "elect"
    <3>1. CASE p = n BY <1>2, <3>1 DEF StartElection, LoopOK
    <3>2. CASE p # n
      <4>1. camp'[p][Loop] = camp[p][Loop] /\ loop'[p] = loop[p]
        BY <1>0, <1>2, <2>1, <3>2 DEF StartElection, LoopOK, SetCamp, CampOK
      <4> QED BY <2>4, <4>1 DEF LoopElects, Running
    <3> QED BY <3>1, <3>2
  <2> QED BY <2>4, <2>5 DEF LoopElects, Running
<1>3. CASE PreVote(n) BY <1>0, <1>3, FrozenKept DEF PreVote
<1>4. CASE PreVoteLost(n) BY <1>0, <1>4, FrozenKept DEF PreVoteLost
<1>5. CASE StartRealElection(n) BY <1>0, <1>5, FrozenKept DEF StartRealElection
<1>6. ASSUME NEW t \in Handler, CopyState(n, t) PROVE LoopElects' /\ FrozenMeansWaiting'
  BY <1>0, <1>6, FrozenKept DEF CopyState
<1>7. ASSUME NEW t \in Handler, HandleTimeoutNow(n, t)
      PROVE  LoopElects' /\ FrozenMeansWaiting'
  <2>1. xfer[n].target \in Node BY <1>7 DEF HandleTimeoutNow, WaitOK, Option, Transfer
  <2> QED BY <1>0, <1>7, <2>1, FrozenKept DEF HandleTimeoutNow
<1>8. CASE TimeoutNowFails(n)
  <2>1. \A p \in Node, u \in Task : <<p, u>> \notin Served(n) => camp'[p][u] = camp[p][u]
    BY <1>8 DEF TimeoutNowFails, EndCampaigns
  <2>2. FrozenMeansWaiting' BY <1>8, <2>1, ReleasedWait DEF TimeoutNowFails
  <2>3. \A p \in Node : camp'[p][Loop] = camp[p][Loop]
    BY <1>0, <2>1 DEF Served
  <2>4. loop' = loop BY <1>8 DEF TimeoutNowFails
  <2> QED BY <2>2, <2>3, <2>4 DEF LoopElects, Running
<1>9. CASE \/ \E p \in Node : TransferLeader(n, p)
           \/ SendTimeoutNow(n) \/ RejectTimeoutNow(n) \/ ReceiveTimeoutNow(n)
           \/ StepDown(n)
  <2>1. UNCHANGED <<camp, loop, frozen, calls>>
    BY <1>9 DEF TransferLeader, SendTimeoutNow, RejectTimeoutNow, ReceiveTimeoutNow, StepDown
  <2> QED BY <2>1 DEF LoopElects, FrozenMeansWaiting, Running, Peer, LogHeld, At
<1> QED
  BY <1>1, <1>2, <1>3, <1>4, <1>5, <1>6, <1>7, <1>8, <1>9 DEF ElectionStep

\* Replication starts no campaign, and moves only loops that do not campaign.
LEMMA LoopElectsOn ==
  ASSUME LoopOK, LoopElects, ReplicationStep
  PROVE  LoopElects'
<1>1. UNCHANGED camp BY ReplicationLeavesElections DEF campaignVars
<1>2. CASE \E n \in Node : LoopStep(n)
  <2>1. PICK n \in Node : LoopStep(n) BY <1>2
  <2>2. loop[n].pc # "elect" /\ \A p \in Node \ {n} : loop'[p] = loop[p]
    <3>1. CASE IdlePass(n) \/ BeginHeartbeat(n) \/ ReadSnapshot(n) \/ SkipPeer(n)
               \/ EndHeartbeat(n) \/ \E s \in Sender : SendToPeer(n, s)
      BY <3>1 DEF IdlePass, BeginHeartbeat, ReadSnapshot, SkipPeer, EndHeartbeat,
         SendToPeer, At, Goto, GoTo, LoopOK
    <3>2. CASE ReadMatch(n) \/ Tally(n) \/ AdvanceCommit(n) \/ ReadCommit(n)
               \/ ApplyEntries(n) \/ SetApplied(n)
      BY <3>2 DEF ReadMatch, Tally, AdvanceCommit, ReadCommit, ApplyEntries, SetApplied, At,
         Goto, GoTo, LoopOK
    <3>3. CASE CheckSnapshot(n) \/ TakeSnapshot(n) \/ CopyStore(n) \/ Compact(n)
               \/ CopySnapshot(n) \/ SaveSnapshot(n)
      BY <3>3 DEF CheckSnapshot, TakeSnapshot, CopyStore, Compact, CopySnapshot,
         SaveSnapshot, At, Goto, GoTo, LoopOK
    <3> QED BY <2>1, <3>1, <3>2, <3>3 DEF LoopStep
  <2>3. ~Running(n, Loop) BY <2>2 DEF LoopElects
  <2> QED BY <1>1, <2>2, <2>3 DEF LoopElects, Running
<1>3. CASE WriteStep \/ \E m \in calls : Handled(m) \/ CallFails(m)
  <2>1. UNCHANGED loop
    BY <1>3 DEF WriteStep, Put, PutHangs, PutBreaks, Handled, Wedge, RejectStaleAppend,
       MismatchAppend, AcceptAppend, RejectStaleSnapshot, InstallSnapshot, NewerTermAnswer,
       AppendAnswer, SnapshotAnswer, CallFails
  <2> QED BY <1>1, <2>1 DEF LoopElects, Running
<1> QED BY <1>2, <1>3 DEF ReplicationStep

\* The loop gives the log back only when it gets the state lock, and closes no call.
LEMMA LoopFrozen ==
  ASSUME LoopOK, FrozenMeansWaiting, NEW n \in Node, LoopStep(n)
  PROVE  FrozenMeansWaiting'
<1>1. UNCHANGED <<camp, frozen>> BY LoopLeavesElections DEF electionVars
<1>2. calls \subseteq calls'
  BY DEF LoopStep, IdlePass, BeginHeartbeat, ReadSnapshot, SendToPeer, SkipPeer,
     EndHeartbeat, ReadMatch, Tally, AdvanceCommit, ReadCommit, ApplyEntries, SetApplied,
     CheckSnapshot, TakeSnapshot, CopyStore, Compact, CopySnapshot, SaveSnapshot
<1>3. \/ SetApplied(n)
      \/ loop[n].pc # "applied" /\ \A p \in Node \ {n} : loop'[p] = loop[p]
  <2>1. CASE IdlePass(n) \/ BeginHeartbeat(n) \/ ReadSnapshot(n) \/ SkipPeer(n)
             \/ EndHeartbeat(n) \/ \E s \in Sender : SendToPeer(n, s)
    BY <2>1 DEF IdlePass, BeginHeartbeat, ReadSnapshot, SkipPeer, EndHeartbeat,
       SendToPeer, At, Goto, GoTo, LoopOK
  <2>2. CASE ReadMatch(n) \/ Tally(n) \/ AdvanceCommit(n) \/ ReadCommit(n)
             \/ ApplyEntries(n)
    BY <2>2 DEF ReadMatch, Tally, AdvanceCommit, ReadCommit, ApplyEntries, At, Goto, GoTo,
       LoopOK
  <2>3. CASE CheckSnapshot(n) \/ TakeSnapshot(n) \/ CopyStore(n) \/ Compact(n)
             \/ CopySnapshot(n) \/ SaveSnapshot(n)
    BY <2>3 DEF CheckSnapshot, TakeSnapshot, CopyStore, Compact, CopySnapshot,
       SaveSnapshot, At, Goto, GoTo, LoopOK
  <2>4. CASE SetApplied(n) BY <2>4
  <2> QED BY <2>1, <2>2, <2>3, <2>4 DEF LoopStep
<1>4. ASSUME NEW v \in Node, frozen'[v] # Nil
      PROVE  (CampaignWaits(v) \/ CallWaits(v) \/ ClientWaits(v))'
  <2>1. CampaignWaits(v) \/ CallWaits(v) \/ ClientWaits(v) BY <1>1, <1>4, WaitingParts
  <2>2. LogHeld(v) => LogHeld(v)'
    <3>1. CASE SetApplied(n)
      <4>1. v # n BY <1>1, <1>4, <3>1 DEF SetApplied, Unlocked
      <4> QED BY <3>1, <4>1 DEF SetApplied, Goto, GoTo, LoopOK, LogHeld, At
    <3>2. CASE loop[n].pc # "applied" /\ \A p \in Node \ {n} : loop'[p] = loop[p]
      BY <3>2 DEF LogHeld, At
    <3> QED BY <1>3, <3>1, <3>2
  <2> QED BY <1>1, <1>2, <2>1, <2>2, StillWaits
<1> QED BY <1>4, WaitingNext

LEMMA WriteFrozen ==
  ASSUME WaitOK, FrozenMeansWaiting, WriteStep
  PROVE  FrozenMeansWaiting'
<1>1. UNCHANGED <<camp, calls, loop>>
  BY DEF WriteStep, Put, PutHangs, PutBreaks, electionVars, campaignVars
<1>2. ASSUME NEW v \in Node, frozen'[v] # Nil, frozen'[v] # <<v, Client>>
      PROVE  frozen'[v] = frozen[v]
  BY <1>2 DEF WriteStep, Put, PutHangs, PutBreaks, electionVars, WaitOK
<1>3. ASSUME NEW v \in Node, frozen'[v] # Nil
      PROVE  (CampaignWaits(v) \/ CallWaits(v) \/ ClientWaits(v))'
  <2>1. CASE frozen'[v] = <<v, Client>> BY <2>1 DEF ClientWaits
  <2>2. CASE frozen'[v] = frozen[v]
    <3>1. CampaignWaits(v) \/ CallWaits(v) \/ ClientWaits(v) BY <1>3, <2>2, WaitingParts
    <3>2. LogHeld(v) => LogHeld(v)' BY <1>1 DEF LogHeld, At
    <3> QED BY <1>1, <2>2, <3>1, <3>2, StillWaits
  <2> QED BY <1>2, <1>3, <2>1, <2>2
<1> QED BY <1>3, WaitingNext

\* A call that keeps a handler hanging is neither answered nor handled again; it can fail.
LEMMA HandledFrozen ==
  ASSUME TypeOK, FrozenMeansWaiting, NEW m \in calls, Handled(m) \/ CallFails(m)
  PROVE  FrozenMeansWaiting'
<1> USE TypeParts
<1>0. m.from \in Node /\ m.to \in Node BY ReceivedTyped
<1>1. UNCHANGED <<camp, loop>>
  BY DEF Handled, Wedge, RejectStaleAppend, MismatchAppend, AcceptAppend,
     RejectStaleSnapshot, InstallSnapshot, NewerTermAnswer, AppendAnswer, SnapshotAnswer,
     CallFails, electionVars, campaignVars
<1>2. calls \ {m} \subseteq calls'
  BY DEF Handled, Wedge, RejectStaleAppend, MismatchAppend, AcceptAppend,
     RejectStaleSnapshot, InstallSnapshot, NewerTermAnswer, AppendAnswer, SnapshotAnswer,
     CallFails, Reply, Answer
<1>3. ASSUME NEW v \in Node, frozen'[v] = frozen[v], frozen[v] # Nil,
             ~(frozen[v] = <<m.from, m.slot>> /\ m.to = v /\ m.reply = Nil)
      PROVE  (CampaignWaits(v) \/ CallWaits(v) \/ ClientWaits(v))'
  <2>1. CampaignWaits(v) \/ CallWaits(v) \/ ClientWaits(v) BY <1>3, WaitingParts
  <2>2. LogHeld(v) => LogHeld(v)' BY <1>1 DEF LogHeld, At
  <2> QED BY <1>1, <1>2, <1>3, <2>1, <2>2, StillWaits
<1>4. CASE Wedge(m)
  <2>1. calls' = calls /\ frozen' = [frozen EXCEPT ![m.to] = <<m.from, m.slot>>]
    BY <1>4 DEF Wedge
  <2>2. CallWaits(m.to)'
    BY <1>0, <1>1, <1>4, <2>1 DEF Wedge, CallWaits, LogHeld, At, WaitOK
  <2>3. ASSUME NEW v \in Node, v # m.to, frozen'[v] # Nil
        PROVE  (CampaignWaits(v) \/ CallWaits(v) \/ ClientWaits(v))'
    <3>1. frozen'[v] = frozen[v] BY <2>1, <2>3 DEF WaitOK
    <3> QED BY <1>3, <2>3, <3>1
  <2> QED BY <1>0, <2>2, <2>3, WaitingNext
<1>5. CASE CallFails(m)
  <2>1. frozen' = [frozen EXCEPT ![m.to] = IF @ = <<m.from, m.slot>> THEN Nil ELSE @]
    BY <1>5 DEF CallFails
  <2>2. ASSUME NEW v \in Node, frozen'[v] # Nil
        PROVE  (CampaignWaits(v) \/ CallWaits(v) \/ ClientWaits(v))'
    <3>1. frozen'[v] = frozen[v] /\ ~(frozen[v] = <<m.from, m.slot>> /\ m.to = v)
      BY <2>1, <2>2 DEF WaitOK
    <3> QED BY <1>3, <2>2, <3>1
  <2> QED BY <2>2, WaitingNext
<1>6. CASE Handled(m) /\ ~Wedge(m)
  <2>1. UNCHANGED frozen
    BY <1>6 DEF Handled, RejectStaleAppend, MismatchAppend, AcceptAppend,
       RejectStaleSnapshot, InstallSnapshot, NewerTermAnswer, AppendAnswer, SnapshotAnswer,
       electionVars
  <2>2. frozen[m.to] # Nil => m.reply # Nil
    BY <1>6 DEF Handled, RejectStaleAppend, MismatchAppend, AcceptAppend,
       RejectStaleSnapshot, InstallSnapshot, NewerTermAnswer, AppendAnswer, SnapshotAnswer,
       Received, Unlocked, Answer
  <2>3. ASSUME NEW v \in Node, frozen'[v] # Nil
        PROVE  (CampaignWaits(v) \/ CallWaits(v) \/ ClientWaits(v))'
    BY <1>3, <2>1, <2>2, <2>3
  <2> QED BY <2>3, WaitingNext
<1> QED BY <1>4, <1>5, <1>6

LEMMA ReplicationFrozen ==
  ASSUME TypeOK, LoopElects, FrozenMeansWaiting, ReplicationStep
  PROVE  LoopElects' /\ FrozenMeansWaiting'
BY LoopElectsOn, LoopFrozen, WriteFrozen, HandledFrozen, TypeParts DEF ReplicationStep

\* A restart frees the node and those its tasks have frozen; a campaign that waited for
\* it had frozen nobody else.
LEMMA RestartFrozen ==
  ASSUME TypeOK, LoopElects, FrozenMeansWaiting, NEW n \in Node, Restart(n)
  PROVE  LoopElects' /\ FrozenMeansWaiting'
<1> USE TypeParts
<1> DEFINE gone == Served(n) \cup {<<n, u>> : u \in Task}
           lost == gone \cup {<<n, s>> : s \in Sender}
<1>0. Loop \in Task BY DEF Task
<1>1. ASSUME NEW p \in Node, camp'[p][Loop] # Nil PROVE loop'[p].pc = "elect"
  <2>1. Running(p, Loop) /\ p # n BY <1>0, <1>1, RestartCampaigns
  <2>2. loop'[p] = loop[p] BY <2>1 DEF Restart, LoopOK
  <2> QED BY <2>1, <2>2 DEF LoopElects
<1>2. ASSUME NEW v \in Node, frozen'[v] # Nil
      PROVE  (CampaignWaits(v) \/ CallWaits(v) \/ ClientWaits(v))'
  <2>1. frozen'[v] = frozen[v] /\ v # n /\ frozen[v] \notin lost /\ frozen[v] # Nil
    BY <1>2 DEF Restart
  <2>2. CampaignWaits(v) \/ CallWaits(v) \/ ClientWaits(v) BY <2>1, WaitingParts
  <2>3. ASSUME NEW p \in Node, NEW u \in Task, frozen[v] = <<p, u>>,
               Peer(p, camp[p][u]) = v
        PROVE  camp'[p][u] = camp[p][u]
    <3>1. <<p, u>> \notin gone BY <2>1, <2>3
    <3>2. <<p, u>> \notin CallersOf(n) BY <2>1, <2>3 DEF CallersOf
    <3>3. camp' = [c \in Node |-> [t \in Task |->
            IF <<c, t>> \in gone THEN Nil
            ELSE IF <<c, t>> \in CallersOf(n)
            THEN [camp[c][t] EXCEPT !.i = @ + 1, !.data = Nil, !.st = "ask"]
            ELSE camp[c][t]]]
      BY DEF Restart
    <3> HIDE DEF gone
    <3> QED BY <3>1, <3>2, <3>3
  <2>4. ASSUME NEW m \in calls, frozen[v] = <<m.from, m.slot>>, m.to = v PROVE m \in calls'
    <3>1. m.slot \in Sender BY DEF CallsOK, Call
    <3>2. m.from # n BY <2>1, <2>4, <3>1
    <3> QED BY <2>1, <2>4, <3>2 DEF Restart
  <2>5. LogHeld(v) => LogHeld(v)' BY <2>1 DEF Restart, LoopOK, LogHeld, At
  <2> QED BY <2>1, <2>2, <2>3, <2>4, <2>5, StillWaits
<1>3. FrozenMeansWaiting' BY <1>2, WaitingNext
<1> QED BY <1>1, <1>3 DEF LoopElects, Running

LEMMA FrozenStep == FrozenInv /\ [NextCrash]_vars => FrozenInv'
<1> SUFFICES ASSUME FrozenInv, [NextCrash]_vars PROVE FrozenInv' OBVIOUS
<1>1. TypeInv' /\ TypeOK /\ LoopElects /\ FrozenMeansWaiting
  BY CrashTypes DEF FrozenInv, TypeInv
<1>2. CASE \E n \in Node : ElectionStep(n) BY <1>1, <1>2, ElectionFrozen DEF FrozenInv
<1>3. CASE ReplicationStep BY <1>1, <1>3, ReplicationFrozen DEF FrozenInv
<1>4. CASE \E n \in Node : Restart(n) BY <1>1, <1>4, RestartFrozen DEF FrozenInv
<1>5. CASE UNCHANGED vars
  BY <1>1, <1>5 DEF vars, FrozenInv, LoopElects, FrozenMeansWaiting, Running, Peer, LogHeld,
     At
<1> QED BY <1>2, <1>3, <1>4, <1>5, NextParts DEF NextCrash

LEMMA CrashFrozenInv == SpecCrash => []FrozenInv
<1>1. Init => FrozenInv
  BY InitTypes DEF Init, FrozenInv, LoopElects, FrozenMeansWaiting, Running, Task
<1> QED BY <1>1, FrozenStep, PTL DEF SpecCrash

\* A handler that hangs with the lock of its node answers somebody who still waits: a
\* candidate (rpc.rs request_vote), a leader (append_entries, install_snapshot) or a
\* client (put, delete), whoever restarts, fails or drops its call in between.
THEOREM CrashFrozenMeansWaiting == SpecCrash => []FrozenMeansWaiting
<1>1. FrozenInv => FrozenMeansWaiting BY DEF FrozenInv
<1> QED BY <1>1, CrashFrozenInv, PTL

\* The same of a cluster whose nodes do not stop.
THEOREM RaftFrozenMeansWaiting == Spec => []FrozenMeansWaiting
BY CrashFrozenMeansWaiting, RaftNeverCrashes, PTL

-----------------------------------------------------------------------------
(* Files. *)

\* d, a copy of the state of a node, does not run ahead of its term t and vote v.
NotAhead(d, t, v) == d.term <= t /\ (d.term = t => d.vote \in {Nil, v})

\* d shows the term, the vote and the log of n.
Shows(d, n) == d.term = term[n] /\ d.vote = vote[n] /\ d.log = log[n]

\* Campaign c of n holds a copy that is about to be saved, by its owner.
Pending(c)  == c # Nil /\ c.st \in {"save", "saving"}
Owner(n, c) == IF c.st = "save" THEN n ELSE Peer(n, c)

CopiesNotAhead ==
  \A n \in Node, t \in Task : Pending(camp[n][t]) =>
    LET c == camp[n][t] IN NotAhead(c.data, term[Owner(n, c)], vote[Owner(n, c)])

\* So does create_snapshot, from the end of its section of the lock on.
LoopCopiesNotAhead ==
  \A n \in Node : At(n, "save") => NotAhead(loop[n].data, term[n], vote[n])

DiskInv == TypeInv /\ DiskNotAhead /\ CopiesNotAhead /\ LoopCopiesNotAhead

\* What a step of the code does to a file: nothing, a save of a copy taken earlier, or a
\* save of the state as it is.
FileStep(n) ==
  \/ disk'[n] = disk[n]
  \/ \E p \in Node, t \in Task :
       Pending(camp[p][t]) /\ Owner(p, camp[p][t]) = n /\ disk'[n] = camp[p][t].data
  \/ At(n, "save") /\ disk'[n] = loop[n].data
  \/ Shows(disk[n], n)'

\* ... and to a copy: it is kept, or taken.
CopyStep(n, t) ==
  Pending(camp[n][t])' =>
    camp'[n][t] = camp[n][t] \/ Shows(camp[n][t].data, Owner(n, camp[n][t]))'
LoopCopyStep(n) ==
  At(n, "save")' => loop'[n] = loop[n] \/ Shows(loop[n].data, n)'

FilesStep == (\A n \in Node : FileStep(n)) /\ (\A n \in Node, t \in Task : CopyStep(n, t))

LEMMA NotAheadStays ==
  ASSUME ServerOK, ServerOK', NEW n \in Node, KeepsVote(n), NEW d \in Persistent,
         NotAhead(d, term[n], vote[n])
  PROVE  NotAhead(d, term'[n], vote'[n])
<1>1. d.term \in Nat /\ term[n] \in Nat /\ term'[n] \in Nat
  BY TermNat DEF ServerOK, Persistent
<1> QED BY <1>1 DEF NotAhead, KeepsVote

LEMMA OwnerTyped ==
  ASSUME NEW n \in Node, NEW t \in Task, NEW c \in CampaignRecord, CampaignShape(n, t, c),
         Pending(c)
  PROVE  c.data \in Persistent /\ Owner(n, c) \in Node
<1>1. c.i \in Nat \ {0} BY DEF CampaignRecord
<1> QED BY <1>1, PeerIsNode DEF Pending, CampaignShape, Owner, Peer, PeersLeft

\* Copies that do not run ahead stay so: votes stand and terms do not go back.
LEMMA FilesKept ==
  ASSUME TypeOK, TypeOK', DiskNotAhead, CopiesNotAhead, LoopCopiesNotAhead, FilesStep,
         \A n \in Node : KeepsVote(n) /\ LoopCopyStep(n)
  PROVE  DiskNotAhead' /\ CopiesNotAhead' /\ LoopCopiesNotAhead'
<1> USE TypeParts, TypePartsNext
<1>0. ASSUME NEW n \in Node, NEW t \in Task
      PROVE  /\ Pending(camp[n][t]) =>
                  camp[n][t].data \in Persistent /\ Owner(n, camp[n][t]) \in Node
             /\ Pending(camp'[n][t]) =>
                  camp'[n][t].data \in Persistent /\ Owner(n, camp'[n][t]) \in Node
  <2>1. Pending(camp[n][t]) => camp[n][t] \in CampaignRecord /\ CampaignShape(n, t, camp[n][t])
    BY DEF CampOK, Pending, Option, Running
  <2>2. Pending(camp'[n][t]) =>
          camp'[n][t] \in CampaignRecord /\ CampaignShape(n, t, camp'[n][t])
    BY DEF CampOK, Pending, Option, Running, CampaignShape, PeersLeft
  <2> QED BY <2>1, <2>2, OwnerTyped
<1>1. ASSUME NEW n \in Node PROVE NotAhead(disk'[n], term'[n], vote'[n])
  <2>1. CASE disk'[n] = disk[n]
    <3>1. disk[n] \in Persistent BY DEF DiskOK
    <3>2. NotAhead(disk[n], term[n], vote[n]) BY DEF DiskNotAhead, NotAhead
    <3> QED BY <2>1, <3>1, <3>2, NotAheadStays
  <2>2. ASSUME NEW p \in Node, NEW t \in Task, Pending(camp[p][t]),
               Owner(p, camp[p][t]) = n, disk'[n] = camp[p][t].data
        PROVE  NotAhead(disk'[n], term'[n], vote'[n])
    <3>1. NotAhead(camp[p][t].data, term[n], vote[n]) BY <2>2 DEF CopiesNotAhead
    <3>2. camp[p][t].data \in Persistent BY <1>0, <2>2
    <3> QED BY <2>2, <3>1, <3>2, NotAheadStays
  <2>3. CASE Shows(disk[n], n)'
    <3>1. NotAhead(disk[n], term[n], vote[n])'
      <4>1. term'[n] \in Nat BY TermNat DEF ServerOK
      <4> QED BY <2>3, <4>1 DEF Shows, NotAhead
    <3> QED BY <3>1 DEF NotAhead
  <2>4. CASE At(n, "save") /\ disk'[n] = loop[n].data
    <3>1. loop[n].data \in Persistent BY <2>4, LoopTyped DEF At, Saving
    <3>2. NotAhead(loop[n].data, term[n], vote[n]) BY <2>4 DEF LoopCopiesNotAhead
    <3> QED BY <2>4, <3>1, <3>2, NotAheadStays
  <2> QED BY <2>1, <2>2, <2>3, <2>4 DEF FilesStep, FileStep
<1>2. ASSUME NEW n \in Node, NEW t \in Task, Pending(camp'[n][t])
      PROVE  LET c == camp'[n][t]
             IN  NotAhead(c.data, term'[Owner(n, c)], vote'[Owner(n, c)])
  <2>0. Pending(camp[n][t])' BY <1>2 DEF Pending
  <2> DEFINE c == camp'[n][t]
  <2>1. CASE c = camp[n][t]
    <3>1. Pending(camp[n][t]) BY <1>2, <2>1
    <3>2. NotAhead(camp[n][t].data, term[Owner(n, camp[n][t])], vote[Owner(n, camp[n][t])])
      BY <3>1 DEF CopiesNotAhead
    <3> QED BY <2>1, <1>0, <3>1, <3>2, NotAheadStays
  <2>2. CASE Shows(camp[n][t].data, Owner(n, camp[n][t]))'
    <3>1. c.data.term = term'[Owner(n, c)] /\ c.data.vote = vote'[Owner(n, c)]
      BY <2>2 DEF Shows, Owner, Peer
    <3>2. term'[Owner(n, c)] \in Nat BY <1>0, <1>2, TermNat DEF ServerOK
    <3> QED BY <3>1, <3>2 DEF NotAhead
  <2> QED BY <2>0, <2>1, <2>2 DEF FilesStep, CopyStep
<1>3. DiskNotAhead' BY <1>1 DEF DiskNotAhead, NotAhead
<1>4. CopiesNotAhead' BY <1>2 DEF CopiesNotAhead, NotAhead, Pending, Owner, Peer
<1>5. ASSUME NEW n \in Node, At(n, "save")' PROVE NotAhead(loop'[n].data, term'[n], vote'[n])
  <2>1. CASE loop'[n] = loop[n]
    <3>1. At(n, "save") BY <1>5, <2>1 DEF At
    <3>2. loop[n].data \in Persistent BY <3>1, LoopTyped DEF At, Saving
    <3>3. NotAhead(loop[n].data, term[n], vote[n]) BY <3>1 DEF LoopCopiesNotAhead
    <3> QED BY <2>1, <3>2, <3>3, NotAheadStays
  <2>2. CASE Shows(loop[n].data, n)'
    <3>1. term'[n] \in Nat BY TermNat DEF ServerOK
    <3> QED BY <2>2, <3>1 DEF Shows, NotAhead
  <2> QED BY <1>5, <2>1, <2>2 DEF LoopCopyStep
<1>6. LoopCopiesNotAhead' BY <1>5 DEF LoopCopiesNotAhead, NotAhead
<1> QED BY <1>3, <1>4, <1>6

\* The step of one campaign: its copy, if it has one then, is of the state as it is.
LEMMA CampaignFiles ==
  ASSUME CampOK, NEW n \in Node, NEW t \in Task, NEW c, SetCamp(n, t, c),
         Pending(c) => LET w == Owner(n, c)
                       IN  /\ c.data.term = term'[w] /\ c.data.vote = vote'[w]
                           /\ c.data.log = log'[w],
         \A p \in Node : FileStep(p)
  PROVE  FilesStep
<1>1. ASSUME NEW p \in Node, NEW u \in Task PROVE CopyStep(p, u)
  <2>1. CASE p = n /\ u = t
    <3>1. camp'[p][u] = c BY <2>1 DEF SetCamp, CampOK
    <3> QED BY <2>1, <3>1 DEF CopyStep, Pending, Shows, Owner, Peer
  <2>2. CASE ~(p = n /\ u = t)
    <3>1. camp'[p][u] = camp[p][u] BY <2>2 DEF SetCamp, CampOK
    <3> QED BY <3>1 DEF CopyStep
  <2> QED BY <2>1, <2>2
<1> QED BY <1>1 DEF FilesStep

\* The save of a copy, or none.
LEMMA SavesCopy ==
  ASSUME DiskOK, NEW n \in Node, NEW t \in Task, Pending(camp[n][t]),
         disk' = [disk EXCEPT ![Owner(n, camp[n][t])] = camp[n][t].data],
         NEW p \in Node
  PROVE  FileStep(p)
<1>1. CASE p = Owner(n, camp[n][t])
  <2>1. disk'[p] = camp[n][t].data BY <1>1 DEF DiskOK
  <2> QED BY <1>1, <2>1 DEF FileStep
<1>2. CASE p # Owner(n, camp[n][t]) BY <1>2 DEF DiskOK, FileStep
<1> QED BY <1>1, <1>2

LEMMA DropSaveFiles ==
  ASSUME DiskOK, NEW n \in Node, NEW t \in Task, DropSave(n, t), NEW p \in Node
  PROVE  FileStep(p)
<1>1. CASE UNCHANGED disk BY <1>1 DEF FileStep
<1>2. CASE /\ Running(n, t) /\ camp[n][t].st = "saving"
           /\ disk' = [disk EXCEPT ![Peer(n, camp[n][t])] = camp[n][t].data]
  BY <1>2, SavesCopy DEF Running, Pending, Owner
<1> QED BY <1>1, <1>2 DEF DropSave

LEMMA CampaignStepFiles ==
  ASSUME TypeOK, TypeOK', NEW n \in Node, NEW t \in Task, CampaignStep(n, t) \/ VoteCallFails(n, t)
  PROVE  FilesStep
<1> USE TypeParts
<1> DEFINE c == camp[n][t]
<1>1. CASE SaveCandidate(n, t)
  <2> DEFINE d == [c EXCEPT !.st = "ask", !.data = Nil,
                           !.lastTerm = LastTerm(log[n]), !.lastIdx = LastIndex(log[n])]
  <2>1. c \in CampaignRecord BY <1>1, CampaignTyped DEF SaveCandidate
  <2>2. SetCamp(n, t, d) BY <1>1 DEF SaveCandidate
  <2>3. \A p \in Node : FileStep(p)
    BY <1>1, SavesCopy DEF SaveCandidate, Running, Pending, Owner
  <2> HIDE DEF c
  <2>4. d.st = "ask" BY <2>1 DEF CampaignRecord
  <2> HIDE DEF d
  <2> QED BY <2>2, <2>3, <2>4, CampaignFiles DEF Pending
<1>2. CASE ReceiveVote(n, t)
  <2>1. c \in CampaignRecord BY <1>2, CampaignTyped DEF ReceiveVote
  <2> DEFINE yes == IF c.reply.granted THEN c.yes \cup {Peer(n, c)} ELSE c.yes
             d == [c EXCEPT !.st = "ask", !.i = @ + 1, !.reply = Nil, !.yes = yes]
  <2>2. SetCamp(n, t, Nil) \/ SetCamp(n, t, d) BY <1>2 DEF ReceiveVote
  <2>3. \A p \in Node : FileStep(p) BY <1>2 DEF ReceiveVote, FileStep
  <2> HIDE DEF c, yes
  <2>4. d.st = "ask" BY <2>1 DEF CampaignRecord
  <2> HIDE DEF d
  <2> QED BY <2>2, <2>3, <2>4, CampaignFiles DEF Pending
<1>3. CASE FinishCampaign(n, t)
  <2>1. \A p \in Node : FileStep(p) BY <1>3 DEF FinishCampaign, FileStep
  <2> QED BY <1>3, <2>1, CampaignFiles DEF FinishCampaign, Pending
<1>4. ASSUME NEW v \in Node, RejectStaleVote(n, t, v) PROVE FilesStep
  <2> DEFINE d == [c EXCEPT !.st = "got", !.reply = [term |-> term[v], granted |-> FALSE]]
  <2>1. c \in CampaignRecord BY <1>4, CampaignTyped DEF RejectStaleVote, Asked
  <2>2. SetCamp(n, t, d) BY <1>4 DEF RejectStaleVote
  <2>3. \A p \in Node : FileStep(p) BY <1>4 DEF RejectStaleVote, FileStep
  <2> HIDE DEF c
  <2>4. d.st = "got" BY <2>1 DEF CampaignRecord
  <2> HIDE DEF d
  <2> QED BY <2>2, <2>3, <2>4, CampaignFiles DEF Pending
<1>5. ASSUME NEW v \in Node, DenyVote(n, t, v) PROVE FilesStep
  <2> DEFINE d == [c EXCEPT !.st = "wait"]
  <2>1. c \in CampaignRecord BY <1>5, CampaignTyped DEF DenyVote, Asked
  <2>2. SetCamp(n, t, d) BY <1>5 DEF DenyVote
  <2>3. \A p \in Node : FileStep(p) BY <1>5 DEF DenyVote, FileStep
  <2> HIDE DEF c
  <2>4. d.st = "wait" BY <2>1 DEF CampaignRecord
  <2> HIDE DEF d
  <2> QED BY <2>2, <2>3, <2>4, CampaignFiles DEF Pending
<1>6. ASSUME NEW v \in Node, GrantVote(n, t, v) PROVE FilesStep
  <2> DEFINE copy == PersistentData(c.term, n, log[v])
             d == [c EXCEPT !.st = "saving", !.data = copy]
  <2>1. c \in CampaignRecord /\ c.term \in Term BY <1>6, AskedTyped DEF GrantVote
  <2>2. SetCamp(n, t, d) /\ v = Peer(n, c) BY <1>6 DEF GrantVote, Asked
  <2>3. copy.term = c.term /\ copy.vote = n /\ copy.log = log'[v] /\ copy.snap = Nil
    BY <1>6 DEF GrantVote, PersistentData
  <2>4. vote'[v] = n BY <1>6 DEF GrantVote, ServerOK
  <2>5. term'[v] = c.term
    <3>1. term'[v] = Larger(term[v], c.term) BY <1>6 DEF GrantVote, JoinTerm, ServerOK
    <3>2. c.term >= term[v] /\ term[v] \in Term BY <1>6 DEF GrantVote, ServerOK
    <3> QED BY <2>1, <3>1, <3>2, LargerTerm
  <2>6. \A p \in Node : FileStep(p) BY <1>6 DEF GrantVote, FileStep
  <2> HIDE DEF copy
  <2>7. d.st = "saving" /\ d.data = copy /\ Owner(n, d) = v
    <3>1. v = Peer(n, c) BY <2>2
    <3> HIDE DEF c
    <3> QED BY <2>1, <3>1 DEF CampaignRecord, Owner, Peer
  <2> HIDE DEF d
  <2> QED BY <2>2, <2>3, <2>4, <2>5, <2>6, <2>7, CampaignFiles
<1>7. CASE SaveVote(n, t)
  <2> DEFINE d == [c EXCEPT !.st = "saved", !.data = Nil]
  <2>1. c \in CampaignRecord BY <1>7, CampaignTyped DEF SaveVote
  <2>2. SetCamp(n, t, d) BY <1>7 DEF SaveVote
  <2>3. \A p \in Node : FileStep(p)
    BY <1>7, SavesCopy DEF SaveVote, Running, Pending, Owner
  <2> HIDE DEF c
  <2>4. d.st = "saved" BY <2>1 DEF CampaignRecord
  <2> HIDE DEF d
  <2> QED BY <2>2, <2>3, <2>4, CampaignFiles DEF Pending
<1>8. CASE AnswerVote(n, t)
  <2> DEFINE d == [c EXCEPT !.st = "got", !.reply = [term |-> term[Peer(n, c)], granted |-> TRUE]]
  <2>1. c \in CampaignRecord BY <1>8, CampaignTyped DEF AnswerVote
  <2>2. SetCamp(n, t, d) BY <1>8 DEF AnswerVote
  <2>3. \A p \in Node : FileStep(p) BY <1>8 DEF AnswerVote, FileStep
  <2> HIDE DEF c
  <2>4. d.st = "got" BY <2>1 DEF CampaignRecord
  <2> HIDE DEF d
  <2> QED BY <2>2, <2>3, <2>4, CampaignFiles DEF Pending
<1>9. CASE VoteCallFails(n, t)
  <2> DEFINE d == [c EXCEPT !.i = @ + 1, !.data = Nil,
                          !.st = IF c.st = "pre" THEN "pre" ELSE "ask"]
  <2>1. c \in CampaignRecord BY <1>9, CampaignTyped DEF VoteCallFails, Calling
  <2>2. SetCamp(n, t, d) BY <1>9 DEF VoteCallFails
  <2>3. \A p \in Node : FileStep(p) BY <1>9, DropSaveFiles DEF VoteCallFails
  <2> HIDE DEF c
  <2>4. d.st \in {"pre", "ask"} BY <2>1 DEF CampaignRecord
  <2> HIDE DEF d
  <2> QED BY <2>2, <2>3, <2>4, CampaignFiles DEF Pending
<1> QED BY <1>1, <1>2, <1>3, <1>4, <1>5, <1>6, <1>7, <1>8, <1>9 DEF CampaignStep

\* A step that touches neither files nor campaigns, or only ends some.
LEMMA FilesUntouched ==
  ASSUME UNCHANGED disk, \A n \in Node, t \in Task : camp'[n][t] \in {Nil, camp[n][t]}
  PROVE  FilesStep
BY DEF FilesStep, FileStep, CopyStep, Pending

LEMMA ElectionFiles ==
  ASSUME TypeOK, TypeOK', NEW n \in Node, ElectionStep(n)
  PROVE  FilesStep
<1> USE TypeParts
<1>0. Loop \in Task /\ Handler \subseteq Task BY DEF Task
<1>1. CASE \E t \in Task : CampaignStep(n, t) \/ VoteCallFails(n, t)
  BY <1>1, CampaignStepFiles
<1>2. CASE StartElection(n)
  <2> DEFINE c == [Campaign("pre", n) EXCEPT !.term = term[n] + 1,
                     !.lastTerm = LastTerm(log[n]), !.lastIdx = LastIndex(log[n])]
  <2>1. SetCamp(n, Loop, c) BY <1>2 DEF StartElection
  <2>2. c.st = "pre" BY DEF Campaign
  <2>3. \A p \in Node : FileStep(p) BY <1>2 DEF StartElection, FileStep
  <2> HIDE DEF c
  <2> QED BY <1>0, <2>1, <2>2, <2>3, CampaignFiles DEF Pending
<1>3. CASE PreVote(n)
  <2> DEFINE c == camp[n][Loop]
             yes == IF GrantsPreVote(Peer(n, c), c) THEN c.yes \cup {Peer(n, c)} ELSE c.yes
             d == [c EXCEPT !.i = @ + 1, !.yes = yes]
  <2>1. c \in CampaignRecord /\ c.st = "pre" BY <1>0, <1>3, CampaignTyped DEF PreVote
  <2>2. SetCamp(n, Loop, d) BY <1>3 DEF PreVote
  <2>3. \A p \in Node : FileStep(p) BY <1>3 DEF PreVote, FileStep
  <2> HIDE DEF c, yes
  <2>4. d.st = "pre" BY <2>1 DEF CampaignRecord
  <2> HIDE DEF d
  <2> QED BY <1>0, <2>2, <2>3, <2>4, CampaignFiles DEF Pending
<1>4. CASE PreVoteLost(n)
  <2>1. \A p \in Node : FileStep(p) BY <1>4 DEF PreVoteLost, FileStep
  <2> QED BY <1>0, <1>4, <2>1, CampaignFiles DEF PreVoteLost, Pending
<1>5. CASE StartRealElection(n)
  <2> DEFINE copy == PersistentData(term[n] + 1, n, log[n])
             c == [Campaign("save", n) EXCEPT !.term = term[n] + 1, !.data = copy]
  <2>1. SetCamp(n, Loop, c) BY <1>5 DEF StartRealElection
  <2>2. copy.term = term[n] + 1 /\ copy.vote = n /\ copy.log = log'[n] /\ copy.snap = Nil
    BY <1>5 DEF StartRealElection, PersistentData
  <2>3. term'[n] = term[n] + 1 /\ vote'[n] = n
    BY <1>5 DEF StartRealElection, BecomeCandidate, ServerOK
  <2>4. \A p \in Node : FileStep(p) BY <1>5 DEF StartRealElection, FileStep
  <2> HIDE DEF copy
  <2>5. c.st = "save" /\ c.data = copy BY DEF Campaign
  <2> HIDE DEF c
  <2> QED BY <1>0, <2>1, <2>2, <2>3, <2>4, <2>5, CampaignFiles DEF Owner
<1>6. ASSUME NEW t \in Handler, CopyState(n, t) PROVE FilesStep
  <2> DEFINE c == camp[n][t]
             copy == PersistentData(term[n], vote[n], log[n])
             d == [c EXCEPT !.st = "save", !.term = term[n], !.data = copy]
  <2>1. c \in CampaignRecord BY <1>0, <1>6, CampaignTyped DEF CopyState
  <2>2. SetCamp(n, t, d) BY <1>6 DEF CopyState
  <2>3. /\ copy.term = term'[n] /\ copy.vote = vote'[n] /\ copy.log = log'[n]
        /\ copy.snap = Nil
    BY <1>6 DEF CopyState, PersistentData, stateVars
  <2>4. \A p \in Node : FileStep(p) BY <1>6 DEF CopyState, FileStep
  <2> HIDE DEF c, copy
  <2>5. d.st = "save" /\ d.data = copy BY <2>1 DEF CampaignRecord
  <2> HIDE DEF d
  <2> QED BY <1>0, <2>2, <2>3, <2>4, <2>5, CampaignFiles DEF Owner
<1>7. ASSUME NEW t \in Handler, HandleTimeoutNow(n, t) PROVE FilesStep
  <2> DEFINE p == xfer[n].target
             c == [Campaign("begin", p) EXCEPT !.caller = n]
  <2>1. p \in Node BY <1>7 DEF HandleTimeoutNow, WaitOK, Option, Transfer
  <2>2. SetCamp(p, t, c) BY <1>7 DEF HandleTimeoutNow
  <2>3. c.st = "begin" BY DEF Campaign
  <2>4. \A q \in Node : FileStep(q) BY <1>7 DEF HandleTimeoutNow, FileStep
  <2> HIDE DEF p, c
  <2> QED BY <1>0, <2>1, <2>2, <2>3, <2>4, CampaignFiles DEF Pending
<1>8. CASE TimeoutNowFails(n)
  <2>1. \A p \in Node, t \in Task : camp'[p][t] \in {Nil, camp[p][t]}
    BY <1>8 DEF TimeoutNowFails, EndCampaigns
  <2>2. \A p \in Node, t \in Task : CopyStep(p, t) BY <2>1 DEF CopyStep, Pending
  <2>3. \A p \in Node : FileStep(p)
    <3>1. CASE Served(n) = {} BY <1>8, <3>1 DEF TimeoutNowFails, FileStep
    <3>2. CASE Served(n) # {}
      <4>1. PICK pt \in Served(n) : DropSave(pt[1], pt[2]) BY <1>8, <3>2 DEF TimeoutNowFails
      <4>2. pt[1] \in Node /\ pt[2] \in Task BY <1>0, <4>1 DEF Served
      <4> QED BY <4>1, <4>2, DropSaveFiles
    <3> QED BY <3>1, <3>2
  <2> QED BY <2>2, <2>3 DEF FilesStep
<1>9. CASE \/ \E p \in Node : TransferLeader(n, p)
           \/ SendTimeoutNow(n) \/ RejectTimeoutNow(n) \/ ReceiveTimeoutNow(n)
           \/ StepDown(n)
  BY <1>9, FilesUntouched
     DEF TransferLeader, SendTimeoutNow, RejectTimeoutNow, ReceiveTimeoutNow, StepDown
<1> QED
  BY <1>1, <1>2, <1>3, <1>4, <1>5, <1>6, <1>7, <1>8, <1>9 DEF ElectionStep

\* The saves done with the state in hand write it as it is.
LEMMA SavesState ==
  ASSUME DiskOK, NEW n \in Node, NEW d, disk' = [disk EXCEPT ![n] = d],
         d.term = term'[n], d.vote = vote'[n], d.log = log'[n], UNCHANGED camp
  PROVE  FilesStep
<1>1. ASSUME NEW p \in Node PROVE FileStep(p)
  <2>1. CASE p = n
    <3>1. disk'[p] = d BY <2>1 DEF DiskOK
    <3> QED BY <2>1, <3>1 DEF FileStep, Shows
  <2>2. CASE p # n BY <2>2 DEF DiskOK, FileStep
  <2> QED BY <2>1, <2>2
<1> QED BY <1>1 DEF FilesStep, CopyStep

LEMMA SavedFields ==
  ASSUME NEW t, NEW v, NEW l, NEW x
  PROVE  /\ PersistentData(t, v, l).term = t /\ PersistentData(t, v, l).vote = v
         /\ PersistentData(t, v, l).log = l
         /\ [PersistentData(t, v, l) EXCEPT !.snap = x].term = t
         /\ [PersistentData(t, v, l) EXCEPT !.snap = x].vote = v
         /\ [PersistentData(t, v, l) EXCEPT !.snap = x].log = l
BY DEF PersistentData

LEMMA ReplicationFiles ==
  ASSUME TypeOK, ReplicationStep
  PROVE  FilesStep
<1> USE TypeParts
<1>0. UNCHANGED camp BY ReplicationLeavesElections DEF campaignVars
<1>1. ASSUME NEW n \in Node, NEW v \in Cmd, Put(n, v) PROVE FilesStep
  <2>1. PICK l : /\ log' = [log EXCEPT ![n] = l]
                 /\ disk' = [disk EXCEPT ![n] = PersistentData(term[n], vote[n], l)]
    BY <1>1 DEF Put
  <2> DEFINE d == PersistentData(term[n], vote[n], l)
  <2>2. UNCHANGED <<term, vote>> BY <1>1 DEF Put, stateVars
  <2>3. disk' = [disk EXCEPT ![n] = d] /\ d.term = term[n] /\ d.vote = vote[n] /\ d.log = l
    BY <2>1, SavedFields
  <2>4. log'[n] = l BY <2>1 DEF LogOK
  <2> HIDE DEF d
  <2> QED BY <1>0, <2>2, <2>3, <2>4, SavesState
<1>2. ASSUME NEW n \in Node, SaveSnapshot(n) PROVE FilesStep
  <2>1. ASSUME NEW p \in Node PROVE FileStep(p)
    BY <1>2 DEF SaveSnapshot, DiskOK, FileStep
  <2> QED BY <1>0, <2>1 DEF FilesStep, CopyStep
<1>3. ASSUME NEW m \in calls, AcceptAppend(m) PROVE FilesStep
  <2>1. m.to \in Node BY ReceivedTyped
  <2>2. PICK l : /\ log' = [log EXCEPT ![m.to] = l]
                 /\ disk' = [disk EXCEPT ![m.to] = PersistentData(term'[m.to], vote'[m.to], l)]
    BY <1>3 DEF AcceptAppend
  <2> DEFINE d == PersistentData(term'[m.to], vote'[m.to], l)
  <2>3. /\ disk' = [disk EXCEPT ![m.to] = d]
        /\ d.term = term'[m.to] /\ d.vote = vote'[m.to] /\ d.log = l
    BY <2>2, SavedFields
  <2>4. log'[m.to] = l BY <2>1, <2>2 DEF LogOK
  <2> HIDE DEF d
  <2> QED BY <1>0, <2>1, <2>3, <2>4, SavesState
<1>4. ASSUME NEW m \in calls, InstallSnapshot(m) PROVE FilesStep
  <2>1. m.to \in Node BY ReceivedTyped
  <2>2. CASE ~(m.req.lastIdx > log[m.to].snapIdx)
    BY <1>0, <1>4, <2>2, FilesUntouched DEF InstallSnapshot
  <2>3. CASE m.req.lastIdx > log[m.to].snapIdx
    <3> DEFINE l == ApplySnapshot(log[m.to], m.req.lastIdx, m.req.lastTerm)
               d == [PersistentData(term'[m.to], vote'[m.to], l) EXCEPT !.snap = m.req.data]
    <3>1. disk' = [disk EXCEPT ![m.to] = d] /\ log' = [log EXCEPT ![m.to] = l]
      BY <1>4, <2>3 DEF InstallSnapshot
    <3> HIDE DEF l
    <3>2. d.term = term'[m.to] /\ d.vote = vote'[m.to] /\ d.log = l BY SavedFields
    <3>3. log'[m.to] = l BY <2>1, <3>1 DEF LogOK
    <3> HIDE DEF d
    <3> QED BY <1>0, <2>1, <3>1, <3>2, <3>3, SavesState
  <2> QED BY <2>2, <2>3
<1>5. ASSUME NEW n \in Node, LoopStep(n), ~SaveSnapshot(n) PROVE FilesStep
  BY <1>0, <1>5, FilesUntouched
     DEF LoopStep, IdlePass, BeginHeartbeat, ReadSnapshot, SendToPeer, SkipPeer,
         EndHeartbeat, ReadMatch, Tally, AdvanceCommit, ReadCommit, ApplyEntries,
         SetApplied, CheckSnapshot, TakeSnapshot, CopyStore, Compact, CopySnapshot
<1>6. ASSUME NEW m \in calls, Handled(m) \/ CallFails(m),
             ~AcceptAppend(m), ~InstallSnapshot(m)
      PROVE  FilesStep
  BY <1>0, <1>6, FilesUntouched
     DEF Handled, Wedge, RejectStaleAppend, MismatchAppend, RejectStaleSnapshot,
         NewerTermAnswer, AppendAnswer, SnapshotAnswer, CallFails
<1>7. CASE \E n \in Node : PutHangs(n) \/ \E v \in Cmd : PutBreaks(n, v)
  BY <1>0, <1>7, FilesUntouched DEF PutHangs, PutBreaks
<1> QED
  BY <1>1, <1>2, <1>3, <1>4, <1>5, <1>6, <1>7 DEF ReplicationStep, WriteStep

\* The copy create_snapshot saves is taken in one section of the lock, and kept until then.
LEMMA LoopCopies ==
  ASSUME TypeOK, [Next]_vars, NEW p \in Node
  PROVE  LoopCopyStep(p)
<1> USE TypeParts
<1>1. CASE loop' = loop BY <1>1 DEF LoopCopyStep
<1>2. ASSUME NEW n \in Node, \/ loop' = [loop EXCEPT ![n] = [pc |-> "elect"]]
                             \/ \E t : loop' = Leave(n, t)
      PROVE  LoopCopyStep(p)
  BY <1>2 DEF LoopOK, Leave, LoopCopyStep, At
<1>3. ASSUME NEW n \in Node, NEW t \in Task, CampaignStep(n, t) \/ VoteCallFails(n, t)
      PROVE  LoopCopyStep(p)
  <2>1. CASE ReceiveVote(n, t) BY <1>1, <1>2, <2>1 DEF ReceiveVote
  <2>2. CASE FinishCampaign(n, t) BY <1>2, <2>2 DEF FinishCampaign
  <2>3. CASE ~ReceiveVote(n, t) /\ ~FinishCampaign(n, t)
    BY <1>1, <1>3, <2>3 DEF CampaignStep, VoteCallFails, SaveCandidate, RejectStaleVote,
       GrantVote, DenyVote, SaveVote, AnswerVote
  <2> QED BY <2>1, <2>2, <2>3
<1>4. ASSUME NEW n \in Node, ElectionStep(n),
             ~\E t \in Task : CampaignStep(n, t) \/ VoteCallFails(n, t)
      PROVE  LoopCopyStep(p)
  <2>1. CASE StartElection(n) BY <1>2, <2>1 DEF StartElection
  <2>2. CASE PreVoteLost(n) BY <1>2, <2>2 DEF PreVoteLost
  <2>3. CASE ~StartElection(n) /\ ~PreVoteLost(n)
    BY <1>1, <1>4, <2>3 DEF ElectionStep, PreVote, StartRealElection, CopyState,
       HandleTimeoutNow, TransferLeader, SendTimeoutNow, RejectTimeoutNow,
       ReceiveTimeoutNow, StepDown, TimeoutNowFails
  <2> QED BY <2>1, <2>2, <2>3
<1>5. ASSUME NEW n \in Node, LoopStep(n) PROVE LoopCopyStep(p)
  <2>1. CASE CopySnapshot(n)
    <3> DEFINE d == [PersistentData(term[n], vote[n], log[n]) EXCEPT !.snap = loop[n].data]
    <3>1. d.term = term[n] /\ d.vote = vote[n] /\ d.log = log[n] BY SavedFields
    <3>2. loop' = [loop EXCEPT ![n] = [pc |-> "save", data |-> d]]
      BY <2>1 DEF CopySnapshot, GoTo
    <3>3. UNCHANGED <<term, vote, log>> BY <2>1 DEF CopySnapshot, stateVars
    <3> HIDE DEF d
    <3> QED BY <3>1, <3>2, <3>3 DEF LoopOK, LoopCopyStep, Shows
  <2>2. CASE IdlePass(n) \/ BeginHeartbeat(n) \/ ReadSnapshot(n) \/ EndHeartbeat(n)
    BY <2>2 DEF IdlePass, BeginHeartbeat, ReadSnapshot, EndHeartbeat, Goto, GoTo, LoopOK,
       LoopCopyStep, At
  <2>3. CASE SkipPeer(n) \/ \E s \in Sender : SendToPeer(n, s)
    <3>1. /\ loop[n].pc = "send" /\ loop[n] \in Sending
          /\ loop' = [loop EXCEPT ![n] = [loop[n] EXCEPT !.i = @ + 1]]
      BY <2>3, LoopTyped DEF SkipPeer, SendToPeer, GoTo, At
    <3>2. [loop[n] EXCEPT !.i = @ + 1].pc = "send"
      <4> DEFINE b == loop[n]
      <4>1. b \in Sending BY <3>1
      <4> HIDE DEF b
      <4>2. [b EXCEPT !.i = @ + 1].pc = "send" BY <4>1 DEF Sending
      <4> QED BY <4>2 DEF b
    <3> QED BY <3>1, <3>2 DEF LoopOK, LoopCopyStep, At
  <2>4. CASE ReadMatch(n) \/ Tally(n)
    BY <2>4 DEF ReadMatch, Tally, Goto, GoTo, LoopOK, LoopCopyStep, At
  <2>6. CASE AdvanceCommit(n) \/ SetApplied(n)
    BY <2>6 DEF AdvanceCommit, SetApplied, Goto, GoTo, LoopOK, LoopCopyStep, At
  <2>7. CASE ReadCommit(n) BY <2>7 DEF ReadCommit, Goto, GoTo, LoopOK, LoopCopyStep, At
  <2>8. CASE ApplyEntries(n)
    <3>1. loop' = [loop EXCEPT ![n] = [pc |-> "applied", upTo |-> loop[n].upTo]]
      BY <2>8 DEF ApplyEntries, GoTo
    <3> QED BY <3>1 DEF LoopOK, LoopCopyStep, At
  <2>5. CASE CheckSnapshot(n) \/ TakeSnapshot(n) \/ CopyStore(n) \/ Compact(n)
             \/ SaveSnapshot(n)
    BY <2>5 DEF CheckSnapshot, TakeSnapshot, CopyStore, Compact, SaveSnapshot, Goto, GoTo,
       LoopOK, LoopCopyStep, At
  <2> QED BY <1>5, <2>1, <2>2, <2>3, <2>4, <2>5, <2>6, <2>7, <2>8 DEF LoopStep
<1>6. CASE WriteStep \/ \E m \in calls : Handled(m) \/ CallFails(m)
  BY <1>1, <1>6 DEF WriteStep, Put, PutHangs, PutBreaks, Handled, Wedge, RejectStaleAppend,
     MismatchAppend, AcceptAppend, RejectStaleSnapshot, InstallSnapshot, NewerTermAnswer,
     AppendAnswer, SnapshotAnswer, CallFails
<1>7. CASE UNCHANGED vars BY <1>1, <1>7 DEF vars
<1> QED BY <1>3, <1>4, <1>5, <1>6, <1>7, NextParts DEF ReplicationStep

\* Of the copies about to be saved a restart of n leaves those that are not to be saved
\* by n or by its handlers, as they are.
LEMMA RestartKeepsCopies ==
  ASSUME CampOK, NEW n \in Node, Restart(n), NEW p \in Node, NEW t \in Task,
         Pending(camp'[p][t])
  PROVE  /\ camp[p][t] \in CampaignRecord /\ CampaignShape(p, t, camp[p][t])
         /\ camp'[p][t] = camp[p][t] /\ Owner(p, camp[p][t]) # n
<1>1. /\ Running(p, t) /\ p # n
      /\ \/ <<p, t>> \notin CallersOf(n) /\ camp'[p][t] = camp[p][t]
         \/ camp'[p][t] = [camp[p][t] EXCEPT !.i = @ + 1, !.data = Nil, !.st = "ask"]
  BY RestartCampaigns DEF Pending
<1>2. camp[p][t] \in CampaignRecord /\ CampaignShape(p, t, camp[p][t])
  BY <1>1, CampaignTyped
<1>3. camp'[p][t] = camp[p][t] /\ <<p, t>> \notin CallersOf(n)
  <2> DEFINE c == camp[p][t]
  <2>1. c \in CampaignRecord BY <1>2
  <2> HIDE DEF c
  <2>2. [c EXCEPT !.i = @ + 1, !.data = Nil, !.st = "ask"].st = "ask"
    BY <2>1 DEF CampaignRecord
  <2>3. ~Pending([c EXCEPT !.i = @ + 1, !.data = Nil, !.st = "ask"])
    BY <2>2 DEF Pending
  <2> QED BY <1>1, <2>3 DEF c
<1>4. Owner(p, camp[p][t]) # n
  BY <1>1, <1>3 DEF CallersOf, Pending, Owner
<1> QED BY <1>2, <1>3, <1>4

LEMMA RestartFiles ==
  ASSUME CampOK, NEW n \in Node, Restart(n)
  PROVE  FilesStep
<1>1. \A p \in Node : FileStep(p) BY DEF Restart, FileStep
<1>2. \A p \in Node, t \in Task : CopyStep(p, t) BY RestartKeepsCopies DEF CopyStep
<1> QED BY <1>1, <1>2 DEF FilesStep

\* A restart takes the file for the state.
LEMMA RestartNotAhead ==
  ASSUME TypeOK, DiskNotAhead, CopiesNotAhead, LoopCopiesNotAhead, NEW n \in Node, Restart(n)
  PROVE  DiskNotAhead' /\ CopiesNotAhead' /\ LoopCopiesNotAhead'
<1> USE TypeParts
<1>1. /\ term'[n] = disk[n].term /\ vote'[n] = disk[n].vote /\ disk' = disk
      /\ \A p \in Node \ {n} : term'[p] = term[p] /\ vote'[p] = vote[p]
  BY DEF Restart, ServerOK
<1>2. DiskNotAhead'
  <2>1. disk[n].term \in Nat BY FileTyped, TermNat
  <2> QED BY <1>1, <2>1 DEF DiskNotAhead
<1>3. ASSUME NEW p \in Node, NEW t \in Task, Pending(camp'[p][t])
      PROVE  LET c == camp'[p][t]
             IN  NotAhead(c.data, term'[Owner(p, c)], vote'[Owner(p, c)])
  <2>1. /\ camp[p][t] \in CampaignRecord /\ CampaignShape(p, t, camp[p][t])
        /\ camp'[p][t] = camp[p][t] /\ Owner(p, camp[p][t]) # n
    BY <1>3, RestartKeepsCopies
  <2>2. Owner(p, camp[p][t]) \in Node BY <1>3, <2>1, OwnerTyped
  <2> QED BY <1>1, <1>3, <2>1, <2>2 DEF CopiesNotAhead
<1>4. CopiesNotAhead' BY <1>3 DEF CopiesNotAhead, NotAhead, Pending, Owner, Peer
<1>5. ASSUME NEW p \in Node, At(p, "save")' PROVE NotAhead(loop'[p].data, term'[p], vote'[p])
  <2>1. loop'[p] = loop[p] /\ p # n BY <1>5 DEF Restart, LoopOK, At
  <2>2. At(p, "save") BY <1>5, <2>1 DEF At
  <2> QED BY <1>1, <2>1, <2>2 DEF LoopCopiesNotAhead
<1>6. LoopCopiesNotAhead' BY <1>5 DEF LoopCopiesNotAhead, NotAhead
<1> QED BY <1>2, <1>4, <1>6

LEMMA StepsOnFiles ==
  ASSUME TypeOK, TypeOK', [NextCrash]_vars
  PROVE  FilesStep
<1>1. CASE UNCHANGED vars BY <1>1, FilesUntouched DEF vars
<1>2. CASE Next BY <1>2, ElectionFiles, ReplicationFiles, NextParts
<1>3. CASE \E n \in Node : Restart(n) BY <1>3, RestartFiles, TypeParts
<1> QED BY <1>1, <1>2, <1>3 DEF NextCrash

LEMMA DiskStep == DiskInv /\ [NextCrash]_vars => DiskInv'
<1> SUFFICES ASSUME DiskInv, [NextCrash]_vars PROVE DiskInv' OBVIOUS
<1>1. TypeInv' /\ TypeOK /\ TypeOK' /\ DiskNotAhead /\ CopiesNotAhead /\ LoopCopiesNotAhead
  BY CrashTypes DEF DiskInv, TypeInv
<1>2. CASE [Next]_vars
  <2>1. \A n \in Node : KeepsVote(n) /\ LoopCopyStep(n)
    BY <1>2, NextServerStep, StepKeepsVotes, LoopCopies, TypeParts DEF DiskInv, TypeInv
  <2> QED BY <1>1, <2>1, StepsOnFiles, FilesKept DEF DiskInv
<1>3. CASE \E n \in Node : Restart(n) BY <1>1, <1>3, RestartNotAhead DEF DiskInv
<1> QED BY <1>2, <1>3 DEF NextCrash

\* The file of a node shows no term it has not reached and, in its present term, no vote
\* it has not cast (storage.rs save, called without the lock by campaigns, handlers, the
\* loop and clients, in any order), restarts from that file included.
THEOREM CrashDiskNotAhead == SpecCrash => []DiskNotAhead
<1>1. Init => DiskInv
  <2> SUFFICES ASSUME Init PROVE DiskInv OBVIOUS
  <2>1. DiskNotAhead BY DEF Init, DiskNotAhead, PersistentData
  <2>2. CopiesNotAhead BY DEF Init, CopiesNotAhead, Pending
  <2>3. LoopCopiesNotAhead BY DEF Init, LoopCopiesNotAhead, At
  <2> QED BY <2>1, <2>2, <2>3, InitTypes DEF DiskInv
<1>2. DiskInv => DiskNotAhead BY DEF DiskInv
<1> QED BY <1>1, <1>2, DiskStep, PTL DEF SpecCrash

\* The same of a cluster whose nodes do not stop.
THEOREM RaftDiskNotAhead == Spec => []DiskNotAhead
BY CrashDiskNotAhead, RaftNeverCrashes, PTL

-----------------------------------------------------------------------------
(* Terms with two leaders. *)

\* A main loop past PreVote asks for votes in a term its node has reached.
LoopTerms == \A n \in Node :
  Running(n, Loop) /\ camp[n][Loop].st # "pre" => camp[n][Loop].term <= term[n]

\* A leader became one in its present term.
LeaderWon == \A n \in Node :
  role[n] = "Leader" => \E w \in wins : w.node = n /\ w.at = term[n]

\* A main loop takes up the leadership in the term of its votes or in a later one.
WinsLater == \A w \in wins : w.task = Loop => w.term <= w.at

LeaderInv == WinInv /\ LoopTerms /\ LeaderWon /\ WinsLater

\* Past PreVote the campaign of a main loop keeps its term; it starts in one its node
\* has just reached.
TermStep(n) ==
  Running(n, Loop)' /\ camp'[n][Loop].st # "pre" =>
    \/ /\ Running(n, Loop) /\ camp[n][Loop].st # "pre"
       /\ camp'[n][Loop].term = camp[n][Loop].term
    \/ camp'[n][Loop].term = term'[n] /\ term'[n] > term[n]

\* A leader is made by a majority, and stays one in its term only.
RoleStep(n) ==
  role'[n] = "Leader" => \/ role[n] = "Leader" /\ term'[n] = term[n]
                         \/ \E t \in Task : Won(n, t)

LEMMA CampaignTermStep ==
  ASSUME CampOK, NEW n \in Node, NEW t \in Task, NEW c, SetCamp(n, t, c),
         t = Loop /\ c # Nil /\ c.st # "pre" =>
           \/ Running(n, t) /\ camp[n][t].st # "pre" /\ c.term = camp[n][t].term
           \/ c.term = term'[n] /\ term'[n] > term[n],
         NEW p \in Node
  PROVE  TermStep(p)
<1>0. Loop \in Task BY DEF Task
<1>1. CASE p = n /\ t = Loop
  <2>1. camp'[p][Loop] = c BY <1>0, <1>1 DEF SetCamp, CampOK
  <2> QED BY <1>1, <2>1 DEF TermStep, Running
<1>2. CASE ~(p = n /\ t = Loop)
  <2>1. camp'[p][Loop] = camp[p][Loop] BY <1>0, <1>2 DEF SetCamp, CampOK
  <2> QED BY <2>1 DEF TermStep, Running
<1> QED BY <1>1, <1>2

LEMMA CampaignTerms ==
  ASSUME CampOK, NEW n \in Node, NEW t \in Task, CampaignStep(n, t) \/ VoteCallFails(n, t),
         NEW p \in Node
  PROVE  TermStep(p)
<1> DEFINE c == camp[n][t]
<1>1. Running(n, t)
  BY DEF CampaignStep, VoteCallFails, SaveCandidate, ReceiveVote, FinishCampaign,
     RejectStaleVote, GrantVote, DenyVote, Asked, SaveVote, AnswerVote, Calling
<1>2. c \in CampaignRecord BY <1>1, CampaignTyped
<1>3. ASSUME NEW d, SetCamp(n, t, d), d.term = c.term, c.st # "pre" PROVE TermStep(p)
  BY <1>1, <1>3, CampaignTermStep
<1>4. CASE SaveCandidate(n, t)
  <2>1. PICK d : SetCamp(n, t, d) /\ d = [c EXCEPT !.st = "ask", !.data = Nil,
                          !.lastTerm = LastTerm(log[n]), !.lastIdx = LastIndex(log[n])]
    BY <1>4 DEF SaveCandidate
  <2>2. c.st # "pre" BY <1>4 DEF SaveCandidate
  <2> HIDE DEF c
  <2>3. d.term = c.term BY <1>2, <2>1 DEF CampaignRecord
  <2> QED BY <1>3, <2>1, <2>2, <2>3
<1>5. CASE ReceiveVote(n, t)
  <2> DEFINE yes == IF c.reply.granted THEN c.yes \cup {Peer(n, c)} ELSE c.yes
  <2>1. PICK d : SetCamp(n, t, d) /\
          (d = Nil \/ d = [c EXCEPT !.st = "ask", !.i = @ + 1, !.reply = Nil, !.yes = yes])
    BY <1>5 DEF ReceiveVote
  <2>2. c.st # "pre" BY <1>5 DEF ReceiveVote
  <2> HIDE DEF c, yes
  <2>3. d = Nil \/ d.term = c.term BY <1>2, <2>1 DEF CampaignRecord
  <2> QED BY <1>3, <2>1, <2>2, <2>3, CampaignTermStep
<1>6. CASE FinishCampaign(n, t) BY <1>6, CampaignTermStep DEF FinishCampaign
<1>7. ASSUME NEW v \in Node, RejectStaleVote(n, t, v) PROVE TermStep(p)
  <2>1. PICK d : SetCamp(n, t, d) /\ d = [c EXCEPT !.st = "got",
                   !.reply = [term |-> term[v], granted |-> FALSE]]
    BY <1>7 DEF RejectStaleVote
  <2>2. c.st # "pre" BY <1>7 DEF RejectStaleVote, Asked
  <2> HIDE DEF c
  <2>3. d.term = c.term BY <1>2, <2>1 DEF CampaignRecord
  <2> QED BY <1>3, <2>1, <2>2, <2>3
<1>8. ASSUME NEW v \in Node, GrantVote(n, t, v) PROVE TermStep(p)
  <2>1. PICK d : SetCamp(n, t, d) /\ d = [c EXCEPT !.st = "saving",
                   !.data = PersistentData(c.term, n, log[v])]
    BY <1>8 DEF GrantVote
  <2>2. c.st # "pre" BY <1>8 DEF GrantVote, Asked
  <2> HIDE DEF c
  <2>3. d.term = c.term BY <1>2, <2>1 DEF CampaignRecord
  <2> QED BY <1>3, <2>1, <2>2, <2>3
<1>9. ASSUME NEW v \in Node, DenyVote(n, t, v) PROVE TermStep(p)
  <2>1. PICK d : SetCamp(n, t, d) /\ d = [c EXCEPT !.st = "wait"] BY <1>9 DEF DenyVote
  <2>2. c.st # "pre" BY <1>9 DEF DenyVote, Asked
  <2> HIDE DEF c
  <2>3. d.term = c.term BY <1>2, <2>1 DEF CampaignRecord
  <2> QED BY <1>3, <2>1, <2>2, <2>3
<1>10. CASE SaveVote(n, t)
  <2>1. PICK d : SetCamp(n, t, d) /\ d = [c EXCEPT !.st = "saved", !.data = Nil]
    BY <1>10 DEF SaveVote
  <2>2. c.st # "pre" BY <1>10 DEF SaveVote
  <2> HIDE DEF c
  <2>3. d.term = c.term BY <1>2, <2>1 DEF CampaignRecord
  <2> QED BY <1>3, <2>1, <2>2, <2>3
<1>11. CASE AnswerVote(n, t)
  <2>1. PICK d : SetCamp(n, t, d) /\ d = [c EXCEPT !.st = "got",
                   !.reply = [term |-> term[Peer(n, c)], granted |-> TRUE]]
    BY <1>11 DEF AnswerVote
  <2>2. c.st # "pre" BY <1>11 DEF AnswerVote
  <2> HIDE DEF c
  <2>3. d.term = c.term BY <1>2, <2>1 DEF CampaignRecord
  <2> QED BY <1>3, <2>1, <2>2, <2>3
<1>12. CASE VoteCallFails(n, t)
  <2>1. PICK d : SetCamp(n, t, d) /\ d = [c EXCEPT !.i = @ + 1, !.data = Nil,
                          !.st = IF c.st = "pre" THEN "pre" ELSE "ask"]
    BY <1>12 DEF VoteCallFails
  <2> HIDE DEF c
  <2>2. d.term = c.term BY <1>2, <2>1 DEF CampaignRecord
  <2>3. c.st = "pre" => d.st = "pre" BY <1>2, <2>1 DEF CampaignRecord
  <2> QED BY <1>3, <2>1, <2>2, <2>3, CampaignTermStep
<1> QED
  BY <1>4, <1>5, <1>6, <1>7, <1>8, <1>9, <1>10, <1>11, <1>12 DEF CampaignStep

LEMMA ElectionTerms ==
  ASSUME TypeOK, NEW n \in Node, ElectionStep(n), NEW p \in Node
  PROVE  TermStep(p)
<1> USE TypeParts
<1>0. Loop \in Task /\ \A t \in Handler : t \in Task /\ t # Loop
  BY TaskAssumption DEF Task
<1>1. CASE \E t \in Task : CampaignStep(n, t) \/ VoteCallFails(n, t)
  BY <1>1, CampaignTerms
<1>2. CASE StartElection(n)
  <2> DEFINE c == [Campaign("pre", n) EXCEPT !.term = term[n] + 1,
                     !.lastTerm = LastTerm(log[n]), !.lastIdx = LastIndex(log[n])]
  <2>1. SetCamp(n, Loop, c) BY <1>2 DEF StartElection
  <2>2. c.st = "pre" BY DEF Campaign
  <2> HIDE DEF c
  <2> QED BY <1>0, <2>1, <2>2, CampaignTermStep
<1>3. CASE PreVote(n)
  <2> DEFINE c == camp[n][Loop]
             yes == IF GrantsPreVote(Peer(n, c), c) THEN c.yes \cup {Peer(n, c)} ELSE c.yes
             d == [c EXCEPT !.i = @ + 1, !.yes = yes]
  <2>1. c \in CampaignRecord /\ c.st = "pre" BY <1>0, <1>3, CampaignTyped DEF PreVote
  <2>2. SetCamp(n, Loop, d) BY <1>3 DEF PreVote
  <2> HIDE DEF c, yes
  <2>3. d.st = "pre" BY <2>1 DEF CampaignRecord
  <2> HIDE DEF d
  <2> QED BY <1>0, <2>2, <2>3, CampaignTermStep
<1>4. CASE PreVoteLost(n) BY <1>0, <1>4, CampaignTermStep DEF PreVoteLost
<1>5. CASE StartRealElection(n)
  <2> DEFINE c == [Campaign("save", n) EXCEPT !.term = term[n] + 1,
                     !.data = PersistentData(term[n] + 1, n, log[n])]
  <2>1. SetCamp(n, Loop, c) BY <1>5 DEF StartRealElection
  <2>2. c.term = term[n] + 1 BY DEF Campaign
  <2>3. term'[n] = term[n] + 1 /\ term[n] \in Nat
    BY <1>5, TermNat DEF StartRealElection, BecomeCandidate, ServerOK
  <2> HIDE DEF c
  <2> QED BY <1>0, <2>1, <2>2, <2>3, CampaignTermStep
<1>6. ASSUME NEW t \in Handler, CopyState(n, t) PROVE TermStep(p)
  BY <1>0, <1>6, CampaignTermStep DEF CopyState
<1>7. ASSUME NEW t \in Handler, HandleTimeoutNow(n, t) PROVE TermStep(p)
  <2>1. xfer[n].target \in Node BY <1>7 DEF HandleTimeoutNow, WaitOK, Option, Transfer
  <2> QED BY <1>0, <1>7, <2>1, CampaignTermStep DEF HandleTimeoutNow
<1>8. CASE TimeoutNowFails(n)
  <2>1. camp'[p][Loop] = camp[p][Loop]
    BY <1>0, <1>8 DEF TimeoutNowFails, EndCampaigns, Served
  <2> QED BY <2>1 DEF TermStep, Running
<1>9. CASE \/ \E q \in Node : TransferLeader(n, q)
           \/ SendTimeoutNow(n) \/ RejectTimeoutNow(n) \/ ReceiveTimeoutNow(n)
           \/ StepDown(n)
  <2>1. UNCHANGED camp
    BY <1>9 DEF TransferLeader, SendTimeoutNow, RejectTimeoutNow, ReceiveTimeoutNow, StepDown
  <2> QED BY <2>1 DEF TermStep, Running
<1> QED
  BY <1>1, <1>2, <1>3, <1>4, <1>5, <1>6, <1>7, <1>8, <1>9 DEF ElectionStep

\* A node that is made a follower or a candidate leads no more; the others are left alone.
LEMMA StepsDown ==
  ASSUME ServerOK, NEW q \in Node, NEW p \in Node,
         \/ \E t, l : BecomeFollower(q, t, l)
         \/ BecomeCandidate(q)
  PROVE  RoleStep(p)
<1>1. CASE p = q BY <1>1 DEF RoleStep, BecomeFollower, BecomeCandidate, ServerOK
<1>2. CASE p # q BY <1>2 DEF RoleStep, BecomeFollower, BecomeCandidate, ServerOK
<1> QED BY <1>1, <1>2

LEMMA JoinsDown ==
  ASSUME ServerOK, CampOK, NEW n \in Node, NEW t \in Task, NEW v \in Node, NEW p \in Node,
         Asked(n, t, v), JoinTerm(n, t, v)
  PROVE  RoleStep(p)
<1> DEFINE q == camp[n][t].term
<1>1. q \in Term /\ term[v] \in Term BY AskedTyped DEF ServerOK
<1>2. /\ term' = [term EXCEPT ![v] = Larger(term[v], q)]
      /\ role' = [role EXCEPT ![v] = IF q > term[v] THEN "Follower" ELSE @]
  BY DEF JoinTerm
<1> HIDE DEF q
<1>3. q \in Nat /\ term[v] \in Nat BY <1>1, TermNat
<1>4. CASE q > term[v]
  <2>1. p = v => role'[p] = "Follower" BY <1>2, <1>4 DEF ServerOK
  <2>2. p # v => role'[p] = role[p] /\ term'[p] = term[p] BY <1>2 DEF ServerOK
  <2> QED BY <2>1, <2>2 DEF RoleStep
<1>5. CASE ~(q > term[v])
  <2>1. Larger(term[v], q) = term[v] BY <1>3, <1>5 DEF Larger
  <2>2. role'[p] = role[p] /\ term'[p] = term[p] BY <1>2, <1>5, <2>1 DEF ServerOK
  <2> QED BY <2>2 DEF RoleStep
<1> QED BY <1>4, <1>5

LEMMA CampaignRoles ==
  ASSUME TypeOK, NEW n \in Node, NEW t \in Task, CampaignStep(n, t) \/ VoteCallFails(n, t),
         NEW p \in Node
  PROVE  RoleStep(p)
<1> USE TypeParts
<1>1. CASE \/ SaveCandidate(n, t) \/ SaveVote(n, t) \/ AnswerVote(n, t)
           \/ VoteCallFails(n, t) \/ \E v \in Node : RejectStaleVote(n, t, v)
  BY <1>1 DEF SaveCandidate, SaveVote, AnswerVote, VoteCallFails, RejectStaleVote, stateVars,
     RoleStep
<1>2. CASE ReceiveVote(n, t) BY <1>2, StepsDown DEF ReceiveVote, stateVars, RoleStep
<1>3. ASSUME NEW v \in Node, GrantVote(n, t, v) \/ DenyVote(n, t, v) PROVE RoleStep(p)
  BY <1>3, JoinsDown DEF GrantVote, DenyVote
<1>4. CASE FinishCampaign(n, t)
  <2>1. CASE HasMajority(n, camp[n][t])
    <3>1. Won(n, t) BY <1>4, <2>1 DEF Won, FinishCampaign, BecomeLeader
    <3>2. p # n => role'[p] = role[p] /\ term'[p] = term[p]
      BY <1>4, <2>1 DEF FinishCampaign, BecomeLeader, ServerOK
    <3> QED BY <3>1, <3>2 DEF RoleStep
  <2>2. CASE ~HasMajority(n, camp[n][t])
    BY <1>4, <2>2 DEF FinishCampaign, stateVars, RoleStep
  <2> QED BY <2>1, <2>2
<1> QED BY <1>1, <1>2, <1>3, <1>4 DEF CampaignStep

LEMMA NextRoles ==
  ASSUME TypeOK, [Next]_vars, NEW p \in Node
  PROVE  RoleStep(p)
<1> USE TypeParts
<1>1. CASE UNCHANGED stateVars BY <1>1 DEF stateVars, RoleStep
<1>2. ASSUME NEW n \in Node, NEW t \in Task, CampaignStep(n, t) \/ VoteCallFails(n, t)
      PROVE  RoleStep(p)
  BY <1>2, CampaignRoles
<1>3. ASSUME NEW n \in Node, ElectionStep(n),
             ~\E t \in Task : CampaignStep(n, t) \/ VoteCallFails(n, t)
      PROVE  RoleStep(p)
  <2>1. CASE StartRealElection(n) BY <2>1, StepsDown DEF StartRealElection
  <2>2. CASE \E t \in Handler : HandleTimeoutNow(n, t)
    <3>1. xfer[n].target \in Node BY <2>2 DEF HandleTimeoutNow, WaitOK, Option, Transfer
    <3> QED BY <2>2, <3>1, StepsDown DEF HandleTimeoutNow
  <2>3. CASE ReceiveTimeoutNow(n) \/ StepDown(n)
    BY <1>1, <2>3, StepsDown DEF ReceiveTimeoutNow, StepDown
  <2>4. CASE \/ StartElection(n) \/ PreVote(n) \/ PreVoteLost(n)
             \/ \E t \in Handler : CopyState(n, t)
             \/ \E q \in Node : TransferLeader(n, q)
             \/ SendTimeoutNow(n) \/ RejectTimeoutNow(n) \/ TimeoutNowFails(n)
    BY <1>1, <2>4 DEF StartElection, PreVote, PreVoteLost, CopyState, TransferLeader,
       SendTimeoutNow, RejectTimeoutNow, TimeoutNowFails
  <2> QED BY <1>3, <2>1, <2>2, <2>3, <2>4 DEF ElectionStep
<1>4. ASSUME NEW n \in Node, LoopStep(n) PROVE RoleStep(p)
  BY <1>1, <1>4, LoopLeavesElections
<1>5. ASSUME NEW m \in calls, Handled(m) \/ CallFails(m) PROVE RoleStep(p)
  <2>1. m.from \in Node /\ m.to \in Node BY ReceivedTyped
  <2>2. CASE Wedge(m) \/ MismatchAppend(m) \/ AcceptAppend(m) \/ InstallSnapshot(m)
    <3>1. YieldTo(m) BY <2>2 DEF Wedge, MismatchAppend, AcceptAppend, InstallSnapshot
    <3>2. CASE \E t, l : BecomeFollower(m.to, t, l) BY <2>1, <3>2, StepsDown
    <3>3. CASE UNCHANGED <<role, term, vote>> BY <3>3 DEF RoleStep
    <3> QED BY <3>1, <3>2, <3>3 DEF YieldTo
  <2>3. CASE NewerTermAnswer(m) BY <2>1, <2>3, StepsDown DEF NewerTermAnswer
  <2>4. CASE \/ RejectStaleAppend(m) \/ RejectStaleSnapshot(m) \/ AppendAnswer(m)
             \/ SnapshotAnswer(m) \/ CallFails(m)
    BY <1>1, <2>4 DEF RejectStaleAppend, RejectStaleSnapshot, AppendAnswer, SnapshotAnswer,
       CallFails
  <2> QED BY <1>5, <2>2, <2>3, <2>4 DEF Handled
<1>6. CASE WriteStep BY <1>1, <1>6 DEF WriteStep, Put, PutHangs, PutBreaks
<1>7. CASE UNCHANGED vars BY <1>1, <1>7 DEF vars, stateVars
<1> QED BY <1>2, <1>3, <1>4, <1>5, <1>6, <1>7, NextParts DEF ReplicationStep

LEMMA NextTerms ==
  ASSUME TypeOK, [Next]_vars, NEW p \in Node
  PROVE  TermStep(p)
<1>1. CASE UNCHANGED vars BY <1>1 DEF vars, TermStep, Running
<1>2. CASE \E n \in Node : ElectionStep(n) BY <1>2, ElectionTerms
<1>3. CASE ReplicationStep
  BY <1>3, ReplicationLeavesElections DEF campaignVars, TermStep, Running
<1> QED BY <1>1, <1>2, <1>3, NextParts

LEMMA LeaderStep == LeaderInv /\ [Next]_vars => LeaderInv'
<1> SUFFICES ASSUME LeaderInv, [Next]_vars PROVE LeaderInv' OBVIOUS
<1>1. WinInv' /\ TypeOK /\ TypeOK' /\ TypeInv
  BY WinStep DEF LeaderInv, WinInv, VoteInv, TypeInv
<1>2. \A n \in Node : KeepsVote(n) /\ TermStep(n) /\ RoleStep(n)
  BY <1>1, NextServerStep, StepKeepsVotes, NextTerms, NextRoles, TypeParts
<1>3. wins \subseteq wins' BY NextWins DEF Won
<1>4. ASSUME NEW n \in Node, camp'[n][Loop] # Nil, camp'[n][Loop].st # "pre"
      PROVE  camp'[n][Loop].term <= term'[n]
  <2>1. term[n] \in Nat /\ term'[n] \in Nat BY <1>1, TermNat DEF TypeOK
  <2>2. CASE camp'[n][Loop].term = term'[n] BY <2>1, <2>2
  <2>3. CASE /\ Running(n, Loop) /\ camp[n][Loop].st # "pre"
             /\ camp'[n][Loop].term = camp[n][Loop].term
    <3>1. camp[n][Loop].term \in Nat
      BY <1>1, <2>3, CampaignTyped, TypeParts, TermNat DEF CampaignRecord, Task
    <3>2. camp[n][Loop].term <= term[n] BY <2>3 DEF LeaderInv, LoopTerms
    <3>3. term[n] <= term'[n] BY <1>2, <2>1 DEF KeepsVote
    <3> QED BY <2>1, <2>3, <3>1, <3>2, <3>3
  <2> QED BY <1>2, <1>4, <2>2, <2>3 DEF TermStep, Running
<1>5. LoopTerms' BY <1>4 DEF LoopTerms, Running
<1>6. ASSUME NEW n \in Node, role'[n] = "Leader"
      PROVE  \E w \in wins' : w.node = n /\ w.at = term'[n]
  <2>1. CASE role[n] = "Leader" /\ term'[n] = term[n]
    BY <1>3, <2>1 DEF LeaderInv, LeaderWon
  <2>2. ASSUME NEW t \in Task, Won(n, t)
        PROVE  \E w \in wins' : w.node = n /\ w.at = term'[n]
    <3> DEFINE win == [node |-> n, task |-> t, term |-> camp[n][t].term, at |-> term[n]]
    <3>1. win \in wins' /\ term' = term BY <2>2 DEF Won
    <3>2. win.node = n /\ win.at = term[n] OBVIOUS
    <3> HIDE DEF win
    <3> QED BY <3>1, <3>2
  <2> QED BY <1>2, <1>6, <2>1, <2>2 DEF RoleStep
<1>7. LeaderWon' BY <1>6 DEF LeaderWon
<1>8. ASSUME NEW w \in wins', w.task = Loop PROVE w.term <= w.at
  <2>1. CASE w \in wins BY <1>8, <2>1 DEF LeaderInv, WinsLater
  <2>2. ASSUME NEW n \in Node, NEW t \in Task, Won(n, t), w \notin wins
        PROVE  w.term <= w.at
    <3>1. w = [node |-> n, task |-> t, term |-> camp[n][t].term, at |-> term[n]]
      BY <2>2 DEF Won
    <3>2. w.term = camp[n][t].term /\ w.at = term[n] /\ t = Loop BY <1>8, <3>1
    <3>3. Running(n, t) /\ camp[n][t].st # "pre" BY <2>2 DEF Won, FinishCampaign
    <3> QED BY <3>2, <3>3 DEF LeaderInv, LoopTerms
  <2> QED BY <2>1, <2>2, NextWins
<1>9. WinsLater' BY <1>8 DEF WinsLater
<1> QED BY <1>1, <1>5, <1>7, <1>9 DEF LeaderInv

LEMMA LeaderInit == Init => LeaderInv
<1> SUFFICES ASSUME Init PROVE LeaderInv OBVIOUS
<1>1. WinInv
  BY InitTypes DEF Init, WinInv, VoteInv, VoteRemembersBallot, OneVotePerTerm, LoopsBacked,
     Backed, WinsSupported, Task
<1>2. LoopTerms /\ LeaderWon /\ WinsLater
  BY DEF Init, LoopTerms, LeaderWon, WinsLater, Running, Task
<1> QED BY <1>1, <1>2 DEF LeaderInv

\* Two leaders share a term only when one of them was elected for an older term
\* (election.rs start_real_election counts with no lock, and become_leader looks at
\* nothing), or by a handle_timeout_now campaign: without these two, one leader a term.
THEOREM RaftSharedTermIsStale == Spec => []SharedTermIsStale
<1>1. LeaderInv => SharedTermIsStale
  <2> SUFFICES ASSUME LeaderInv, NEW p \in Node, NEW q \in Node, p # q,
                      role[p] = "Leader", role[q] = "Leader", term[p] = term[q]
               PROVE  \E w \in wins : /\ w.node \in {p, q} /\ w.at = term[p]
                                      /\ (w.term < w.at \/ w.task \in Handler)
    BY DEF SharedTermIsStale
  <2>1. PICK v \in wins : v.node = p /\ v.at = term[p] BY DEF LeaderInv, LeaderWon
  <2>2. PICK w \in wins : w.node = q /\ w.at = term[q] BY DEF LeaderInv, LeaderWon
  <2>3. v \in Win /\ w \in Win
    BY TypeParts DEF LeaderInv, WinInv, VoteInv, TypeInv, PastOK
  <2>4. /\ v.term \in Nat /\ v.at \in Nat /\ w.term \in Nat /\ w.at \in Nat
        /\ v.task \in Task /\ w.task \in Task
    BY <2>3, TermNat DEF Win
  <2>5. CASE v.term < v.at \/ v.task \in Handler BY <2>1, <2>5
  <2>6. CASE w.term < w.at \/ w.task \in Handler BY <2>2, <2>6
  <2>7. CASE /\ ~(v.term < v.at) /\ v.task \notin Handler
             /\ ~(w.term < w.at) /\ w.task \notin Handler
    <3>1. v.task = Loop /\ w.task = Loop BY <2>4, <2>7 DEF Task
    <3>2. v.term <= v.at /\ w.term <= w.at BY <3>1 DEF LeaderInv, WinsLater
    <3>3. v.term = w.term BY <2>1, <2>2, <2>4, <2>7, <3>2
    <3> QED BY <2>1, <2>2, <3>1, <3>3, WinsElectOnce DEF LeaderInv, ElectedOnce
  <2> QED BY <2>5, <2>6, <2>7
<1> QED BY <1>1, LeaderInit, LeaderStep, PTL DEF Spec

-----------------------------------------------------------------------------
(* What files and requests hold: a property of logs that the logs keep, the files keep,
   and a property of requests that new requests have, the open ones have. *)

FilesIn(S) ==
  /\ \A n \in Node : disk[n].log \in S
  /\ \A n \in Node, t \in Task : Pending(camp[n][t]) => camp[n][t].data.log \in S
  /\ \A n \in Node : At(n, "save") => loop[n].data.log \in S

RequestsIn(R) == \A m \in calls : m.req \in R

\* What is saved, and what is about to be, is a log as it was, or is now.
LEMMA FilesStayIn ==
  ASSUME TypeOK, TypeOK', FilesStep, \A n \in Node : LoopCopyStep(n), NEW S, FilesIn(S),
         \A n \in Node : log'[n] \in S
  PROVE  FilesIn(S)'
<1> USE TypeParts, TypePartsNext
<1>1. ASSUME NEW n \in Node PROVE disk'[n].log \in S
  <2>1. CASE disk'[n] = disk[n] BY <2>1 DEF FilesIn
  <2>2. CASE \E p \in Node, t \in Task :
               Pending(camp[p][t]) /\ disk'[n] = camp[p][t].data
    BY <2>2 DEF FilesIn
  <2>3. CASE Shows(disk[n], n)' BY <2>3 DEF Shows
  <2>4. CASE At(n, "save") /\ disk'[n] = loop[n].data BY <2>4 DEF FilesIn
  <2> QED BY <2>1, <2>2, <2>3, <2>4 DEF FilesStep, FileStep
<1>2. ASSUME NEW n \in Node, NEW t \in Task, Pending(camp'[n][t])
      PROVE  camp'[n][t].data.log \in S
  <2>1. Pending(camp[n][t])' BY <1>2 DEF Pending
  <2>2. CASE camp'[n][t] = camp[n][t] BY <1>2, <2>2 DEF FilesIn
  <2>3. CASE Shows(camp[n][t].data, Owner(n, camp[n][t]))'
    <3> DEFINE w == Owner(n, camp'[n][t])
    <3>1. camp'[n][t].data.log = log'[w] BY <2>3 DEF Shows, Owner, Peer
    <3>2. w \in Node
      <4>1. camp'[n][t] \in CampaignRecord /\ CampaignShape(n, t, camp'[n][t])
        BY <1>2 DEF CampOK, Pending, Option, Running, CampaignShape, PeersLeft
      <4> QED BY <1>2, <4>1, OwnerTyped
    <3> HIDE DEF w
    <3> QED BY <3>1, <3>2
  <2> QED BY <2>1, <2>2, <2>3 DEF FilesStep, CopyStep
<1>3. ASSUME NEW n \in Node, At(n, "save")' PROVE loop'[n].data.log \in S
  <2>1. CASE loop'[n] = loop[n] BY <1>3, <2>1 DEF FilesIn, At
  <2>2. CASE Shows(loop[n].data, n)' BY <2>2 DEF Shows
  <2> QED BY <1>3, <2>1, <2>2 DEF LoopCopyStep
<1> QED BY <1>1, <1>2, <1>3 DEF FilesIn, Pending, At

LEMMA StepsOnLoopCopies ==
  ASSUME TypeOK, [NextCrash]_vars, NEW n \in Node
  PROVE  LoopCopyStep(n)
<1>1. CASE [Next]_vars BY <1>1, LoopCopies
<1>2. ASSUME NEW p \in Node, Restart(p) PROVE LoopCopyStep(n)
  <2>1. loop'[n] = loop[n] \/ loop'[n].pc = "idle" BY <1>2, TypeParts DEF Restart, LoopOK
  <2> QED BY <2>1 DEF LoopCopyStep, At
<1> QED BY <1>1, <1>2 DEF NextCrash

\* Requests are made by SendToPeer only; an answer leaves its request as it is.
Sends(n, p, q) ==
  /\ At(n, "send")
  /\ \/ q = AppendRequest(n, p, loop[n])
     \/ /\ loop[n].next[p] <= loop[n].snapIdx /\ loop[n].snap # Nil
        /\ q = SnapshotRequest(loop[n])

LEMMA RequestsCome ==
  ASSUME TypeOK, [Next]_vars, NEW c \in calls'
  PROVE  \/ \E m \in calls : c.req = m.req /\ c.from = m.from /\ c.to = m.to
         \/ /\ c.from \in Node /\ c.to \in Node \ {c.from}
            /\ Sends(c.from, c.to, c.req)
<1> USE TypeParts
<1> DEFINE Goal == \/ \E m \in calls : c.req = m.req /\ c.from = m.from /\ c.to = m.to
                   \/ /\ c.from \in Node /\ c.to \in Node \ {c.from}
                      /\ Sends(c.from, c.to, c.req)
<1>1. ASSUME calls' \subseteq calls PROVE Goal BY <1>1
<1>2. ASSUME NEW n \in Node, NEW s \in Sender, SendToPeer(n, s) PROVE Goal
  <2> DEFINE b == loop[n]
             p == PeerSeq[n][b.i]
  <2>1. b \in Sending BY <1>2, LoopTyped DEF SendToPeer, At
  <2>2. p \in Node \ {n}
    <3>1. b.i \in Nat \ {0} BY <2>1 DEF Sending
    <3> QED BY <1>2, <3>1, PeerIsNode DEF SendToPeer
  <2>3. CASE UNCHANGED calls BY <1>1, <2>3
  <2>4. ASSUME NEW q, Sends(n, p, q),
               calls' = calls \cup {[from |-> n, to |-> p, slot |-> s, req |-> q,
                                     reply |-> Nil]}
        PROVE  Goal
    <3> DEFINE m == [from |-> n, to |-> p, slot |-> s, req |-> q, reply |-> Nil]
    <3>1. m.req = q /\ m.from = n /\ m.to = p /\ calls' = calls \cup {m} BY <2>4
    <3> HIDE DEF m
    <3>2. c \in calls \/ (c.req = q /\ c.from = n /\ c.to = p) BY <3>1
    <3> HIDE DEF p
    <3> QED BY <2>2, <2>4, <3>2
  <2>5. At(n, "send") BY <1>2 DEF SendToPeer
  <2>6. Sends(n, p, AppendRequest(n, p, b)) BY <2>5 DEF Sends
  <2>7. b.next[p] <= b.snapIdx /\ b.snap # Nil => Sends(n, p, SnapshotRequest(b))
    BY <2>5 DEF Sends
  <2> HIDE DEF Goal
  <2> QED BY <1>2, <2>3, <2>4, <2>6, <2>7 DEF SendToPeer
<1>3. ASSUME NEW m \in calls, NEW r, Reply(m, r) PROVE Goal
  <2> DEFINE a == [m EXCEPT !.reply = r]
  <2>1. m \in Call BY DEF CallsOK
  <2>2. a.req = m.req /\ a.from = m.from /\ a.to = m.to /\ calls' = (calls \ {m}) \cup {a}
    BY <1>3, <2>1 DEF Reply, Call
  <2> HIDE DEF a
  <2> QED BY <2>2
<1>4. ASSUME NEW n \in Node, ElectionStep(n) PROVE UNCHANGED calls
  <2>1. ASSUME NEW t \in Task, CampaignStep(n, t) \/ VoteCallFails(n, t)
        PROVE  UNCHANGED calls
    BY <2>1 DEF CampaignStep, VoteCallFails, SaveCandidate, ReceiveVote, FinishCampaign,
       RejectStaleVote, GrantVote, DenyVote, SaveVote, AnswerVote
  <2>2. CASE ~\E t \in Task : CampaignStep(n, t) \/ VoteCallFails(n, t)
    BY <1>4, <2>2 DEF ElectionStep, StartElection, PreVote, PreVoteLost, StartRealElection,
       CopyState, HandleTimeoutNow, TransferLeader, SendTimeoutNow, RejectTimeoutNow,
       ReceiveTimeoutNow, StepDown, TimeoutNowFails
  <2> QED BY <2>1, <2>2
<1>5. ASSUME NEW n \in Node, LoopStep(n), ~\E s \in Sender : SendToPeer(n, s)
      PROVE  UNCHANGED calls
  BY <1>5 DEF LoopStep, IdlePass, BeginHeartbeat, ReadSnapshot, SkipPeer,
     EndHeartbeat, ReadMatch, Tally, AdvanceCommit, ReadCommit, ApplyEntries, SetApplied,
     CheckSnapshot, TakeSnapshot, CopyStore, Compact, CopySnapshot, SaveSnapshot
<1>6. ASSUME NEW m \in calls, Handled(m) \/ CallFails(m)
      PROVE  calls' \subseteq calls \/ \E r : Reply(m, r)
  BY <1>6 DEF Handled, Wedge, RejectStaleAppend, MismatchAppend, AcceptAppend,
     RejectStaleSnapshot, InstallSnapshot, NewerTermAnswer, AppendAnswer, SnapshotAnswer,
     Answer, CallFails
<1>7. ASSUME UNCHANGED vars PROVE Goal BY <1>1, <1>7 DEF vars
<1>8. ASSUME WriteStep PROVE UNCHANGED calls
  BY <1>8 DEF WriteStep, Put, PutHangs, PutBreaks
<1> HIDE DEF Goal
<1>9. ASSUME NEW n \in Node, LoopStep(n) PROVE Goal BY <1>1, <1>2, <1>5, <1>9
<1>10. ASSUME NEW m \in calls, Handled(m) \/ CallFails(m) PROVE Goal
  BY <1>1, <1>3, <1>6, <1>10
<1>11. Goal BY <1>1, <1>4, <1>7, <1>8, <1>9, <1>10, NextParts DEF ReplicationStep
<1> QED BY <1>11 DEF Goal

LEMMA RequestsStayIn ==
  ASSUME TypeOK, NEW R, RequestsIn(R), [NextCrash]_vars,
         \A n, p \in Node : At(n, "send") =>
           /\ AppendRequest(n, p, loop[n]) \in R
           /\ loop[n].next[p] <= loop[n].snapIdx /\ loop[n].snap # Nil =>
                SnapshotRequest(loop[n]) \in R
  PROVE  RequestsIn(R)'
<1>1. ASSUME [Next]_vars, NEW c \in calls' PROVE c.req \in R
  BY <1>1, RequestsCome DEF RequestsIn, Sends
<1>2. ASSUME NEW n \in Node, Restart(n) PROVE calls' \subseteq calls
  BY <1>2 DEF Restart
<1> QED BY <1>1, <1>2 DEF NextCrash, RequestsIn

-----------------------------------------------------------------------------
(* Misfiled entries. *)

\* A request for the whole log reaches a log that has been compacted: index 0 always
\* matches, truncate_from leaves nothing, and entry 1 comes to lie above the snapshot
\* (rpc.rs handle_append_entries, log.rs match_entry).
FilesAbove ==
  \E m \in calls : /\ AcceptAppend(m)
                   /\ m.req.prevIdx = 0 /\ m.req.entries # <<>> /\ log[m.to].snapIdx > 0

\* create_snapshot compacts to the index it chose, when install_snapshot has moved the
\* boundary past it in the meantime.
CompactsBack == \E n \in Node : Compact(n) /\ loop[n].upTo < log[n].snapIdx

Misfiles == FilesAbove \/ CompactsBack

InOrderLogs     == {l \in Log(Cmd) : Contiguous(l)}
InOrderRequests == {q \in Request : q.kind = "append" => InOrder(q.entries, q.prevIdx)}

FilesContiguous == FilesIn(InOrderLogs)
RequestsInOrder == RequestsIn(InOrderRequests)

Filed == LogContiguous /\ FilesContiguous /\ RequestsInOrder

\* What a request leaves of a log: the entries before the request's, and those.
LEMMA MergeShape ==
  ASSUME NEW l \in Log(Cmd), NEW es \in Seq(Entry(Cmd)), es # <<>>, NEW i \in Nat,
         InOrder(es, i), l.snapIdx <= i, i <= LastIndex(l)
  PROVE  LET f == FirstOf(l.entries, i - l.snapIdx) IN
         /\ Merge(l, es).entries = f \o es /\ Merge(l, es).snapIdx = l.snapIdx
         /\ f \in Seq(Entry(Cmd)) /\ Len(f) = i - l.snapIdx
<1> DEFINE f == FirstOf(l.entries, i - l.snapIdx)
<1>1. /\ l.entries \in Seq(Entry(Cmd)) /\ l.snapIdx \in Nat /\ Len(l.entries) \in Nat
      /\ i - l.snapIdx \in Nat /\ i - l.snapIdx <= Len(l.entries)
  BY LogFields DEF LastIndex
<1>2. es[1].index = i + 1
  <2>1. 1 \in DOMAIN es BY EmptySeq, LenProperties
  <2> QED BY <2>1 DEF InOrder
<1>3. Truncate(l, i + 1).entries = f /\ Truncate(l, i + 1).snapIdx = l.snapIdx
  <2>1. ~(i + 1 <= l.snapIdx) /\ i + 1 - l.snapIdx - 1 = i - l.snapIdx BY <1>1
  <2> QED BY <2>1 DEF Truncate, Log
<1>4. f \in Seq(Entry(Cmd)) BY <1>1, FirstOfType
<1>5. Len(f) = i - l.snapIdx
  <2>1. Smaller(i - l.snapIdx, Len(l.entries)) = i - l.snapIdx BY <1>1 DEF Smaller
  <2> QED BY <1>1, <2>1, FirstOfShape
<1>6. Merge(l, es).entries = f \o es /\ Merge(l, es).snapIdx = l.snapIdx
  <2> HIDE DEF f
  <2>1. Merge(l, es) = AppendAll(Truncate(l, i + 1), es) BY <1>2 DEF Merge
  <2>2. Truncate(l, i + 1) \in Log(Cmd) BY TruncateType
  <2> QED BY <1>3, <2>1, <2>2 DEF AppendAll, Log
<1> QED BY <1>4, <1>5, <1>6

\* Entries put where they belong leave a contiguous log contiguous, whatever is cut off.
LEMMA MergeContiguous ==
  ASSUME NEW l \in Log(Cmd), Contiguous(l), NEW es \in Seq(Entry(Cmd)), NEW i \in Nat,
         InOrder(es, i), es # <<>> => l.snapIdx <= i /\ i <= LastIndex(l)
  PROVE  Contiguous(Merge(l, es))
<1>1. CASE es = <<>> BY <1>1 DEF Merge
<1>2. CASE es # <<>>
  <2> DEFINE f == FirstOf(l.entries, i - l.snapIdx)
  <2>1. /\ Merge(l, es).entries = f \o es /\ Merge(l, es).snapIdx = l.snapIdx
        /\ f \in Seq(Entry(Cmd)) /\ Len(f) = i - l.snapIdx
    BY <1>2, MergeShape
  <2>2. l.entries \in Seq(Entry(Cmd)) /\ l.snapIdx \in Nat /\ i - l.snapIdx \in Nat
    BY <1>2, LogFields
  <2>3. InOrder(f, l.snapIdx) BY <2>2, FirstInOrder, ContiguousInOrder
  <2> HIDE DEF f
  <2>4. l.snapIdx + Len(f) = i BY <2>1, <2>2
  <2>5. InOrder(f \o es, l.snapIdx) BY <2>1, <2>2, <2>3, <2>4, AppendInOrder
  <2> QED BY <2>1, <2>5, ContiguousInOrder
<1> QED BY <1>1, <1>2

\* One log written anew.
LEMMA LogWritten ==
  ASSUME LogOK, LogContiguous, NEW n \in Node, NEW l, Contiguous(l),
         log' = [log EXCEPT ![n] = l]
  PROVE  LogContiguous'
<1>1. ASSUME NEW p \in Node PROVE Contiguous(log'[p])
  <2>1. CASE p = n BY <2>1 DEF LogOK
  <2>2. CASE p # n BY <2>2 DEF LogOK, LogContiguous
  <2> QED BY <2>1, <2>2
<1> QED BY <1>1 DEF LogContiguous, Contiguous

\* A client's entry goes to the end of the log.
LEMMA WriteContiguous ==
  ASSUME TypeOK, LogContiguous, NEW n \in Node, NEW v \in Cmd
  PROVE  Contiguous(WithCommand(n, v))
<1> USE TypeParts
<1> DEFINE e == [term |-> term[n], index |-> LastIndex(log[n]) + 1, cmd |-> v]
           l == AppendAll(log[n], <<e>>)
<1>1. log[n] \in Log(Cmd) /\ Contiguous(log[n]) BY DEF LogOK, LogContiguous
<1>2. /\ log[n].entries \in Seq(Entry(Cmd)) /\ log[n].snapIdx \in Nat
      /\ LastIndex(log[n]) \in Nat
  BY <1>1, LogFields, LastOfLog
<1>3. e \in Entry(Cmd)
  <2>1. term[n] \in Nat BY TermNat DEF ServerOK
  <2> QED BY <1>2, <2>1 DEF Entry
<1>4. e.index = LastIndex(log[n]) + 1 BY DEF e
<1>5. WithCommand(n, v) = l BY DEF WithCommand
<1> HIDE DEF e
<1>6. <<e>> \in Seq(Entry(Cmd)) BY <1>3
<1>7. InOrder(<<e>>, log[n].snapIdx + Len(log[n].entries))
  <2>1. \A k \in DOMAIN <<e>> : k = 1 OBVIOUS
  <2>2. <<e>>[1] = e OBVIOUS
  <2> QED BY <1>4, <2>1, <2>2 DEF InOrder, LastIndex
<1>8. InOrder(log[n].entries \o <<e>>, log[n].snapIdx)
  BY <1>1, <1>2, <1>6, <1>7, AppendInOrder, ContiguousInOrder
<1>9. l.entries = log[n].entries \o <<e>> /\ l.snapIdx = log[n].snapIdx
  BY <1>1 DEF AppendAll, Log
<1> HIDE DEF l
<1>10. Contiguous(l) BY <1>8, <1>9, ContiguousInOrder
<1> QED BY <1>5, <1>10

LEMMA WritesContiguous ==
  ASSUME TypeOK, LogContiguous, WriteStep
  PROVE  LogContiguous'
<1> USE TypeParts
<1>1. CASE UNCHANGED log BY <1>1 DEF LogContiguous, Contiguous
<1>2. ASSUME NEW n \in Node, NEW v \in Cmd, log' = [log EXCEPT ![n] = WithCommand(n, v)]
      PROVE  LogContiguous'
  BY <1>2, WriteContiguous, LogWritten
<1>3. CASE \E n \in Node, v \in Cmd : Put(n, v) BY <1>2, <1>3 DEF Put
<1>4. CASE \E n \in Node, v \in Cmd : PutBreaks(n, v) BY <1>1, <1>2, <1>4 DEF PutBreaks
<1>5. CASE \E n \in Node : PutHangs(n) BY <1>1, <1>5 DEF PutHangs
<1> QED BY <1>3, <1>4, <1>5 DEF WriteStep

LEMMA AcceptContiguous ==
  ASSUME TypeOK, LogContiguous, RequestsInOrder, NEW m \in calls, AcceptAppend(m), ~FilesAbove
  PROVE  LogContiguous'
<1> USE TypeParts
<1> DEFINE p == m.to
           q == m.req
           l == Merge(log[p], q.entries)
<1>1. p \in Node /\ q \in AppendReq /\ q.kind = "append"
  BY ReceivedTyped DEF AcceptAppend, Received
<1>2. q.entries \in Seq(Entry(Cmd)) /\ q.prevIdx \in Nat /\ q.prevTerm \in Nat
  BY <1>1, TermNat DEF AppendReq
<1>3. log[p] \in Log(Cmd) /\ Contiguous(log[p]) BY <1>1 DEF LogOK, LogContiguous
<1>4. log[p].snapIdx \in Nat /\ LastIndex(log[p]) \in Nat
  BY <1>3, LogFields, LastOfLog
<1>5. q.entries # <<>> => log[p].snapIdx <= q.prevIdx /\ q.prevIdx <= LastIndex(log[p])
  <2>1. MatchEntry(log[p], q.prevIdx, q.prevTerm) BY DEF AcceptAppend
  <2>2. q.entries # <<>> /\ q.prevIdx = 0 => ~(log[p].snapIdx > 0) BY DEF FilesAbove
  <2>3. log[p].snapIdx <= LastIndex(log[p]) BY <1>3, LogFields DEF LastIndex
  <2> HIDE DEF q, p
  <2> QED BY <1>2, <1>4, <2>1, <2>2, <2>3 DEF MatchEntry, Holds
<1>6. InOrder(q.entries, q.prevIdx)
  BY <1>1 DEF RequestsInOrder, RequestsIn, InOrderRequests
<1>7. Contiguous(l) BY <1>2, <1>3, <1>5, <1>6, MergeContiguous
<1>8. log' = [log EXCEPT ![p] = l] BY DEF AcceptAppend
<1> HIDE DEF l
<1> QED BY <1>1, <1>7, <1>8, LogWritten

LEMMA InstallContiguous ==
  ASSUME TypeOK, LogContiguous, NEW m \in calls, InstallSnapshot(m)
  PROVE  LogContiguous'
<1> USE TypeParts
<1> DEFINE p == m.to
           q == m.req
           l == ApplySnapshot(log[p], q.lastIdx, q.lastTerm)
<1>1. p \in Node /\ q.lastIdx \in Nat
  BY ReceivedTyped DEF InstallSnapshot, Received, SnapshotReq
<1>2. log[p] \in Log(Cmd) /\ Contiguous(log[p]) BY <1>1 DEF LogOK, LogContiguous
<1>3. CASE ~(q.lastIdx > log[p].snapIdx)
  <2>1. UNCHANGED log BY <1>3 DEF InstallSnapshot
  <2> QED BY <2>1 DEF LogContiguous, Contiguous
<1>4. CASE q.lastIdx > log[p].snapIdx
  <2>1. q.lastIdx >= log[p].snapIdx BY <1>1, <1>2, <1>4, LogFields
  <2>2. Contiguous(l) BY <1>1, <1>2, <2>1, SnapshotContiguous
  <2>3. log' = [log EXCEPT ![p] = l] BY <1>4 DEF InstallSnapshot
  <2> HIDE DEF l
  <2> QED BY <1>1, <2>2, <2>3, LogWritten
<1> QED BY <1>3, <1>4

LEMMA CompactContiguous ==
  ASSUME TypeOK, LogContiguous, NEW n \in Node, Compact(n), ~CompactsBack
  PROVE  LogContiguous'
<1> USE TypeParts
<1> DEFINE l == ApplySnapshot(log[n], loop[n].upTo, loop[n].term)
<1>1. loop[n].upTo \in Nat BY LoopTyped DEF Compact, At, Cutting
<1>2. log[n] \in Log(Cmd) /\ Contiguous(log[n]) BY DEF LogOK, LogContiguous
<1>3. loop[n].upTo >= log[n].snapIdx
  <2>1. ~(loop[n].upTo < log[n].snapIdx) BY DEF CompactsBack
  <2> QED BY <1>1, <1>2, <2>1, LogFields
<1>4. Contiguous(l) BY <1>1, <1>2, <1>3, SnapshotContiguous
<1>5. log' = [log EXCEPT ![n] = l] BY DEF Compact
<1> HIDE DEF l
<1> QED BY <1>4, <1>5, LogWritten

\* The other steps leave the logs alone.
LEMMA OtherStepsLeaveLogs ==
  /\ \A n \in Node : ElectionStep(n) => UNCHANGED log
  /\ \A n \in Node : LoopStep(n) => Compact(n) \/ UNCHANGED log
  /\ \A m \in calls : Handled(m) \/ CallFails(m) =>
       AcceptAppend(m) \/ InstallSnapshot(m) \/ UNCHANGED log
<1>1. ASSUME NEW n \in Node, ElectionStep(n) PROVE UNCHANGED log
  <2>1. ASSUME NEW t \in Task, CampaignStep(n, t) \/ VoteCallFails(n, t)
        PROVE  UNCHANGED log
    BY <2>1 DEF CampaignStep, VoteCallFails, SaveCandidate, ReceiveVote, FinishCampaign,
       RejectStaleVote, GrantVote, DenyVote, SaveVote, AnswerVote
  <2>2. CASE ~\E t \in Task : CampaignStep(n, t) \/ VoteCallFails(n, t)
    BY <1>1, <2>2 DEF ElectionStep, StartElection, PreVote, PreVoteLost, StartRealElection,
       CopyState, HandleTimeoutNow, TransferLeader, SendTimeoutNow, RejectTimeoutNow,
       ReceiveTimeoutNow, StepDown, TimeoutNowFails
  <2> QED BY <2>1, <2>2
<1>2. ASSUME NEW n \in Node, LoopStep(n) PROVE Compact(n) \/ UNCHANGED log
  BY <1>2 DEF LoopStep, IdlePass, BeginHeartbeat, ReadSnapshot, SendToPeer, SkipPeer,
     EndHeartbeat, ReadMatch, Tally, AdvanceCommit, ReadCommit, ApplyEntries, SetApplied,
     CheckSnapshot, TakeSnapshot, CopyStore, CopySnapshot, SaveSnapshot
<1>3. ASSUME NEW m \in calls, Handled(m) \/ CallFails(m)
      PROVE  AcceptAppend(m) \/ InstallSnapshot(m) \/ UNCHANGED log
  BY <1>3 DEF Handled, Wedge, RejectStaleAppend, MismatchAppend, RejectStaleSnapshot,
     NewerTermAnswer, AppendAnswer, SnapshotAnswer, CallFails
<1> QED BY <1>1, <1>2, <1>3

LEMMA LogsContiguous ==
  ASSUME TypeOK, LogContiguous, FilesContiguous, RequestsInOrder, [NextCrash]_vars,
         [~Misfiles]_vars
  PROVE  LogContiguous'
<1>1. CASE UNCHANGED log BY <1>1 DEF LogContiguous, Contiguous
<1>2. CASE UNCHANGED vars BY <1>1, <1>2 DEF vars
<1>3. CASE ~UNCHANGED vars
  <2>1. ~FilesAbove /\ ~CompactsBack /\ NextCrash BY <1>3 DEF Misfiles
  <2>2. ASSUME NEW n \in Node, Restart(n) PROVE LogContiguous'
    <3>1. log' = [log EXCEPT ![n] = disk[n].log] BY <2>2 DEF Restart
    <3>2. Contiguous(disk[n].log) BY DEF FilesContiguous, FilesIn, InOrderLogs
    <3> QED BY <3>1, <3>2, LogWritten, TypeParts
  <2> QED
    BY <1>1, <2>1, <2>2, OtherStepsLeaveLogs, WritesContiguous, AcceptContiguous,
       InstallContiguous, CompactContiguous, NextParts DEF NextCrash, ReplicationStep
<1> QED BY <1>2, <1>3

\* The entries of a new request are read from the log in one look.
LEMMA SentInOrder ==
  ASSUME LogOK, LogContiguous, NEW n \in Node, NEW p \in Node, NEW b \in Sending
  PROVE  InOrder(AppendRequest(n, p, b).entries, AppendRequest(n, p, b).prevIdx)
<1> DEFINE next == b.next[p]
           es == EntriesFrom(log[n], next)
<1>1. next \in Nat \ {0} BY DEF Sending
<1>2. log[n] \in Log(Cmd) /\ Contiguous(log[n]) BY DEF LogOK, LogContiguous
<1> HIDE DEF next
<1>3. es \in Seq(Entry(Cmd)) BY <1>1, <1>2, EntriesFromType
<1>4. InOrder(es, next - 1) BY <1>1, <1>2, FromInOrder
<1> HIDE DEF es
<1>5. InOrder(FirstOf(es, MaxEntries), next - 1)
  <2>1. next - 1 \in Nat /\ MaxEntries \in Nat BY <1>1, BoundAssumption
  <2> QED BY <2>1, <1>3, <1>4, FirstInOrder
<1> QED BY <1>5 DEF AppendRequest, next, es

LEMMA FiledStep ==
  TypeInv /\ Filed /\ [NextCrash]_vars /\ [~Misfiles]_vars => Filed'
<1> SUFFICES ASSUME TypeInv, Filed, [NextCrash]_vars, [~Misfiles]_vars PROVE Filed'
  OBVIOUS
<1>1. TypeOK /\ TypeOK' /\ LogContiguous /\ FilesContiguous /\ RequestsInOrder
  BY CrashTypes DEF TypeInv, Filed
<1>2. LogContiguous' BY <1>1, LogsContiguous
<1>3. RequestsInOrder'
  <2>1. ASSUME NEW n \in Node, NEW p \in Node, At(n, "send")
        PROVE  /\ AppendRequest(n, p, loop[n]) \in InOrderRequests
               /\ loop[n].snap # Nil => SnapshotRequest(loop[n]) \in InOrderRequests
    <3>1. loop[n] \in Sending BY <1>1, <2>1, LoopTyped, TypeParts DEF At
    <3>2. /\ AppendRequest(n, p, loop[n]) \in Request
          /\ InOrder(AppendRequest(n, p, loop[n]).entries, AppendRequest(n, p, loop[n]).prevIdx)
      BY <1>1, <3>1, AppendRequestType, SentInOrder, TypeParts DEF Request
    <3>3. loop[n].snap # Nil => /\ SnapshotRequest(loop[n]) \in Request
                                /\ SnapshotRequest(loop[n]).kind = "snapshot"
      BY <3>1 DEF Sending, SnapshotRequest, SnapshotReq, Request, Option
    <3> QED BY <3>2, <3>3 DEF InOrderRequests
  <2> QED BY <1>1, <2>1, RequestsStayIn DEF RequestsInOrder
<1>4. FilesStep BY <1>1, StepsOnFiles
<1>5. \A n \in Node : log'[n] \in InOrderLogs
  BY <1>1, <1>2, TypePartsNext DEF LogOK, LogContiguous, Contiguous, InOrderLogs
<1>6. \A n \in Node : LoopCopyStep(n) BY <1>1, StepsOnLoopCopies
<1>7. FilesContiguous' BY <1>1, <1>4, <1>5, <1>6, FilesStayIn DEF FilesContiguous
<1> QED BY <1>2, <1>3, <1>7 DEF Filed

LEMMA FiledInit == Init => Filed
<1> SUFFICES ASSUME Init PROVE Filed OBVIOUS
<1>1. Contiguous(EmptyLog) /\ EmptyLog \in Log(Cmd)
  BY EmptySeq DEF Contiguous, EmptyLog, Log
<1>2. LogContiguous BY <1>1 DEF Init, LogContiguous
<1>3. FilesContiguous
  BY <1>1 DEF Init, FilesContiguous, FilesIn, InOrderLogs, Pending, PersistentData, At
<1>4. RequestsInOrder BY DEF Init, RequestsInOrder, RequestsIn
<1> QED BY <1>2, <1>3, <1>4 DEF Filed

\* In every log the entries sit where their index says (rpc.rs handle_append_entries,
\* replication.rs create_snapshot, the restart in main.rs), as long as no request for the
\* whole log meets a compacted log and no node compacts back: these are the only two
\* steps of the code that misplace an entry.
THEOREM CrashLogContiguous == SpecCrash /\ [][~Misfiles]_vars => []LogContiguous
<1>1. Filed => LogContiguous BY DEF Filed
<1> QED BY <1>1, FiledInit, FiledStep, CrashTypeInvariant, PTL DEF SpecCrash

\* The same of a cluster whose nodes do not stop.
THEOREM RaftLogContiguous == Spec /\ [][~Misfiles]_vars => []LogContiguous
BY CrashLogContiguous, RaftNeverCrashes, PTL

-----------------------------------------------------------------------------
(* last_applied. *)

\* apply_committed_entries of n is between its reading and its writing of the indexes.
Applies(n) == At(n, "applying") \/ At(n, "applied")

\* A snapshot is installed whose last index is below last_applied, or, while
\* apply_committed_entries runs, beyond the index that will be written to last_applied
\* (rpc.rs handle_install_snapshot, replication.rs apply_committed_entries): it compares
\* with the boundary of the log only.
InstallsUnasked ==
  \E m \in calls :
    /\ InstallSnapshot(m) /\ m.req.lastIdx > log[m.to].snapIdx
    /\ \/ m.req.lastIdx < applied[m.to]
       \/ Applies(m.to) /\ m.req.lastIdx > loop[m.to].upTo

\* The index a node is about to write to last_applied is not behind it.
ApplyingAhead == \A n \in Node : Applies(n) => applied[n] <= loop[n].upTo

LEMMA ApplyingTyped ==
  ASSUME LoopOK, NEW n \in Node, Applies(n)
  PROVE  loop[n].upTo \in Nat
BY LoopTyped DEF Applies, At, Applying, Raising

\* Elections leave the indexes alone, and the loop where it does not apply.
LEMMA ElectionLoops ==
  ASSUME TypeOK, NEW n \in Node, ElectionStep(n)
  PROVE  /\ UNCHANGED indexVars
         /\ \A p \in Node : loop'[p] = loop[p] \/ loop'[p].pc \in {"elect", "apply"}
<1> USE TypeParts
<1>1. ASSUME NEW t \in Task, CampaignStep(n, t) \/ VoteCallFails(n, t)
      PROVE  UNCHANGED indexVars /\ loop' \in {loop, Leave(n, t)}
  BY <1>1 DEF CampaignStep, VoteCallFails, SaveCandidate, ReceiveVote, FinishCampaign,
     RejectStaleVote, GrantVote, DenyVote, SaveVote, AnswerVote
<1>2. CASE ~\E t \in Task : CampaignStep(n, t) \/ VoteCallFails(n, t)
  <2>1. /\ UNCHANGED indexVars
        /\ loop' \in {loop, [loop EXCEPT ![n] = [pc |-> "elect"]], Leave(n, Loop)}
    BY <1>2 DEF ElectionStep, StartElection, PreVote, PreVoteLost, StartRealElection,
       CopyState, HandleTimeoutNow, TransferLeader, SendTimeoutNow, RejectTimeoutNow,
       ReceiveTimeoutNow, StepDown, TimeoutNowFails
  <2> QED BY <2>1 DEF Leave, LoopOK
<1>3. CASE \E t \in Task : CampaignStep(n, t) \/ VoteCallFails(n, t)
  BY <1>1, <1>3 DEF Leave, LoopOK
<1> QED BY <1>2, <1>3

\* Where the main loop goes, and what it brings there.
LoopGoes(n) ==
  /\ \A p \in Node \ {n} : loop'[p] = loop[p]
  /\ loop'[n].pc = "beat" => BeginHeartbeat(n)
  /\ loop'[n].pc = "send" =>
       \/ ReadSnapshot(n)
       \/ /\ At(n, "send") /\ loop'[n].term = loop[n].term
          /\ loop'[n].snapIdx = loop[n].snapIdx
  /\ loop'[n].pc = "applying" => ReadCommit(n)
  /\ loop'[n].pc = "applied" => ApplyEntries(n)
  /\ loop'[n].pc \in {"snapshot", "copy", "compact", "store", "save"} =>
       \/ At(n, "check") /\ Len(log[n].entries) >= Threshold
       \/ loop[n].pc \in {"snapshot", "copy", "compact", "store"}
  /\ UNCHANGED applied \/ SetApplied(n)

LEMMA LoopSteps ==
  ASSUME TypeOK, NEW n \in Node, LoopStep(n)
  PROVE  LoopGoes(n)
<1> USE TypeParts DEF LoopGoes
<1>1. ASSUME NEW pc \in {"idle", "commit", "apply", "check"}, Goto(n, pc),
             UNCHANGED applied
      PROVE  LoopGoes(n)
  BY <1>1 DEF Goto, GoTo, LoopOK
<1>2. CASE (\E s \in Sender : SendToPeer(n, s)) \/ SkipPeer(n)
  <2>1. loop[n] \in Sending /\ At(n, "send") BY <1>2, LoopTyped DEF SendToPeer, SkipPeer, At
  <2> DEFINE c == loop[n]
             d == [c EXCEPT !.i = c.i + 1]
  <2>2. loop' = [loop EXCEPT ![n] = d] /\ UNCHANGED applied
    BY <1>2 DEF SendToPeer, SkipPeer, GoTo, indexVars
  <2>3. c \in Sending BY <2>1
  <2> HIDE DEF c
  <2>4. d.pc = "send" /\ d.term = c.term /\ d.snapIdx = c.snapIdx
    BY <2>3 DEF Sending
  <2> HIDE DEF d
  <2> QED BY <2>1, <2>2, <2>4 DEF LoopOK, c
<1>3. CASE IdlePass(n) \/ EndHeartbeat(n)
  BY <1>1, <1>3 DEF IdlePass, EndHeartbeat, indexVars
<1>4. CASE BeginHeartbeat(n)
  BY <1>4 DEF BeginHeartbeat, GoTo, LoopOK, indexVars
<1>5. CASE ReadSnapshot(n)
  BY <1>5 DEF ReadSnapshot, GoTo, LoopOK, indexVars
<1>6. CASE ReadMatch(n)
  <2>1. CASE Goto(n, "apply") BY <1>1, <1>6, <2>1 DEF ReadMatch, indexVars
  <2>2. CASE ~Goto(n, "apply")
    BY <1>6, <2>2 DEF ReadMatch, GoTo, LoopOK, indexVars
  <2> QED BY <2>1, <2>2
<1>7. CASE Tally(n)
  <2>1. CASE Goto(n, "apply") BY <1>1, <1>7, <2>1 DEF Tally, indexVars
  <2>2. ASSUME NEW i, GoTo(n, [pc |-> "advance", upTo |-> i]) PROVE LoopGoes(n)
    BY <1>7, <2>2 DEF Tally, GoTo, LoopOK, indexVars
  <2> QED BY <1>7, <2>1, <2>2 DEF Tally
<1>8. CASE AdvanceCommit(n) \/ SetApplied(n)
  BY <1>8 DEF AdvanceCommit, SetApplied, Goto, GoTo, LoopOK
<1>9. CASE ReadCommit(n)
  BY <1>9 DEF ReadCommit, Goto, GoTo, LoopOK, indexVars
<1>10. CASE ApplyEntries(n)
  <2>1. /\ loop' = [loop EXCEPT ![n] = [pc |-> "applied", upTo |-> loop[n].upTo]]
        /\ UNCHANGED applied
    BY <1>10 DEF ApplyEntries, GoTo
  <2> QED BY <1>10, <2>1 DEF LoopOK
<1>11. CASE CheckSnapshot(n) \/ TakeSnapshot(n)
  BY <1>11 DEF CheckSnapshot, TakeSnapshot, GoTo, Goto, LoopOK, At, indexVars
<1>12. CASE CopyStore(n) \/ Compact(n) \/ CopySnapshot(n) \/ SaveSnapshot(n)
  BY <1>12 DEF CopyStore, Compact, CopySnapshot, SaveSnapshot, GoTo, Goto, LoopOK, At, indexVars
<1> QED
  BY <1>2, <1>3, <1>4, <1>5, <1>6, <1>7, <1>8, <1>9, <1>10, <1>11, <1>12 DEF LoopStep

\* The handlers leave the loop alone; only a snapshot touches last_applied.
LEMMA HandlersLoops ==
  ASSUME NEW m \in calls, Handled(m) \/ CallFails(m)
  PROVE  /\ UNCHANGED loop
         /\ UNCHANGED applied \/ InstallSnapshot(m)
BY DEF Handled, Wedge, RejectStaleAppend, MismatchAppend, AcceptAppend, RejectStaleSnapshot,
   InstallSnapshot, NewerTermAnswer, AppendAnswer, SnapshotAnswer, CallFails, indexVars,
   electionVars

LEMMA AppliedStep ==
  ASSUME TypeOK, ApplyingAhead, [Next]_vars, [~InstallsUnasked]_vars
  PROVE  ApplyingAhead' /\ \A n \in Node : applied'[n] >= applied[n]
<1> USE TypeParts
<1> DEFINE Goal == ApplyingAhead' /\ \A n \in Node : applied'[n] >= applied[n]
<1>0. \A n \in Node : applied[n] \in Nat BY DEF IndexOK
<1>1. ASSUME UNCHANGED applied,
             \A n \in Node : loop'[n] = loop[n] \/ loop'[n].pc \notin {"applying", "applied"}
      PROVE  Goal
  BY <1>0, <1>1 DEF ApplyingAhead, Applies, At
<1>2. ASSUME NEW n \in Node, ElectionStep(n) PROVE Goal
  BY <1>1, <1>2, ElectionLoops DEF indexVars
<1>3. ASSUME NEW n \in Node, ReadCommit(n) PROVE Goal
  <2>1. UNCHANGED applied BY <1>3 DEF ReadCommit, indexVars
  <2>2. CASE commit[n] <= applied[n]
    BY <1>1, <1>3, <2>1, <2>2 DEF ReadCommit, Goto, GoTo, LoopOK
  <2>3. CASE ~(commit[n] <= applied[n])
    <3>1. commit[n] \in Nat /\ applied[n] <= commit[n] BY <1>0, <2>3 DEF IndexOK
    <3>2. loop'[n].upTo = commit[n] /\ \A p \in Node \ {n} : loop'[p] = loop[p]
      BY <1>3, <2>3 DEF ReadCommit, GoTo, LoopOK
    <3>3. ApplyingAhead' BY <2>1, <3>1, <3>2 DEF ApplyingAhead, Applies, At
    <3> QED BY <1>0, <2>1, <3>3
  <2> QED BY <2>2, <2>3
<1>4. ASSUME NEW n \in Node, SetApplied(n) PROVE Goal
  <2>1. loop[n].upTo \in Nat BY <1>4, ApplyingTyped DEF SetApplied, Applies
  <2>2. /\ applied'[n] = loop[n].upTo /\ loop'[n].pc = "check"
        /\ \A p \in Node \ {n} : applied'[p] = applied[p] /\ loop'[p] = loop[p]
    BY <1>4 DEF SetApplied, Goto, GoTo, IndexOK, LoopOK
  <2>3. applied[n] <= loop[n].upTo BY <1>4 DEF SetApplied, ApplyingAhead, Applies
  <2>4. ApplyingAhead' BY <2>2 DEF ApplyingAhead, Applies, At
  <2> QED BY <1>0, <2>1, <2>2, <2>3, <2>4
<1>4a. ASSUME NEW n \in Node, ApplyEntries(n) PROVE Goal
  <2>1. applied[n] <= loop[n].upTo BY <1>4a DEF ApplyEntries, ApplyingAhead, Applies
  <2>2. /\ loop'[n].upTo = loop[n].upTo /\ UNCHANGED applied
        /\ \A p \in Node \ {n} : loop'[p] = loop[p]
    BY <1>4a DEF ApplyEntries, GoTo, LoopOK
  <2>3. ApplyingAhead' BY <2>1, <2>2 DEF ApplyingAhead, Applies, At
  <2> QED BY <1>0, <2>2, <2>3
<1>5. ASSUME NEW n \in Node, LoopStep(n), ~ReadCommit(n), ~SetApplied(n), ~ApplyEntries(n)
      PROVE  Goal
  <2>1. /\ UNCHANGED applied /\ loop'[n].pc \notin {"applying", "applied"}
        /\ \A p \in Node \ {n} : loop'[p] = loop[p]
    BY <1>5, LoopSteps DEF LoopGoes
  <2> QED BY <1>1, <2>1
<1>6. ASSUME NEW m \in calls, InstallSnapshot(m), ~InstallsUnasked PROVE Goal
  <2> DEFINE p == m.to
  <2>1. p \in Node /\ m.req.lastIdx \in Nat
    BY <1>6, ReceivedTyped DEF InstallSnapshot, Received, SnapshotReq
  <2>2. UNCHANGED loop BY <1>6 DEF InstallSnapshot
  <2>3. CASE ~(m.req.lastIdx > log[p].snapIdx)
    BY <1>1, <1>6, <2>2, <2>3 DEF InstallSnapshot, indexVars
  <2>4. CASE m.req.lastIdx > log[p].snapIdx
    <3>1. applied' = [applied EXCEPT ![p] = m.req.lastIdx]
      BY <1>6, <2>4 DEF InstallSnapshot
    <3>2. /\ ~(m.req.lastIdx < applied[p])
          /\ Applies(p) => ~(m.req.lastIdx > loop[p].upTo)
      BY <1>6, <2>4 DEF InstallsUnasked
    <3>3. Applies(p) => loop[p].upTo \in Nat BY <2>1, ApplyingTyped
    <3> HIDE DEF p
    <3>4. applied'[p] = m.req.lastIdx /\ \A q \in Node \ {p} : applied'[q] = applied[q]
      BY <2>1, <3>1 DEF IndexOK
    <3>5. Applies(p) => applied'[p] <= loop[p].upTo
      BY <2>1, <3>2, <3>3, <3>4
    <3>6. ApplyingAhead' BY <2>2, <3>4, <3>5 DEF ApplyingAhead, Applies, At
    <3>7. applied'[p] >= applied[p] BY <1>0, <2>1, <3>2, <3>4
    <3> QED BY <1>0, <3>4, <3>6, <3>7
  <2> QED BY <2>3, <2>4
<1>7. ASSUME NEW m \in calls, Handled(m) \/ CallFails(m), ~InstallSnapshot(m)
      PROVE  UNCHANGED <<applied, loop>>
  BY <1>7, HandlersLoops
<1>8. ASSUME WriteStep PROVE UNCHANGED <<applied, loop>>
  BY <1>8 DEF WriteStep, Put, PutHangs, PutBreaks, indexVars
<1>9. ASSUME UNCHANGED <<applied, loop>> PROVE Goal BY <1>1, <1>9
<1>10. CASE UNCHANGED vars BY <1>9, <1>10 DEF vars
<1>11. CASE ~UNCHANGED vars
  <2>1. Next /\ ~InstallsUnasked BY <1>11
  <2> HIDE DEF Goal
  <2>2. ASSUME NEW n \in Node, LoopStep(n) PROVE Goal
    BY <1>3, <1>4, <1>5, <1>4a, <2>2
  <2>3. ASSUME NEW m \in calls, Handled(m) \/ CallFails(m) PROVE Goal
    BY <1>6, <1>7, <1>9, <2>1, <2>3
  <2>4. ASSUME WriteStep PROVE Goal BY <1>8, <1>9, <2>4
  <2>5. Goal BY <1>2, <2>1, <2>2, <2>3, <2>4, NextParts DEF ReplicationStep
  <2> QED BY <2>5 DEF Goal
<1> QED BY <1>10, <1>11

\* last_applied never goes back while its node runs (replication.rs
\* apply_committed_entries, with commit_index falling meanwhile), as long as no snapshot
\* is installed that is older than what has been applied, or passes an application in
\* progress.
THEOREM RaftAppliedAdvances == Spec /\ [][~InstallsUnasked]_vars => AppliedAdvances
<1>1. Init => ApplyingAhead BY DEF Init, ApplyingAhead, Applies, At
<1>2. TypeInv /\ ApplyingAhead /\ [Next]_vars /\ [~InstallsUnasked]_vars => ApplyingAhead'
  BY AppliedStep DEF TypeInv
<1>3. TypeInv /\ ApplyingAhead /\ [Next]_vars /\ [~InstallsUnasked]_vars
        => [\A n \in Node : applied'[n] >= applied[n]]_vars
  BY AppliedStep DEF TypeInv
<1> QED BY <1>1, <1>2, <1>3, RaftTypeInvariant, PTL DEF Spec, AppliedAdvances

-----------------------------------------------------------------------------
(* Clusters that never compact: their logs stay shorter than snapshot_threshold. *)

\* The entries there can be are too few for a snapshot.
BeforeSnapshots == Limit["put"] < Threshold

\* A put that hangs at n has an entry to come.
ToCome(n) == IF frozen[n] = <<n, Client>> THEN 1 ELSE 0

Compacts == {"snapshot", "copy", "compact", "store", "save"}

Uncompacted ==
  /\ \A n \in Node : log[n].snapIdx = 0 /\ loop[n].pc \notin Compacts
  /\ \A n \in Node : At(n, "send") => loop[n].snapIdx = 0
  /\ \A m \in calls : m.req.kind = "append"

\* Every entry is a put's.
EntriesCounted ==
  /\ used["put"] <= Limit["put"]
  /\ \A n \in Node : Len(log[n].entries) + ToCome(n) <= used["put"]
  /\ \A m \in calls : m.req.kind = "append" /\ m.req.entries # <<>> =>
       m.req.prevIdx + Len(m.req.entries) <= used["put"]

\* Where a client's put hangs, the node leads: nobody gets at its role.
HungLeads == \A n \in Node : frozen[n] = <<n, Client>> => role[n] = "Leader"

ShortInv == Uncompacted /\ EntriesCounted /\ HungLeads

\* What becomes of a lock: a node that is locked keeps its role, and only a put locks it
\* for a client.
LockStep(n) ==
  /\ frozen'[n] = <<n, Client>> => frozen[n] = <<n, Client>> \/ PutHangs(n)
  /\ ~Unlocked(n) => role'[n] = role[n]

LEMMA HungIsNotNil ==
  ASSUME NEW n \in Node
  PROVE  <<n, Client>> # Nil
BY NilAssumption DEF Waiter

\* Steps that change the role of one node only, which is not locked.
LEMMA OneRole ==
  ASSUME ServerOK, NEW q \in Node, Unlocked(q), NEW r, role' = [role EXCEPT ![q] = r],
         NEW p \in Node
  PROVE  ~Unlocked(p) => role'[p] = role[p]
BY DEF ServerOK

LEMMA OneMoves ==
  ASSUME ServerOK, NEW q \in Node, Unlocked(q), NEW p \in Node,
         \/ \E t, l : BecomeFollower(q, t, l)
         \/ BecomeCandidate(q)
         \/ BecomeLeader(q)
  PROVE  ~Unlocked(p) => role'[p] = role[p]
BY OneRole DEF BecomeFollower, BecomeCandidate, BecomeLeader

LEMMA CampaignLocks ==
  ASSUME TypeOK, NEW n \in Node, NEW t \in Task, CampaignStep(n, t) \/ VoteCallFails(n, t),
         NEW p \in Node
  PROVE  LockStep(p)
<1> USE TypeParts DEF LockStep
<1>0. Client \notin Task BY WaiterAssumption
<1>1. CASE \/ SaveCandidate(n, t) \/ SaveVote(n, t) \/ AnswerVote(n, t)
           \/ \E v \in Node : RejectStaleVote(n, t, v)
  BY <1>1 DEF SaveCandidate, SaveVote, AnswerVote, RejectStaleVote, stateVars
<1>2. CASE ReceiveVote(n, t) BY <1>2, OneMoves DEF ReceiveVote, stateVars
<1>3. ASSUME NEW v \in Node, GrantVote(n, t, v) \/ DenyVote(n, t, v) PROVE LockStep(p)
  <2>1. Unlocked(v) BY <1>3 DEF GrantVote, DenyVote, Asked
  <2>2. ~Unlocked(p) => role'[p] = role[p]
    BY <1>3, <2>1, OneRole DEF GrantVote, DenyVote, JoinTerm
  <2>3. frozen' = frozen \/ frozen' = [frozen EXCEPT ![v] = <<n, t>>]
    BY <1>3 DEF GrantVote, DenyVote
  <2>4. frozen'[p] = <<p, Client>> => frozen[p] = <<p, Client>>
    BY <1>0, <2>3 DEF WaitOK
  <2> QED BY <2>2, <2>4
<1>4. CASE FinishCampaign(n, t) BY <1>4, OneMoves DEF FinishCampaign, stateVars
<1>5. CASE VoteCallFails(n, t)
  BY <1>5, NilAssumption DEF VoteCallFails, Release, stateVars, Waiter
<1> QED BY <1>1, <1>2, <1>3, <1>4, <1>5 DEF CampaignStep

LEMMA ElectionLocks ==
  ASSUME TypeOK, NEW n \in Node, ElectionStep(n), NEW p \in Node
  PROVE  LockStep(p)
<1> USE TypeParts DEF LockStep
<1>1. CASE \E t \in Task : CampaignStep(n, t) \/ VoteCallFails(n, t)
  BY <1>1, CampaignLocks
<1>2. CASE StartRealElection(n) BY <1>2, OneMoves DEF StartRealElection
<1>3. ASSUME NEW t \in Handler, HandleTimeoutNow(n, t) PROVE LockStep(p)
  <2>1. xfer[n].target \in Node BY <1>3 DEF HandleTimeoutNow, WaitOK, Option, Transfer
  <2> QED BY <1>3, <2>1, OneMoves DEF HandleTimeoutNow
<1>4. CASE ReceiveTimeoutNow(n) \/ StepDown(n)
  BY <1>4, OneMoves DEF ReceiveTimeoutNow, StepDown, stateVars
<1>5. CASE \/ StartElection(n) \/ PreVote(n) \/ PreVoteLost(n)
           \/ \E t \in Handler : CopyState(n, t)
           \/ \E q \in Node : TransferLeader(n, q)
           \/ SendTimeoutNow(n) \/ RejectTimeoutNow(n)
  BY <1>5 DEF StartElection, PreVote, PreVoteLost, CopyState, TransferLeader,
     SendTimeoutNow, RejectTimeoutNow, stateVars
<1>6. CASE TimeoutNowFails(n)
  <2>1. UNCHANGED stateVars /\ frozen'[p] \in {Nil, frozen[p]}
    BY <1>6 DEF TimeoutNowFails, Release
  <2> QED BY <2>1, HungIsNotNil DEF stateVars
<1> QED BY <1>1, <1>2, <1>3, <1>4, <1>5, <1>6 DEF ElectionStep

LEMMA NextLocks ==
  ASSUME TypeOK, Next, NEW p \in Node
  PROVE  LockStep(p)
<1> USE TypeParts
<1>0. Client \notin Sender BY WaiterAssumption
<1>1. CASE UNCHANGED <<stateVars, frozen>> BY <1>1 DEF stateVars, LockStep
<1>2. ASSUME NEW n \in Node, LoopStep(n) PROVE LockStep(p)
  BY <1>1, <1>2, LoopLeavesElections DEF electionVars
<1>3. CASE WriteStep
  <2>1. ASSUME NEW n \in Node, PutHangs(n) PROVE LockStep(p)
    BY <2>1 DEF PutHangs, stateVars, LockStep, WaitOK
  <2>2. ASSUME NEW n \in Node, NEW v \in Cmd, PutBreaks(n, v) PROVE LockStep(p)
    BY <2>2, NilAssumption DEF PutBreaks, stateVars, LockStep, WaitOK, Waiter
  <2> QED BY <1>1, <1>3, <2>1, <2>2 DEF WriteStep, Put, electionVars
<1>4. ASSUME NEW m \in calls, Handled(m) \/ CallFails(m) PROVE LockStep(p)
  <2>1. m.from \in Node /\ m.to \in Node /\ m.slot \in Sender
    BY ReceivedTyped DEF CallsOK, Call
  <2>2. CASE Wedge(m) \/ MismatchAppend(m) \/ AcceptAppend(m) \/ InstallSnapshot(m)
    <3>1. YieldTo(m) /\ Unlocked(m.to)
      BY <2>2 DEF Wedge, MismatchAppend, AcceptAppend, InstallSnapshot, Received
    <3>2. ~Unlocked(p) => role'[p] = role[p] BY <2>1, <3>1, OneMoves DEF YieldTo
    <3>3. frozen' = frozen \/ frozen' = [frozen EXCEPT ![m.to] = <<m.from, m.slot>>]
      BY <2>2 DEF Wedge, MismatchAppend, AcceptAppend, InstallSnapshot, electionVars
    <3>4. frozen'[p] = <<p, Client>> => frozen[p] = <<p, Client>>
      BY <1>0, <2>1, <3>3 DEF WaitOK
    <3> QED BY <3>2, <3>4 DEF LockStep
  <2>3. CASE NewerTermAnswer(m)
    BY <2>1, <2>3, OneMoves DEF NewerTermAnswer, Answer, electionVars, LockStep
  <2>4. CASE \/ RejectStaleAppend(m) \/ RejectStaleSnapshot(m) \/ AppendAnswer(m)
             \/ SnapshotAnswer(m)
    BY <1>1, <2>4 DEF RejectStaleAppend, RejectStaleSnapshot, AppendAnswer, SnapshotAnswer,
       electionVars
  <2>5. CASE CallFails(m)
    <3>1. UNCHANGED stateVars /\ frozen'[p] \in {Nil, frozen[p]}
      BY <2>5 DEF CallFails, WaitOK
    <3> QED BY <3>1, HungIsNotNil DEF stateVars, LockStep
  <2> QED BY <1>4, <2>2, <2>3, <2>4, <2>5 DEF Handled
<1>5. CASE \E n \in Node : ElectionStep(n) BY <1>5, ElectionLocks
<1> QED BY <1>2, <1>3, <1>4, <1>5, NextParts DEF ReplicationStep

LEMMA HungStep ==
  ASSUME TypeOK, HungLeads, [Next]_vars
  PROVE  HungLeads'
<1>1. CASE UNCHANGED vars BY <1>1 DEF vars, HungLeads
<1>2. ASSUME Next, NEW n \in Node, frozen'[n] = <<n, Client>> PROVE role'[n] = "Leader"
  <2>1. CASE frozen[n] = <<n, Client>>
    <3>1. ~Unlocked(n) BY <2>1, NilAssumption DEF Unlocked, Waiter
    <3> QED BY <1>2, <2>1, <3>1, NextLocks DEF LockStep, HungLeads
  <2>2. CASE PutHangs(n) BY <2>2 DEF PutHangs, stateVars
  <2> QED BY <1>2, <2>1, <2>2, NextLocks DEF LockStep
<1> QED BY <1>1, <1>2 DEF HungLeads

\* A request carries a stretch of its sender's log, as it is when it is sent.
LEMMA SentStretch ==
  ASSUME LogOK, NEW n \in Node, log[n].snapIdx = 0, NEW p \in Node, NEW b \in Sending
  PROVE  LET q == AppendRequest(n, p, b)  s == log[n].entries IN
         /\ q.kind = "append" /\ q.prevIdx \in Nat /\ q.entries \in Seq(Entry(Cmd))
         /\ q.entries # <<>> =>
              /\ q.prevIdx + Len(q.entries) <= Len(s)
              /\ \A j \in 1..Len(q.entries) : q.entries[j] = s[q.prevIdx + j]
              /\ q.prevIdx > 0 => s[q.prevIdx].term = q.prevTerm
<1> DEFINE q == AppendRequest(n, p, b)
           s == log[n].entries
           next == b.next[p]
           from == EntriesFrom(log[n], next)
           es == FirstOf(from, MaxEntries)
<1>1. next \in Nat \ {0} /\ next - 1 \in Nat /\ MaxEntries \in Nat
  BY BoundAssumption DEF Sending
<1>2. log[n] \in Log(Cmd) BY DEF LogOK
<1>3. s \in Seq(Entry(Cmd)) /\ Len(s) \in Nat BY <1>2, LogFields
<1>4. from \in Seq(Entry(Cmd)) BY <1>1, <1>2, EntriesFromType
<1>5. /\ q.kind = "append" /\ q.prevIdx = next - 1 /\ q.entries = es
      /\ q.prevTerm = TermAt(log[n], next - 1)
  BY DEF AppendRequest
<1> HIDE DEF q, next, es
<1>6. es \in Seq(Entry(Cmd)) /\ Len(es) \in Nat BY <1>1, <1>4, FirstOfType, LenProperties DEF es
<1>7. ASSUME es # <<>>
      PROVE  /\ next - 1 + Len(es) <= Len(s)
             /\ \A j \in 1..Len(es) : es[j] = s[next - 1 + j]
             /\ next - 1 > 0 => s[next - 1].term = TermAt(log[n], next - 1)
  <2>1. Len(from) \in Nat /\ Len(es) = Smaller(MaxEntries, Len(from))
        /\ \A j \in 1..Len(es) : es[j] = from[j]
    BY <1>1, <1>4, FirstOfShape, LenProperties DEF es
  <2>2. Holds(log[n], next)
    <3>1. CASE ~Holds(log[n], next)
      <4>1. from = <<>> BY <3>1 DEF EntriesFrom
      <4>2. Len(from) = 0 BY <4>1
      <4> HIDE DEF from
      <4>3. Len(es) = 0 BY <1>1, <2>1, <4>2 DEF Smaller
      <4> QED BY <1>6, <1>7, <4>3, EmptySeq
    <3> QED BY <3>1
  <2>3. next \in 1..Len(s)
    BY <1>1, <1>3, <2>2 DEF Holds, LastIndex
  <2>4. from = SubSeq(s, next, Len(s))
    <3>1. next - log[n].snapIdx = next BY <1>1
    <3> QED BY <2>2, <3>1 DEF EntriesFrom
  <2>5. \A k \in next..Len(s) : s[k] \in Entry(Cmd)
    <3>1. \A k \in 1..Len(s) : s[k] \in Entry(Cmd) BY <1>2, LogFields
    <3> QED BY <1>3, <2>3, <3>1
  <2>6. /\ Len(from) = Len(s) - next + 1
        /\ \A k \in 1..(Len(s) - next + 1) : from[k] = s[next + k - 1]
    BY <1>3, <2>3, <2>4, <2>5, SubSeqProperties
  <2> HIDE DEF from
  <2>7. Len(es) <= Len(s) - next + 1 BY <1>1, <1>3, <2>1, <2>3, <2>6 DEF Smaller
  <2>8. next - 1 + Len(es) <= Len(s) BY <1>1, <1>3, <1>6, <2>7
  <2>9. ASSUME NEW j \in 1..Len(es) PROVE es[j] = s[next - 1 + j]
    <3>1. j \in 1..(Len(s) - next + 1) /\ next + j - 1 = next - 1 + j
      BY <1>1, <1>3, <1>6, <2>7
    <3> QED BY <2>1, <2>6, <3>1
  <2>10. ASSUME next - 1 > 0 PROVE s[next - 1].term = TermAt(log[n], next - 1)
    <3>1. Holds(log[n], next - 1) /\ next - 1 - log[n].snapIdx = next - 1
      BY <1>1, <1>3, <2>3, <2>10 DEF Holds, LastIndex
    <3> QED BY <3>1 DEF TermAt, EntryAt
  <2> QED BY <2>8, <2>9, <2>10
<1> QED BY <1>1, <1>5, <1>6, <1>7 DEF q

\* Accepted entries come after the entry they name.
LEMMA AcceptedEntries ==
  ASSUME TypeOK, RequestsInOrder, NEW m \in calls, AcceptAppend(m), log[m.to].snapIdx = 0
  PROVE  LET p == m.to  q == m.req  f == FirstOf(log[p].entries, q.prevIdx) IN
         \/ log' = log
         \/ \E l : /\ log' = [log EXCEPT ![p] = l] /\ l.snapIdx = 0
                   /\ l.entries = f \o q.entries /\ q.entries # <<>>
                   /\ f \in Seq(Entry(Cmd)) /\ Len(f) = q.prevIdx
                   /\ q.prevIdx > 0 => f[q.prevIdx].term = q.prevTerm
<1> USE TypeParts
<1> DEFINE p == m.to
           q == m.req
           k == q.prevIdx
           f == FirstOf(log[p].entries, k)
           l == Merge(log[p], q.entries)
<1>1. p \in Node /\ q \in AppendReq /\ q.kind = "append"
  BY ReceivedTyped DEF AcceptAppend, Received
<1>2. q.entries \in Seq(Entry(Cmd)) /\ k \in Nat BY <1>1 DEF AppendReq
<1>3. log[p] \in Log(Cmd) BY <1>1 DEF LogOK
<1>4. log[p].entries \in Seq(Entry(Cmd)) /\ Len(log[p].entries) \in Nat /\ log[p].snapIdx = 0
  BY <1>3, LogFields
<1>5. log' = [log EXCEPT ![p] = l] BY DEF AcceptAppend
<1>6. CASE q.entries = <<>>
  <2>1. l = log[p] BY <1>6 DEF Merge
  <2> HIDE DEF l
  <2> QED BY <1>1, <1>5, <2>1 DEF LogOK
<1>7. CASE q.entries # <<>>
  <2>1. MatchEntry(log[p], k, q.prevTerm) BY DEF AcceptAppend
  <2>2. k <= Len(log[p].entries) /\ (k > 0 => log[p].entries[k].term = q.prevTerm)
    <3>1. 0 + Len(log[p].entries) = Len(log[p].entries) /\ k - 0 = k BY <1>2, <1>4
    <3> HIDE DEF p, q, k
    <3> QED BY <1>2, <1>4, <2>1, <3>1 DEF MatchEntry, Holds, EntryAt, LastIndex
  <2>3. InOrder(q.entries, k)
    BY <1>1 DEF RequestsInOrder, RequestsIn, InOrderRequests
  <2>4. log[p].snapIdx <= k /\ k <= LastIndex(log[p]) /\ k - log[p].snapIdx = k
    BY <1>2, <1>4, <2>2 DEF LastIndex
  <2>5. /\ l.entries = f \o q.entries /\ l.snapIdx = 0
        /\ f \in Seq(Entry(Cmd)) /\ Len(f) = k
    <3>1. /\ l.entries = FirstOf(log[p].entries, k - log[p].snapIdx) \o q.entries
          /\ l.snapIdx = log[p].snapIdx
          /\ FirstOf(log[p].entries, k - log[p].snapIdx) \in Seq(Entry(Cmd))
          /\ Len(FirstOf(log[p].entries, k - log[p].snapIdx)) = k - log[p].snapIdx
      <4> HIDE DEF p, q, k
      <4> QED BY <1>2, <1>3, <1>7, <2>3, <2>4, MergeShape DEF l
    <3> HIDE DEF p, q, k, l
    <3> QED BY <1>4, <2>4, <3>1 DEF f
  <2>6. k > 0 => f[k].term = q.prevTerm
    <3>1. Len(f) = Smaller(k, Len(log[p].entries))
          /\ \A j \in 1..Smaller(k, Len(log[p].entries)) : f[j] = log[p].entries[j]
      BY <1>2, <1>4, FirstOfShape
    <3> HIDE DEF p, q, k, f
    <3>2. k > 0 => k \in 1..Smaller(k, Len(log[p].entries)) BY <1>2, <2>5, <3>1
    <3> QED BY <2>2, <3>1, <3>2
  <2> HIDE DEF l
  <2> QED BY <1>5, <1>7, <2>5, <2>6
<1> QED BY <1>6, <1>7

\* A client's write makes the log longer by one entry.
LEMMA WrittenEntry ==
  ASSUME TypeOK, NEW n \in Node, NEW v \in Cmd
  PROVE  LET e == [term |-> term[n], index |-> LastIndex(log[n]) + 1, cmd |-> v] IN
         /\ e \in Entry(Cmd) /\ WithCommand(n, v).snapIdx = log[n].snapIdx
         /\ WithCommand(n, v).entries = Append(log[n].entries, e)
         /\ Len(WithCommand(n, v).entries) = Len(log[n].entries) + 1
<1> USE TypeParts
<1> DEFINE e == [term |-> term[n], index |-> LastIndex(log[n]) + 1, cmd |-> v]
<1>1. log[n] \in Log(Cmd) BY DEF LogOK
<1>2. log[n].entries \in Seq(Entry(Cmd)) /\ LastIndex(log[n]) \in Nat
  BY <1>1, LogFields, LastOfLog
<1>3. e \in Entry(Cmd)
  <2>1. term[n] \in Nat BY TermNat DEF ServerOK
  <2> QED BY <1>2, <2>1 DEF Entry
<1>4. WithCommand(n, v) = AppendAll(log[n], <<e>>) BY DEF WithCommand
<1> HIDE DEF e
<1>5. /\ WithCommand(n, v).entries = log[n].entries \o <<e>>
      /\ WithCommand(n, v).snapIdx = log[n].snapIdx
  BY <1>1, <1>4 DEF AppendAll, Log
<1>6. log[n].entries \o <<e>> = Append(log[n].entries, e)
  BY <1>2, <1>3
<1>7. Len(Append(log[n].entries, e)) = Len(log[n].entries) + 1
  BY <1>2, <1>3, AppendProperties
<1> QED BY <1>3, <1>5, <1>6, <1>7 DEF e

\* Logs change by entries accepted or written.
LEMMA LogsMove ==
  ASSUME TypeOK, Uncompacted, Next
  PROVE  \/ UNCHANGED log
         \/ \E m \in calls : AcceptAppend(m)
         \/ \E n \in Node, v \in Cmd : Put(n, v) \/ (PutBreaks(n, v) /\ ~LogHeld(n))
<1>1. CASE \E n \in Node : ElectionStep(n) BY <1>1, OtherStepsLeaveLogs
<1>2. ASSUME NEW n \in Node, LoopStep(n) PROVE UNCHANGED log
  <2>1. ~Compact(n) BY DEF Compact, At, Uncompacted, Compacts
  <2> QED BY <1>2, <2>1, OtherStepsLeaveLogs
<1>3. ASSUME NEW m \in calls, Handled(m) \/ CallFails(m)
      PROVE  UNCHANGED log \/ AcceptAppend(m)
  <2>1. ~InstallSnapshot(m) BY DEF InstallSnapshot, Received, Uncompacted
  <2> QED BY <1>3, <2>1, OtherStepsLeaveLogs
<1>4. CASE WriteStep
  <2>1. ASSUME NEW n \in Node, PutHangs(n) PROVE UNCHANGED log BY <2>1 DEF PutHangs
  <2>2. ASSUME NEW n \in Node, NEW v \in Cmd, PutBreaks(n, v), LogHeld(n)
        PROVE  UNCHANGED log
    BY <2>2 DEF PutBreaks
  <2> QED BY <1>4, <2>1, <2>2 DEF WriteStep
<1> QED BY <1>1, <1>2, <1>3, <1>4, NextParts DEF ReplicationStep

\* A loop stays, goes to its apply step or into an election, or takes its next step.
LEMMA LoopsMove ==
  ASSUME TypeOK, Next, NEW n \in Node
  PROVE  \/ loop'[n] = loop[n] \/ loop'[n].pc \in {"elect", "apply"}
         \/ LoopStep(n) /\ LoopGoes(n)
<1>1. CASE \E p \in Node : ElectionStep(p) BY <1>1, ElectionLoops
<1>2. ASSUME NEW p \in Node, LoopStep(p)
      PROVE  loop'[n] = loop[n] \/ (LoopStep(n) /\ LoopGoes(n))
  <2>1. LoopGoes(p) BY <1>2, LoopSteps
  <2>2. CASE p = n BY <1>2, <2>1, <2>2
  <2>3. CASE p # n BY <2>1, <2>3 DEF LoopGoes
  <2> QED BY <2>2, <2>3
<1>3. CASE WriteStep
  <2>1. UNCHANGED loop BY <1>3 DEF WriteStep, Put, PutBreaks, PutHangs
  <2> QED BY <2>1
<1>4. ASSUME NEW m \in calls, Handled(m) \/ CallFails(m) PROVE loop'[n] = loop[n]
  BY <1>4, HandlersLoops
<1> QED BY <1>1, <1>2, <1>3, <1>4, NextParts DEF ReplicationStep

LEMMA UncompactedStep ==
  ASSUME TypeOK, RequestsInOrder, BeforeSnapshots, Uncompacted, EntriesCounted, Next
  PROVE  Uncompacted'
<1> USE TypeParts
<1>1. ASSUME NEW n \in Node PROVE log'[n].snapIdx = 0
  <2>1. log[n].snapIdx = 0 BY DEF Uncompacted
  <2>2. CASE UNCHANGED log BY <2>1, <2>2
  <2>3. ASSUME NEW m \in calls, AcceptAppend(m) PROVE log'[n].snapIdx = 0
    <3>1. m.to \in Node BY ReceivedTyped
    <3>2. log[m.to].snapIdx = 0 BY <3>1 DEF Uncompacted
    <3>3. CASE log' = log BY <2>1, <3>3
    <3>4. ASSUME NEW l, log' = [log EXCEPT ![m.to] = l], l.snapIdx = 0
          PROVE  log'[n].snapIdx = 0
      BY <2>1, <3>1, <3>4 DEF LogOK
    <3> QED BY <2>3, <3>2, <3>3, <3>4, AcceptedEntries
  <2>4. ASSUME NEW p \in Node, NEW v \in Cmd, log' = [log EXCEPT ![p] = WithCommand(p, v)]
        PROVE  log'[n].snapIdx = 0
    <3>1. WithCommand(p, v).snapIdx = 0 BY WrittenEntry DEF Uncompacted
    <3> QED BY <2>1, <2>4, <3>1 DEF LogOK
  <2> QED BY <2>2, <2>3, <2>4, LogsMove DEF Put, PutBreaks
<1>2. ASSUME NEW n \in Node
      PROVE  loop'[n].pc \notin Compacts /\ (At(n, "send")' => loop'[n].snapIdx = 0)
  <2>1. loop[n].pc \notin Compacts /\ (At(n, "send") => loop[n].snapIdx = 0)
    BY DEF Uncompacted
  <2>2. CASE loop'[n] = loop[n] \/ loop'[n].pc \in {"elect", "apply"}
    BY <2>1, <2>2 DEF Compacts, At
  <2>3. ASSUME LoopGoes(n)
        PROVE  loop'[n].pc \notin Compacts /\ (At(n, "send")' => loop'[n].snapIdx = 0)
    <3>1. ~(Len(log[n].entries) >= Threshold)
      <4>1. Len(log[n].entries) \in Nat BY LogFields DEF LogOK
      <4>2. used["put"] \in Nat /\ Limit["put"] \in Nat /\ Threshold \in Nat
        BY BoundAssumption DEF PastOK
      <4>3. ToCome(n) \in {0, 1} BY DEF ToCome
      <4> QED BY <4>1, <4>2, <4>3 DEF EntriesCounted, BeforeSnapshots
    <3>2. loop'[n].pc \notin Compacts BY <2>1, <2>3, <3>1 DEF LoopGoes, Compacts
    <3>3. ReadSnapshot(n) => loop'[n].snapIdx = 0
      BY DEF ReadSnapshot, GoTo, LoopOK, Uncompacted
    <3> QED BY <2>1, <2>3, <3>2, <3>3 DEF LoopGoes, At
  <2> QED BY <2>2, <2>3, LoopsMove
<1>3. ASSUME NEW c \in calls' PROVE c.req.kind = "append"
  <2>1. CASE \E m \in calls : c.req = m.req BY <2>1 DEF Uncompacted
  <2>2. ASSUME NEW n \in Node, NEW p \in Node, Sends(n, p, c.req)
        PROVE  c.req.kind = "append"
    <3>1. loop[n] \in Sending /\ loop[n].snapIdx = 0
      BY <2>2, LoopTyped DEF Sends, At, Uncompacted
    <3>2. ~(loop[n].next[p] <= loop[n].snapIdx) BY <3>1 DEF Sending
    <3> QED BY <2>2, <3>2 DEF Sends, AppendRequest
  <2> QED BY <2>1, <2>2, RequestsCome
<1> QED BY <1>1, <1>2, <1>3 DEF Uncompacted

\* What a step takes of the puts there may be.
LEMMA PutsSpent ==
  ASSUME TypeOK, Next
  PROVE  /\ \/ used'["put"] = used["put"]
            \/ used["put"] < Limit["put"] /\ used'["put"] = used["put"] + 1
         /\ \A n \in Node, v \in Cmd : Put(n, v) \/ PutHangs(n) =>
              used'["put"] = used["put"] + 1
<1> USE TypeParts
<1>1. used \in [{"fail", "transfer", "put", "crash"} -> Nat]
  BY BoundAssumption DEF PastOK
<1>2. ASSUME NEW b \in {"fail", "transfer"}, Spend(b) PROVE used'["put"] = used["put"]
  BY <1>1, <1>2 DEF Spend
<1>3. Spend("put") => used["put"] < Limit["put"] /\ used'["put"] = used["put"] + 1
  BY <1>1 DEF Spend
<1>4. ASSUME NEW n \in Node, ElectionStep(n) PROVE used'["put"] = used["put"]
  <2>1. ASSUME NEW t \in Task, CampaignStep(n, t) \/ VoteCallFails(n, t)
        PROVE  UNCHANGED used \/ Spend("fail")
    BY <2>1 DEF CampaignStep, SaveCandidate, ReceiveVote, FinishCampaign, RejectStaleVote,
                GrantVote, DenyVote, SaveVote, AnswerVote, VoteCallFails
  <2>2. UNCHANGED used \/ Spend("fail") \/ Spend("transfer")
    BY <1>4, <2>1 DEF ElectionStep, StartElection, PreVote, PreVoteLost, StartRealElection,
                CopyState, TransferLeader, HandleTimeoutNow, SendTimeoutNow,
                RejectTimeoutNow, ReceiveTimeoutNow, StepDown, TimeoutNowFails
  <2> QED BY <1>2, <2>2
<1>5. ASSUME NEW n \in Node, LoopStep(n) PROVE UNCHANGED used
  BY <1>5 DEF LoopStep, IdlePass, BeginHeartbeat, ReadSnapshot, SendToPeer, SkipPeer,
              EndHeartbeat, ReadMatch, Tally, AdvanceCommit, ReadCommit, ApplyEntries,
              SetApplied, CheckSnapshot, TakeSnapshot, CopyStore, Compact, CopySnapshot,
              SaveSnapshot
<1>6. ASSUME NEW m \in calls, Handled(m) \/ CallFails(m) PROVE used'["put"] = used["put"]
  <2>1. UNCHANGED used \/ Spend("fail")
    BY <1>6 DEF Handled, Wedge, RejectStaleAppend, MismatchAppend, AcceptAppend,
                RejectStaleSnapshot, InstallSnapshot, NewerTermAnswer, AppendAnswer,
                SnapshotAnswer, CallFails
  <2> QED BY <1>2, <2>1
<1>7. CASE WriteStep BY <1>2, <1>3, <1>7 DEF WriteStep, Put, PutBreaks, PutHangs
<1>8. ASSUME NEW n \in Node, NEW v \in Cmd, Put(n, v) \/ PutHangs(n)
      PROVE  used'["put"] = used["put"] + 1
  BY <1>3, <1>8 DEF Put, PutHangs
<1> QED BY <1>4, <1>5, <1>6, <1>7, <1>8, NextParts DEF ReplicationStep

LEMMA CountedStep ==
  ASSUME TypeOK, RequestsInOrder, Uncompacted, EntriesCounted, Next
  PROVE  EntriesCounted'
<1> USE TypeParts
<1>1. used["put"] \in Nat /\ used'["put"] \in Nat /\ Limit["put"] \in Nat
      /\ used["put"] <= used'["put"] /\ used'["put"] <= Limit["put"]
  <2>1. used["put"] \in Nat /\ Limit["put"] \in Nat BY BoundAssumption DEF PastOK
  <2> QED BY <2>1, PutsSpent DEF EntriesCounted
<1>2. ASSUME NEW n \in Node
      PROVE  Len(log'[n].entries) + ToCome(n)' <= used'["put"]
  <2>1. Len(log[n].entries) \in Nat /\ Len(log[n].entries) + ToCome(n) <= used["put"]
    BY LogFields DEF LogOK, EntriesCounted
  <2>2. ToCome(n) \in {0, 1} /\ ToCome(n)' \in {0, 1} BY DEF ToCome
  <2>3. Unlocked(n) => ToCome(n) = 0 BY HungIsNotNil DEF Unlocked, ToCome
  <2>4. CASE UNCHANGED log
    <3>1. CASE PutHangs(n)
      <4>1. Unlocked(n) BY <3>1 DEF PutHangs
      <4>2. \A v \in Cmd : PutHangs(n) => used'["put"] = used["put"] + 1 BY PutsSpent
      <4>3. used'["put"] = used["put"] + 1
        <5>1. Spend("put") BY <3>1 DEF PutHangs
        <5> QED BY <5>1, BoundAssumption DEF Spend, PastOK
      <4> QED BY <1>1, <2>1, <2>2, <2>3, <2>4, <4>1, <4>3
    <3>2. CASE ~PutHangs(n)
      <4>1. frozen'[n] = <<n, Client>> => frozen[n] = <<n, Client>>
        BY <3>2, NextLocks DEF LockStep
      <4>2. ToCome(n)' <= ToCome(n) BY <4>1 DEF ToCome
      <4> QED BY <1>1, <2>1, <2>2, <2>4, <4>2
    <3> QED BY <3>1, <3>2
  <2>5. ASSUME NEW m \in calls, AcceptAppend(m)
        PROVE  Len(log'[n].entries) + ToCome(n)' <= used'["put"]
    <3>1. m.to \in Node /\ m.req \in AppendReq /\ m.req.kind = "append"
      BY <2>5, ReceivedTyped DEF AcceptAppend, Received
    <3>2. log[m.to].snapIdx = 0 BY <3>1 DEF Uncompacted
    <3>3. ToCome(n)' = ToCome(n) BY <2>5 DEF AcceptAppend, electionVars, ToCome
    <3>4. CASE log'[n] = log[n] BY <1>1, <2>1, <2>2, <3>3, <3>4
    <3>5. ASSUME NEW l, NEW f, log' = [log EXCEPT ![m.to] = l], l.entries = f \o m.req.entries,
                 m.req.entries # <<>>, f \in Seq(Entry(Cmd)), Len(f) = m.req.prevIdx, n = m.to
          PROVE  Len(log'[n].entries) + ToCome(n)' <= used'["put"]
      <4>1. log'[n].entries = f \o m.req.entries BY <3>1, <3>5 DEF LogOK
      <4>2. m.req.entries \in Seq(Entry(Cmd)) BY <3>1 DEF AppendReq
      <4>3. Len(f \o m.req.entries) = m.req.prevIdx + Len(m.req.entries)
        BY <3>5, <4>2, ConcatProperties
      <4>4. m.req.prevIdx + Len(m.req.entries) <= used["put"]
        BY <3>1, <3>5 DEF EntriesCounted
      <4>5. m.req.prevIdx \in Nat /\ Len(m.req.entries) \in Nat
        BY <3>1, <4>2, LenProperties DEF AppendReq
      <4>6. Unlocked(n) BY <2>5, <3>5 DEF AcceptAppend, Received
      <4>7. ToCome(n)' = 0 BY <2>3, <3>3, <4>6
      <4>8. Len(log'[n].entries) = m.req.prevIdx + Len(m.req.entries) BY <4>1, <4>3
      <4> QED BY <1>1, <4>4, <4>5, <4>7, <4>8
    <3>6. CASE n = m.to
      <4>1. CASE log' = log BY <3>4, <4>1
      <4>2. CASE log' # log
        <5>1. PICK l : /\ log' = [log EXCEPT ![m.to] = l]
                       /\ l.entries = FirstOf(log[m.to].entries, m.req.prevIdx) \o m.req.entries
                       /\ m.req.entries # <<>>
                       /\ FirstOf(log[m.to].entries, m.req.prevIdx) \in Seq(Entry(Cmd))
                       /\ Len(FirstOf(log[m.to].entries, m.req.prevIdx)) = m.req.prevIdx
          BY <2>5, <3>2, <4>2, AcceptedEntries
        <5> QED BY <3>5, <3>6, <5>1
      <4> QED BY <4>1, <4>2
    <3>7. CASE n # m.to
      <4>1. log'[n] = log[n] BY <2>5, <3>1, <3>7 DEF AcceptAppend, LogOK
      <4> QED BY <3>4, <4>1
    <3> QED BY <3>6, <3>7
  <2>6. ASSUME NEW p \in Node, NEW v \in Cmd, log' = [log EXCEPT ![p] = WithCommand(p, v)]
        PROVE  /\ p = n => Len(log'[n].entries) = Len(log[n].entries) + 1
               /\ p # n => Len(log'[n].entries) = Len(log[n].entries)
    <3>1. Len(WithCommand(p, v).entries) = Len(log[p].entries) + 1 BY WrittenEntry
    <3> QED BY <2>6, <3>1 DEF LogOK
  <2>7. ASSUME NEW p \in Node, NEW v \in Cmd, Put(p, v)
        PROVE  Len(log'[n].entries) + ToCome(n)' <= used'["put"]
    <3>1. used'["put"] = used["put"] + 1 BY <2>7, PutsSpent
    <3>2. ToCome(n)' = ToCome(n) BY <2>7 DEF Put, electionVars, ToCome
    <3>3. \/ Len(log'[n].entries) = Len(log[n].entries)
          \/ Len(log'[n].entries) = Len(log[n].entries) + 1
      BY <2>6, <2>7 DEF Put
    <3>4. ToCome(n) \in Nat BY <2>2
    <3>5. CASE Len(log'[n].entries) = Len(log[n].entries)
      <4>1. Len(log'[n].entries) + ToCome(n) <= used["put"] + 1
        BY <1>1, <2>1, <3>4, <3>5
      <4> QED BY <3>1, <3>2, <4>1
    <3>6. CASE Len(log'[n].entries) = Len(log[n].entries) + 1
      <4>1. Len(log'[n].entries) + ToCome(n) <= used["put"] + 1
        BY <1>1, <2>1, <3>4, <3>6
      <4> QED BY <3>1, <3>2, <4>1
    <3> QED BY <3>3, <3>5, <3>6
  <2>8. ASSUME NEW p \in Node, NEW v \in Cmd, PutBreaks(p, v), ~LogHeld(p)
        PROVE  Len(log'[n].entries) + ToCome(n)' <= used'["put"]
    <3>1. frozen[p] = <<p, Client>> /\ frozen' = [frozen EXCEPT ![p] = Nil]
      BY <2>8 DEF PutBreaks
    <3>2. /\ p = n => Len(log'[n].entries) = Len(log[n].entries) + 1
          /\ p # n => Len(log'[n].entries) = Len(log[n].entries)
      BY <2>6, <2>8 DEF PutBreaks
    <3>3. CASE p = n
      <4>1. ToCome(n) = 1 BY <3>1, <3>3 DEF ToCome
      <4>2. ToCome(n)' = 0
        <5>1. frozen'[n] = Nil BY <3>1, <3>3 DEF WaitOK
        <5> QED BY <5>1, HungIsNotNil DEF ToCome
      <4> QED BY <1>1, <2>1, <3>2, <3>3, <4>1, <4>2
    <3>4. CASE p # n
      <4>1. ToCome(n)' = ToCome(n) BY <3>1, <3>4 DEF ToCome, WaitOK
      <4> QED BY <1>1, <2>1, <2>2, <3>2, <3>4, <4>1
    <3> QED BY <3>3, <3>4
  <2> QED BY <2>4, <2>5, <2>7, <2>8, LogsMove
<1>3. ASSUME NEW c \in calls', c.req.kind = "append", c.req.entries # <<>>
      PROVE  c.req.prevIdx + Len(c.req.entries) <= used'["put"]
  <2>1. ASSUME NEW m \in calls, c.req = m.req
        PROVE  c.req.prevIdx + Len(c.req.entries) <= used'["put"]
    <3>1. c.req \in AppendReq BY <1>3, <2>1, ReceivedTyped
    <3>2. c.req.prevIdx \in Nat /\ Len(c.req.entries) \in Nat
      BY <3>1, LenProperties DEF AppendReq
    <3> QED BY <1>1, <1>3, <2>1, <3>2 DEF EntriesCounted
  <2>2. ASSUME NEW n \in Node, NEW p \in Node, Sends(n, p, c.req)
        PROVE  c.req.prevIdx + Len(c.req.entries) <= used'["put"]
    <3>1. loop[n] \in Sending /\ log[n].snapIdx = 0
      BY <2>2, LoopTyped DEF Sends, At, Uncompacted
    <3>2. c.req = AppendRequest(n, p, loop[n])
      BY <1>3, <2>2 DEF Sends, SnapshotRequest
    <3>3. c.req.prevIdx \in Nat /\ c.req.entries \in Seq(Entry(Cmd))
          /\ c.req.prevIdx + Len(c.req.entries) <= Len(log[n].entries)
      BY <1>3, <3>1, <3>2, SentStretch
    <3>4. Len(log[n].entries) \in Nat /\ Len(log[n].entries) + ToCome(n) <= used["put"]
      BY LogFields DEF LogOK, EntriesCounted
    <3>5. ToCome(n) \in {0, 1} BY DEF ToCome
    <3>6. Len(log[n].entries) <= used["put"] BY <1>1, <3>4, <3>5
    <3>7. Len(c.req.entries) \in Nat BY <3>3, LenProperties
    <3>8. c.req.prevIdx + Len(c.req.entries) \in Nat BY <3>3, <3>7
    <3>9. c.req.prevIdx + Len(c.req.entries) <= Len(log[n].entries) BY <3>3
    <3> QED BY <1>1, <3>4, <3>6, <3>8, <3>9
  <2> QED BY <2>1, <2>2, RequestsCome
<1> QED BY <1>1, <1>2, <1>3 DEF EntriesCounted

LEMMA ShortStep ==
  ASSUME TypeOK, RequestsInOrder, BeforeSnapshots, ShortInv, [Next]_vars
  PROVE  ShortInv'
<1>1. HungLeads' BY HungStep DEF ShortInv
<1>2. CASE Next BY <1>1, <1>2, UncompactedStep, CountedStep DEF ShortInv
<1>3. CASE UNCHANGED vars
  BY <1>1, <1>3 DEF ShortInv, Uncompacted, EntriesCounted, ToCome, At, vars, stateVars
<1> QED BY <1>2, <1>3

\* A log that is not compacted cannot misfile.
LEMMA NothingMisfiled ==
  ASSUME TypeOK, Uncompacted
  PROVE  ~Misfiles
<1>1. ASSUME NEW m \in calls PROVE log[m.to].snapIdx = 0
  BY ReceivedTyped, TypeParts DEF Uncompacted
<1>2. ASSUME NEW m \in calls PROVE ~(log[m.to].snapIdx > 0) BY <1>1
<1>3. ASSUME NEW n \in Node PROVE ~Compact(n) BY DEF Uncompacted, Compact, At, Compacts
<1> QED BY <1>2, <1>3 DEF Misfiles, FilesAbove, CompactsBack

-----------------------------------------------------------------------------
(* Logs within one history.  Where no become_leader comes late or by a TimeoutNow
   campaign, every term has one leader, and the log of that leader is the history of
   the term: it only grows while the node leads, and what the leader sends, however
   late it comes, is a stretch of it. *)

\* Every leader was elected by its main loop, in the term it leads.
HonestWins == \A w \in wins : w.task = Loop /\ w.term = w.at

HasWon(W, n, t) == \E w \in W : w.node = n /\ w.at = t

\* Requests are of a leader, also when it leads no more.
SentByLeaders ==
  /\ \A m \in calls : m.from # m.to /\ HasWon(wins, m.from, m.req.term)
  /\ \A n \in Node : At(n, "beat") \/ At(n, "send") => HasWon(wins, n, loop[n].term)

WinsPast == \A w \in wins : w.at <= term[w.node]

\* A candidate's term is past those it has won.
NotWonYet ==
  \A n \in Node, w \in wins :
    Running(n, Loop) /\ camp[n][Loop].st # "pre" /\ w.node = n => w.at < camp[n][Loop].term

LEMMA WinsStay == [Next]_vars => wins \subseteq wins'
BY NextWins DEF Won

LEMMA WinTyped ==
  ASSUME PastOK, NEW w \in wins
  PROVE  /\ w.node \in Node /\ w.task \in Task /\ w.term \in Nat /\ w.at \in Nat
         /\ w.at \in Term
BY TermNat DEF PastOK, Win

LEMMA SentByLeadersStep ==
  ASSUME TypeOK, LeaderWon, SentByLeaders, Next
  PROVE  SentByLeaders'
<1> USE TypeParts
<1>1. \A n, t : HasWon(wins, n, t) => HasWon(wins', n, t)
  BY WinsStay DEF HasWon
<1>2. ASSUME NEW c \in calls' PROVE c.from # c.to /\ HasWon(wins', c.from, c.req.term)
  <2>1. ASSUME NEW m \in calls, c.req = m.req, c.from = m.from, c.to = m.to
        PROVE  c.from # c.to /\ HasWon(wins', c.from, c.req.term)
    BY <1>1, <2>1 DEF SentByLeaders
  <2>2. ASSUME c.from \in Node, c.to \in Node \ {c.from}, Sends(c.from, c.to, c.req)
        PROVE  c.from # c.to /\ HasWon(wins', c.from, c.req.term)
    <3>1. c.req.term = loop[c.from].term /\ At(c.from, "send")
      BY <2>2 DEF Sends, AppendRequest, SnapshotRequest
    <3> QED BY <1>1, <2>2, <3>1 DEF SentByLeaders
  <2> QED BY <2>1, <2>2, RequestsCome
<1>3. ASSUME NEW n \in Node, At(n, "beat")' \/ At(n, "send")'
      PROVE  HasWon(wins', n, loop'[n].term)
  <2>1. CASE loop'[n] = loop[n] BY <1>1, <1>3, <2>1 DEF At, SentByLeaders
  <2>2. ASSUME LoopGoes(n) PROVE HasWon(wins', n, loop'[n].term)
    <3>1. ASSUME BeginHeartbeat(n) PROVE HasWon(wins', n, loop'[n].term)
      <4>1. loop'[n].term = term[n] /\ role[n] = "Leader"
        BY <3>1 DEF BeginHeartbeat, GoTo, LoopOK
      <4>2. HasWon(wins, n, term[n]) BY <4>1 DEF LeaderWon, HasWon
      <4> QED BY <1>1, <4>1, <4>2
    <3>2. ASSUME ReadSnapshot(n) PROVE HasWon(wins', n, loop'[n].term)
      <4>1. loop'[n].term = loop[n].term /\ At(n, "beat")
        BY <3>2 DEF ReadSnapshot, GoTo, LoopOK
      <4> QED BY <1>1, <4>1 DEF SentByLeaders
    <3>3. ASSUME At(n, "send"), loop'[n].term = loop[n].term
          PROVE  HasWon(wins', n, loop'[n].term)
      BY <1>1, <3>3 DEF SentByLeaders
    <3> QED BY <1>3, <2>2, <3>1, <3>2, <3>3 DEF LoopGoes, At
  <2>3. CASE loop'[n].pc \in {"elect", "apply"} BY <1>3, <2>3 DEF At
  <2> QED BY <2>1, <2>2, <2>3, LoopsMove
<1> QED BY <1>2, <1>3 DEF SentByLeaders

LEMMA WinsPastStep ==
  ASSUME TypeInv, TypeInv', WinsPast, [Next]_vars
  PROVE  WinsPast'
<1> USE TypeParts, TypePartsNext DEF TypeInv
<1>1. ASSUME NEW w \in wins PROVE w.at <= term'[w.node]
  <2>1. w.node \in Node /\ w.at \in Nat BY WinTyped
  <2>2. term'[w.node] >= term[w.node] BY <2>1, NextServerStep, StepKeepsVotes DEF KeepsVote
  <2>3. term[w.node] \in Nat /\ term'[w.node] \in Nat BY <2>1, TermNat DEF ServerOK
  <2> QED BY <2>1, <2>2, <2>3 DEF WinsPast
<1>2. CASE UNCHANGED wins BY <1>1, <1>2 DEF WinsPast
<1>3. ASSUME NEW n \in Node, NEW t \in Task, Won(n, t) PROVE WinsPast'
  <2>1. term' = term /\ term[n] \in Nat BY <1>3, TermNat DEF Won, ServerOK
  <2> QED BY <1>1, <1>3, <2>1 DEF Won, WinsPast
<1> QED BY <1>2, <1>3, NextWins

LEMMA NotWonYetStep ==
  ASSUME TypeInv, TypeInv', HonestWins', WinsPast, NotWonYet, [Next]_vars
  PROVE  NotWonYet'
<1> USE TypeParts, TypePartsNext DEF TypeInv
<1> SUFFICES ASSUME NEW n \in Node, NEW w \in wins', Running(n, Loop)',
                    camp'[n][Loop].st # "pre", w.node = n
             PROVE  w.at < camp'[n][Loop].term
  BY DEF NotWonYet
<1>1. ASSUME w \in wins PROVE w.at < camp'[n][Loop].term
  <2>1. w.at \in Nat /\ w.at <= term[n] BY <1>1, WinTyped DEF WinsPast
  <2>2. term[n] \in Nat /\ term'[n] \in Nat BY TermNat DEF ServerOK
  <2>3. TermStep(n) BY NextTerms
  <2> QED BY <1>1, <2>1, <2>2, <2>3 DEF TermStep, NotWonYet
<1>2. ASSUME NEW p \in Node, NEW t \in Task, Won(p, t), w \notin wins PROVE FALSE
  <2>1. w = [node |-> p, task |-> t, term |-> camp[p][t].term, at |-> term[p]]
    BY <1>2 DEF Won
  <2>2. p = n /\ t = Loop BY <2>1 DEF HonestWins
  <2>3. camp'[n][Loop] = Nil BY <1>2, <2>2 DEF Won, FinishCampaign, SetCamp, CampOK
  <2> QED BY <2>3 DEF Running
<1> QED BY <1>1, <1>2, NextWins

\* Who wins a term first finds no history of it.
LEMMA FirstToWin ==
  ASSUME PastOK, ElectedOnce', HonestWins', NotWonYet, NEW n \in Node, NEW t \in Task,
         Won(n, t), NEW w \in wins
  PROVE  w.at # term[n]
<1> DEFINE x == [node |-> n, task |-> t, term |-> camp[n][t].term, at |-> term[n]]
<1>1. wins' = wins \cup {x} BY DEF Won
<1>2. x.node = n /\ x.task = t /\ x.term = camp[n][t].term /\ x.at = term[n] OBVIOUS
<1> HIDE DEF x
<1>3. t = Loop /\ camp[n][t].term = term[n] BY <1>1, <1>2 DEF HonestWins
<1>4. SUFFICES ASSUME w.at = term[n] PROVE FALSE OBVIOUS
<1>5. w.task = Loop /\ x.task = Loop /\ w.term = x.term
  BY <1>1, <1>2, <1>3, <1>4 DEF HonestWins
<1>6. w.node = n BY <1>1, <1>2, <1>5 DEF ElectedOnce
<1>7. Running(n, Loop) /\ camp[n][Loop].st # "pre"
  BY <1>3 DEF Won, FinishCampaign
<1>8. w.at < camp[n][Loop].term BY <1>6, <1>7 DEF NotWonYet
<1>9. w.at \in Nat BY WinTyped
<1> QED BY <1>3, <1>4, <1>8, <1>9

\* Nobody leads a term another node has won.
LEMMA OneLeaderPerTerm ==
  ASSUME ElectedOnce, HonestWins, LeaderWon, NEW p \in Node, role[p] = "Leader", NEW n,
         HasWon(wins, n, term[p])
  PROVE  n = p
BY DEF ElectedOnce, HonestWins, LeaderWon, HasWon

\* H[t] is the log of the leader of term t, and every log and request is within it.
HistoryOf(H) ==
  /\ \A n \in Node : Within(log[n].entries, H)
  /\ \A m \in calls : SentWithin(m.req.prevIdx, m.req.prevTerm, m.req.entries, H)
  /\ \A n \in Node : role[n] = "Leader" => log[n].entries = H[term[n]]
  /\ \A t \in Nat : H[t] # <<>> => \E w \in wins : w.at = t

HistoryInv == \E H \in Histories(Cmd) : HistoryOf(H)

LEMMA RequestsWithin ==
  ASSUME TypeOK, Uncompacted, NEW H \in Histories(Cmd), HistoryOf(H), Next, NEW c \in calls'
  PROVE  /\ c.req.prevIdx \in Nat /\ c.req.entries \in Seq(Entry(Cmd))
         /\ SentWithin(c.req.prevIdx, c.req.prevTerm, c.req.entries, H)
<1> USE TypeParts
<1>1. ASSUME NEW m \in calls, c.req = m.req
      PROVE  /\ c.req.prevIdx \in Nat /\ c.req.entries \in Seq(Entry(Cmd))
             /\ SentWithin(c.req.prevIdx, c.req.prevTerm, c.req.entries, H)
  <2>1. c.req \in AppendReq BY <1>1, ReceivedTyped DEF Uncompacted
  <2> QED BY <1>1, <2>1 DEF AppendReq, HistoryOf
<1>2. ASSUME NEW n \in Node, NEW p \in Node, Sends(n, p, c.req)
      PROVE  /\ c.req.prevIdx \in Nat /\ c.req.entries \in Seq(Entry(Cmd))
             /\ SentWithin(c.req.prevIdx, c.req.prevTerm, c.req.entries, H)
  <2> DEFINE k == c.req.prevIdx
             u == c.req.prevTerm
             es == c.req.entries
             s == log[n].entries
  <2>1. loop[n] \in Sending /\ loop[n].snapIdx = 0 /\ log[n].snapIdx = 0
    BY <1>2, LoopTyped DEF Sends, At, Uncompacted
  <2>2. c.req = AppendRequest(n, p, loop[n])
    <3>1. ~(loop[n].next[p] <= loop[n].snapIdx) BY <2>1 DEF Sending
    <3> QED BY <1>2, <3>1 DEF Sends
  <2>3. /\ k \in Nat /\ es \in Seq(Entry(Cmd))
        /\ es # <<>> => /\ k + Len(es) <= Len(s)
                        /\ \A j \in 1..Len(es) : es[j] = s[k + j]
                        /\ k > 0 => s[k].term = u
    <3> DEFINE q == AppendRequest(n, p, loop[n])
    <3>1. /\ q.prevIdx \in Nat /\ q.entries \in Seq(Entry(Cmd))
          /\ q.entries # <<>> =>
               /\ q.prevIdx + Len(q.entries) <= Len(s)
               /\ \A j \in 1..Len(q.entries) : q.entries[j] = s[q.prevIdx + j]
               /\ q.prevIdx > 0 => s[q.prevIdx].term = q.prevTerm
      BY <2>1, SentStretch
    <3> HIDE DEF q, s
    <3> QED BY <2>2, <3>1 DEF q
  <2>4. s \in Seq(Entry(Cmd)) /\ Within(s, H)
    BY LogFields DEF LogOK, HistoryOf
  <2>5. H \in [Nat -> Seq(Entry(Cmd))] BY DEF Histories
  <2> HIDE DEF k, u, es, s
  <2>6. CASE es = <<>>
    <3>1. Len(es) = 0 BY <2>6
    <3>2. \A i \in 1..Len(es) : FALSE BY <3>1
    <3>3. SentWithin(k, u, es, H) BY <3>2 DEF SentWithin
    <3> QED BY <2>3, <3>3 DEF k, u, es
  <2>7. CASE es # <<>>
    <3>1. SentWithin(k, u, es, H) BY <2>3, <2>4, <2>5, <2>7, StretchWithin
    <3> QED BY <2>3, <3>1 DEF k, u, es
  <2> QED BY <2>6, <2>7
<1> QED BY <1>1, <1>2, RequestsCome

\* A history G that continues H, with the logs as they are after the step.
LEMMA HistoryContinues ==
  ASSUME TypeOK, Uncompacted, NEW H \in Histories(Cmd), HistoryOf(H), Next,
         NEW G \in Histories(Cmd), Extends(G, H),
         \A n \in Node : Within(log'[n].entries, G),
         \A n \in Node : role'[n] = "Leader" => log'[n].entries = G[term'[n]],
         \A t \in Nat : G[t] # <<>> => \E w \in wins' : w.at = t
  PROVE  HistoryInv'
<1>1. H \in [Nat -> Seq(Entry(Cmd))] /\ G \in [Nat -> Seq(Entry(Cmd))] BY DEF Histories
<1>2. ASSUME NEW c \in calls'
      PROVE  SentWithin(c.req.prevIdx, c.req.prevTerm, c.req.entries, G)
  <2> DEFINE k == c.req.prevIdx
             u == c.req.prevTerm
             es == c.req.entries
  <2>1. k \in Nat /\ es \in Seq(Entry(Cmd)) /\ SentWithin(k, u, es, H)
    BY RequestsWithin
  <2> HIDE DEF k, u, es
  <2>2. SentWithin(k, u, es, G) BY <1>1, <2>1, SentExtends
  <2> QED BY <2>2 DEF k, u, es
<1>3. HistoryOf(G)' BY <1>2 DEF HistoryOf
<1> QED BY <1>3 DEF HistoryInv

LEMMA ExtendsItself ==
  ASSUME NEW H \in Histories(Cmd)
  PROVE  Extends(H, H)
<1>1. H \in [Nat -> Seq(Entry(Cmd))] BY DEF Histories
<1> QED BY <1>1, HistoryLengths DEF Extends, Agree

\* A step without a new entry or a new leader.
LEMMA QuietHistory ==
  ASSUME TypeOK, Uncompacted, NEW H \in Histories(Cmd), HistoryOf(H), Next,
         UNCHANGED log, ~(\E n \in Node, t \in Task : Won(n, t))
  PROVE  HistoryInv'
<1>1. ASSUME NEW n \in Node, role'[n] = "Leader" PROVE log'[n].entries = H[term'[n]]
  <2>1. role[n] = "Leader" /\ term'[n] = term[n] BY <1>1, NextRoles DEF RoleStep
  <2> QED BY <2>1 DEF HistoryOf
<1>2. \A t \in Nat : H[t] # <<>> => \E w \in wins' : w.at = t
  BY WinsStay DEF HistoryOf
<1>3. \A n \in Node : Within(log'[n].entries, H) BY DEF HistoryOf
<1> QED BY <1>1, <1>2, <1>3, ExtendsItself, HistoryContinues

\* A new leader's log is the history of its term so far.
LEMMA WonHistory ==
  ASSUME TypeOK, Uncompacted, NEW H \in Histories(Cmd), HistoryOf(H), Next,
         LeaderWon, ElectedOnce', HonestWins', NotWonYet, NEW n \in Node, NEW t \in Task,
         Won(n, t)
  PROVE  HistoryInv'
<1> USE TypeParts
<1>1. \A w \in wins : w.at # term[n] BY FirstToWin
<1>2. /\ UNCHANGED <<log, term>> /\ role' = [role EXCEPT ![n] = "Leader"]
      /\ \E w \in wins' : w.at = term[n]
  <2> DEFINE x == [node |-> n, task |-> t, term |-> camp[n][t].term, at |-> term[n]]
  <2>1. wins' = wins \cup {x} BY DEF Won
  <2>2. x.at = term[n] OBVIOUS
  <2> HIDE DEF x
  <2>3. \E w \in wins' : w.at = term[n] BY <2>1, <2>2
  <2> QED BY <2>3 DEF Won, FinishCampaign, BecomeLeader
<1>3. term[n] \in Nat /\ \A q \in Node : term[q] \in Nat BY TermNat DEF ServerOK
<1>4. H[term[n]] = <<>> BY <1>1, <1>3 DEF HistoryOf
<1>5. log[n].entries \in Seq(Entry(Cmd)) /\ Within(log[n].entries, H)
  BY LogFields DEF LogOK, HistoryOf
<1>6. \E G \in Histories(Cmd) :
        G = [H EXCEPT ![term[n]] = log[n].entries] /\ Extends(G, H)
  BY <1>3, <1>4, <1>5, FirstHistory
<1>7. PICK G \in Histories(Cmd) : G = [H EXCEPT ![term[n]] = log[n].entries] /\ Extends(G, H)
  BY <1>6
<1>8. H \in [Nat -> Seq(Entry(Cmd))] /\ G \in [Nat -> Seq(Entry(Cmd))] BY DEF Histories
<1>9. G[term[n]] = log[n].entries /\ \A u \in Nat : u # term[n] => G[u] = H[u]
  BY <1>3, <1>7, <1>8
<1>10. ASSUME NEW q \in Node PROVE Within(log'[q].entries, G)
  <2>1. log[q].entries \in Seq(Entry(Cmd)) /\ Within(log[q].entries, H)
    BY LogFields DEF LogOK, HistoryOf
  <2> QED BY <1>2, <1>7, <1>8, <2>1, WithinExtends
<1>11. ASSUME NEW q \in Node, role'[q] = "Leader" PROVE log'[q].entries = G[term'[q]]
  <2>1. CASE q = n BY <1>2, <1>9, <2>1
  <2>2. CASE q # n
    <3>1. role[q] = "Leader" BY <1>2, <1>11, <2>2 DEF ServerOK
    <3>2. term[q] # term[n] BY <1>1, <3>1 DEF LeaderWon
    <3> QED BY <1>2, <1>3, <1>9, <3>1, <3>2 DEF HistoryOf
  <2> QED BY <2>1, <2>2
<1>12. ASSUME NEW u \in Nat, G[u] # <<>> PROVE \E w \in wins' : w.at = u
  <2>1. CASE u = term[n] BY <1>2, <2>1
  <2>2. CASE u # term[n] BY <1>9, <1>12, <2>2, WinsStay DEF HistoryOf
  <2> QED BY <2>1, <2>2
<1> QED BY <1>7, <1>10, <1>11, <1>12, HistoryContinues

\* What a leader writes goes to the end of its history.
LEMMA WriteHistory ==
  ASSUME TypeOK, Uncompacted, NEW H \in Histories(Cmd), HistoryOf(H), Next,
         LeaderWon, ElectedOnce, HonestWins, NEW n \in Node, NEW v \in Cmd,
         role[n] = "Leader", log' = [log EXCEPT ![n] = WithCommand(n, v)],
         UNCHANGED <<role, term>>
  PROVE  HistoryInv'
<1> USE TypeParts
<1> DEFINE e == [term |-> term[n], index |-> LastIndex(log[n]) + 1, cmd |-> v]
           s == Append(log[n].entries, e)
<1>1. e \in Entry(Cmd) /\ e.term = term[n] /\ WithCommand(n, v).entries = s
  BY WrittenEntry
<1>2. term[n] \in Nat /\ \A q \in Node : term[q] \in Nat BY TermNat DEF ServerOK
<1>3. log[n].entries = H[term[n]] BY DEF HistoryOf
<1>4. s = Append(H[e.term], e) BY <1>1, <1>3
<1>5. log'[n].entries = s /\ \A q \in Node : q # n => log'[q] = log[q]
  BY <1>1 DEF LogOK
<1> HIDE DEF e, s
<1>6. \E G \in Histories(Cmd) : G = [H EXCEPT ![term[n]] = s] /\ Extends(G, H)
  BY <1>1, <1>4, EntryGrows
<1>7. PICK G \in Histories(Cmd) : G = [H EXCEPT ![term[n]] = s] /\ Extends(G, H)
  BY <1>6
<1>8. H \in [Nat -> Seq(Entry(Cmd))] /\ G \in [Nat -> Seq(Entry(Cmd))]
      /\ \A t \in Nat : Within(G[t], G)
  BY DEF Histories
<1>9. G[term[n]] = s /\ \A u \in Nat : u # term[n] => G[u] = H[u]
  BY <1>2, <1>7, <1>8
<1>10. ASSUME NEW q \in Node PROVE Within(log'[q].entries, G)
  <2>1. CASE q = n BY <1>2, <1>5, <1>8, <1>9, <2>1
  <2>2. CASE q # n
    <3>1. log[q].entries \in Seq(Entry(Cmd)) /\ Within(log[q].entries, H)
      BY LogFields DEF LogOK, HistoryOf
    <3>2. Within(log[q].entries, G) BY <1>7, <1>8, <3>1, WithinExtends
    <3> QED BY <1>5, <2>2, <3>2
  <2> QED BY <2>1, <2>2
<1>11. HasWon(wins, n, term[n]) BY DEF LeaderWon, HasWon
<1>12. ASSUME NEW q \in Node, role'[q] = "Leader" PROVE log'[q].entries = G[term'[q]]
  <2>1. CASE q = n BY <1>5, <1>9, <2>1
  <2>2. CASE q # n
    <3>1. term[q] # term[n]
      <4>1. HasWon(wins, q, term[q]) BY <1>12 DEF LeaderWon, HasWon
      <4> QED BY <1>11, <1>12, <2>2, <4>1, OneLeaderPerTerm
    <3>2. log[q].entries = H[term[q]] BY <1>12 DEF HistoryOf
    <3> QED BY <1>2, <1>5, <1>9, <2>2, <3>1, <3>2
  <2> QED BY <2>1, <2>2
<1>13. ASSUME NEW u \in Nat, G[u] # <<>> PROVE \E w \in wins' : w.at = u
  <2>1. CASE u = term[n] BY <1>11, <2>1, WinsStay DEF HasWon
  <2>2. CASE u # term[n] BY <1>9, <1>13, <2>2, WinsStay DEF HistoryOf
  <2> QED BY <2>1, <2>2
<1> QED BY <1>7, <1>10, <1>12, <1>13, HistoryContinues

\* What is accepted fits, whenever it comes, and a leader of the sender's term does not
\* get it.
LEMMA AcceptHistory ==
  ASSUME TypeOK, Uncompacted, RequestsInOrder, NEW H \in Histories(Cmd), HistoryOf(H), Next,
         LeaderWon, ElectedOnce, HonestWins, SentByLeaders,
         NEW m \in calls, AcceptAppend(m), log' # log
  PROVE  HistoryInv'
<1> USE TypeParts
<1> DEFINE p == m.to
           q == m.req
           f == FirstOf(log[p].entries, q.prevIdx)
<1>1. p \in Node /\ q \in AppendReq /\ q.term \in Nat
  BY ReceivedTyped, TermNat DEF Uncompacted
<1>2. q.entries \in Seq(Entry(Cmd)) /\ q.prevIdx \in Nat BY <1>1 DEF AppendReq
<1>3. PICK l : /\ log' = [log EXCEPT ![p] = l] /\ l.entries = f \o q.entries
               /\ f \in Seq(Entry(Cmd)) /\ Len(f) = q.prevIdx
               /\ q.prevIdx > 0 => f[q.prevIdx].term = q.prevTerm
  <2>1. log[p].snapIdx = 0 BY <1>1 DEF Uncompacted
  <2> QED BY <2>1, AcceptedEntries
<1>4. Within(f \o q.entries, H)
  <2>1. log[p].entries \in Seq(Entry(Cmd)) /\ Within(log[p].entries, H)
    BY <1>1, LogFields DEF LogOK, HistoryOf
  <2>2. Within(f, H) BY <1>2, <2>1, FirstWithin
  <2>3. SentWithin(Len(f), q.prevTerm, q.entries, H) BY <1>3 DEF HistoryOf
  <2>4. f # <<>> => f[Len(f)].term = q.prevTerm
    <3> HIDE DEF f, q
    <3>1. f # <<>> => Len(f) > 0 BY <1>2, <1>3, EmptySeq
    <3> QED BY <1>3, <3>1
  <2> HIDE DEF f, q
  <2> QED BY <1>2, <1>3, <2>2, <2>3, <2>4, JoinWithin
<1>5. ASSUME NEW n \in Node PROVE Within(log'[n].entries, H)
  <2>1. CASE n = p
    <3>1. log'[n] = l BY <1>1, <1>3, <2>1 DEF LogOK
    <3> QED BY <1>3, <1>4, <3>1
  <2>2. CASE n # p
    <3>1. log'[n] = log[n] BY <1>1, <1>3, <2>2 DEF LogOK
    <3> QED BY <3>1 DEF HistoryOf
  <2> QED BY <2>1, <2>2
<1>6. ASSUME NEW n \in Node, role'[n] = "Leader" PROVE log'[n].entries = H[term'[n]]
  <2>1. q.term >= term[p] /\ YieldTo(m) BY DEF AcceptAppend
  <2>2. role[n] = "Leader" /\ term'[n] = term[n] /\ n # p
    <3>1. CASE q.term > term[p] \/ role[p] = "Candidate"
      <4>1. BecomeFollower(p, q.term, m.from) BY <2>1, <3>1 DEF YieldTo
      <4> QED BY <1>1, <1>6, <4>1 DEF BecomeFollower, ServerOK
    <3>2. CASE ~(q.term > term[p] \/ role[p] = "Candidate")
      <4>1. UNCHANGED <<role, term>> BY <2>1, <3>2 DEF YieldTo
      <4>2. CASE n # p BY <1>6, <4>1, <4>2
      <4>3. CASE n = p
        <5>1. term[p] \in Nat BY <1>1, TermNat DEF ServerOK
        <5>2. q.term = term[p] BY <1>1, <2>1, <3>2, <5>1
        <5>3. HasWon(wins, m.from, term[p]) /\ m.from # p BY <5>2 DEF SentByLeaders
        <5>4. role[p] = "Leader" BY <1>6, <4>1, <4>3
        <5> QED BY <1>1, <5>3, <5>4, OneLeaderPerTerm
      <4> QED BY <4>2, <4>3
    <3> QED BY <3>1, <3>2
  <2>3. log'[n] = log[n] BY <1>1, <1>3, <2>2 DEF LogOK
  <2> QED BY <2>2, <2>3 DEF HistoryOf
<1>7. \A t \in Nat : H[t] # <<>> => \E w \in wins' : w.at = t
  BY WinsStay DEF HistoryOf
<1> QED BY <1>5, <1>6, <1>7, ExtendsItself, HistoryContinues

LEMMA HistoryStep ==
  ASSUME TypeOK, ShortInv, RequestsInOrder, HistoryInv, LeaderWon, ElectedOnce, ElectedOnce',
         HonestWins, HonestWins', SentByLeaders, NotWonYet, Next
  PROVE  HistoryInv'
<1>1. PICK H \in Histories(Cmd) : HistoryOf(H) BY DEF HistoryInv
<1>2. Uncompacted /\ HungLeads BY DEF ShortInv
<1>3. CASE \E n \in Node, t \in Task : Won(n, t) BY <1>1, <1>2, <1>3, WonHistory
<1>4. CASE UNCHANGED log /\ ~(\E n \in Node, t \in Task : Won(n, t))
  BY <1>1, <1>2, <1>4, QuietHistory
<1>5. ASSUME log' # log, NEW m \in calls, AcceptAppend(m) PROVE HistoryInv'
  BY <1>1, <1>2, <1>5, AcceptHistory
<1>6. ASSUME NEW n \in Node, NEW v \in Cmd, Put(n, v) \/ (PutBreaks(n, v) /\ ~LogHeld(n))
      PROVE  HistoryInv'
  <2>1. log' = [log EXCEPT ![n] = WithCommand(n, v)] /\ UNCHANGED <<role, term>>
    BY <1>6 DEF Put, PutBreaks, stateVars
  <2>2. role[n] = "Leader" BY <1>2, <1>6 DEF Put, PutBreaks, HungLeads
  <2> QED BY <1>1, <1>2, <2>1, <2>2, WriteHistory
<1> QED BY <1>2, <1>3, <1>4, <1>5, <1>6, LogsMove

\* Two logs within one history match.
LEMMA HistoryMatches ==
  ASSUME TypeOK, Uncompacted, HistoryInv
  PROVE  LogMatching
<1> USE TypeParts
<1>1. PICK H \in Histories(Cmd) : HistoryOf(H) BY DEF HistoryInv
<1>2. ASSUME NEW n \in Node
      PROVE  /\ Len(log[n].entries) \in Nat /\ LastIndex(log[n]) = Len(log[n].entries)
             /\ \A i \in Nat : /\ Holds(log[n], i) <=> i \in 1..Len(log[n].entries)
                               /\ EntryAt(log[n], i) = log[n].entries[i]
  <2>1. Len(log[n].entries) \in Nat /\ log[n].snapIdx = 0
    BY LogFields DEF LogOK, Uncompacted
  <2>2. LastIndex(log[n]) = Len(log[n].entries) BY <2>1 DEF LastIndex
  <2>3. ASSUME NEW i \in Nat
        PROVE  /\ Holds(log[n], i) <=> i \in 1..Len(log[n].entries)
               /\ EntryAt(log[n], i) = log[n].entries[i]
    <3>1. i - 0 = i OBVIOUS
    <3> QED BY <2>1, <2>2, <3>1 DEF Holds, EntryAt
  <2> QED BY <2>1, <2>2, <2>3
<1> SUFFICES ASSUME NEW p \in Node, NEW q \in Node, NEW i \in 1..LastIndex(log[p]),
                    Holds(log[p], i), Holds(log[q], i),
                    EntryAt(log[p], i).term = EntryAt(log[q], i).term,
                    NEW j \in 1..i, Holds(log[p], j), Holds(log[q], j)
             PROVE  EntryAt(log[p], j) = EntryAt(log[q], j)
  BY DEF LogMatching, SameEntry
<1>3. i \in Nat /\ j \in Nat BY <1>2
<1>4. /\ i \in 1..Len(log[p].entries) /\ i \in 1..Len(log[q].entries)
      /\ log[p].entries[i].term = log[q].entries[i].term
  BY <1>2, <1>3
<1>5. Within(log[p].entries, H) /\ Within(log[q].entries, H) BY <1>1 DEF HistoryOf
<1>6. log[p].entries[j] = log[q].entries[j] BY <1>4, <1>5, WithinMatch
<1> QED BY <1>2, <1>3, <1>6

MatchInv ==
  /\ Filed /\ ShortInv /\ SentByLeaders /\ WinsPast
  /\ HonestWins => NotWonYet /\ HistoryInv

LEMMA MatchInit == Init => MatchInv
<1> SUFFICES ASSUME Init PROVE MatchInv OBVIOUS
<1>1. ShortInv
  <2>1. log = [n \in Node |-> EmptyLog] /\ calls = {} /\ used["put"] = 0
        /\ Limit["put"] \in Nat
    BY BoundAssumption DEF Init
  <2>2. EmptyLog.snapIdx = 0 /\ Len(EmptyLog.entries) = 0 BY DEF EmptyLog
  <2>3. \A n \in Node : loop[n].pc = "idle" /\ frozen[n] = Nil BY DEF Init
  <2>4. Uncompacted BY <2>1, <2>2, <2>3 DEF Uncompacted, Compacts, At
  <2>5. \A n \in Node : Len(log[n].entries) = 0 /\ ToCome(n) = 0
    BY <2>1, <2>2, <2>3, HungIsNotNil DEF ToCome
  <2>6. EntriesCounted BY <2>1, <2>5 DEF EntriesCounted
  <2>7. HungLeads BY <2>3, HungIsNotNil DEF HungLeads
  <2> QED BY <2>4, <2>6, <2>7 DEF ShortInv
<1>2. SentByLeaders /\ WinsPast /\ NotWonYet
  BY DEF Init, SentByLeaders, WinsPast, NotWonYet, At
<1>3. HistoryInv
  <2> DEFINE H == [t \in Nat |-> <<>>]
  <2>1. \A t \in Nat : H[t] = <<>> /\ Len(H[t]) = 0 OBVIOUS
  <2>2. <<>> \in Seq(Entry(Cmd)) BY EmptySeq
  <2>3. H \in [Nat -> Seq(Entry(Cmd))] BY <2>2
  <2> HIDE DEF H
  <2>4. \A t \in Nat : Within(H[t], H) BY <2>1 DEF Within
  <2>5. H \in Histories(Cmd) BY <2>3, <2>4 DEF Histories
  <2>6. \A n \in Node : log[n].entries = <<>> /\ role[n] # "Leader"
    BY DEF Init, EmptyLog
  <2>7. \A n \in Node : Within(log[n].entries, H)
    <3>1. Len(<<>>) = 0 OBVIOUS
    <3> QED BY <2>6, <3>1 DEF Within
  <2>8. HistoryOf(H) BY <2>1, <2>6, <2>7 DEF HistoryOf, Init
  <2> QED BY <2>5, <2>8 DEF HistoryInv
<1> QED BY <1>1, <1>2, <1>3, FiledInit DEF MatchInv

LEMMA MatchStep ==
  ASSUME BeforeSnapshots, LeaderInv, LeaderInv', ElectedOnce, ElectedOnce', MatchInv,
         [Next]_vars
  PROVE  MatchInv'
<1>1. TypeInv /\ TypeInv' /\ TypeOK /\ LeaderWon
  BY DEF LeaderInv, WinInv, VoteInv, TypeInv
<1>2. Filed /\ RequestsInOrder /\ ShortInv /\ Uncompacted /\ SentByLeaders /\ WinsPast
  BY DEF MatchInv, Filed, ShortInv
<1>3. ~Misfiles BY <1>1, <1>2, NothingMisfiled
<1>4. Filed'
  <2>1. [NextCrash]_vars BY DEF NextCrash
  <2> QED BY <1>1, <1>2, <1>3, <2>1, FiledStep
<1>5. ShortInv' BY <1>1, <1>2, ShortStep
<1>6. WinsPast' BY <1>1, <1>2, WinsPastStep
<1>7. SentByLeaders'
  <2>1. CASE Next BY <1>1, <1>2, <2>1, SentByLeadersStep
  <2>2. CASE UNCHANGED vars
    BY <1>2, <2>2 DEF SentByLeaders, HasWon, At, vars
  <2> QED BY <2>1, <2>2
<1>8. ASSUME HonestWins' PROVE NotWonYet' /\ HistoryInv'
  <2>1. HonestWins BY <1>8, WinsStay DEF HonestWins
  <2>2. NotWonYet /\ HistoryInv BY <2>1 DEF MatchInv
  <2>3. NotWonYet' BY <1>1, <1>2, <1>8, <2>2, NotWonYetStep
  <2>4. ASSUME Next PROVE HistoryInv'
    BY <1>1, <1>2, <1>8, <2>1, <2>2, <2>4, HistoryStep
  <2>5. ASSUME UNCHANGED vars PROVE HistoryInv'
    <3>1. UNCHANGED <<log, calls, role, term, wins>> BY <2>5 DEF vars
    <3> QED BY <2>2, <3>1 DEF HistoryInv, HistoryOf
  <2> QED BY <2>3, <2>4, <2>5
<1> QED BY <1>4, <1>5, <1>6, <1>7, <1>8 DEF MatchInv

\* Log matching (rpc.rs handle_append_entries cuts and files, whatever is in the log and
\* however late the request comes): where every leader was elected by its main loop in
\* the term it leads, two logs with an entry of the same term at the same index have the
\* same entries up to it, as long as there are too few entries for a snapshot.
THEOREM RaftLogMatching ==
  ASSUME BeforeSnapshots
  PROVE  Spec => [](HonestWins => LogMatching)
<1>1. LeaderInv /\ MatchInv => (HonestWins => LogMatching)
  BY HistoryMatches DEF MatchInv, ShortInv, LeaderInv, WinInv, VoteInv, TypeInv
<1>2. LeaderInv /\ LeaderInv' /\ ElectedOnce /\ ElectedOnce' /\ MatchInv
      /\ [Next]_vars => MatchInv'
  BY MatchStep
<1> QED BY <1>1, <1>2, MatchInit, LeaderInit, LeaderStep, RaftElectedOnce, PTL DEF Spec
=============================================================================
