--------------------------- MODULE KvServiceProofs --------------------------
(***************************************************************************)
(* What the service promises on ideal consensus, for any number of nodes,  *)
(* clients, terms and attempts.                                            *)
(*                                                                         *)
(* The argument has four layers.  ConsensusInv: a leader holds whatever a  *)
(* node of its term or an earlier one has committed, and the leader of the *)
(* newest term all that is chosen.  CallInv: an index and a term belong to *)
(* one put.  LoopInv: a store is what has been applied of the chosen       *)
(* commands.  ReadInv: a read waits for what it should find.               *)
(***************************************************************************)
EXTENDS KvService, SequenceTheorems, FiniteSetTheorems, WellFoundedInduction, TLAPS

(* Types. *)

SentCall     == [at : {"sent"}, kind : {"put", "get"}, tries : 1..MaxTries, node : Node]
AppendedCall == [at : {"appended"}, kind : {"put"}, node : Node, tries : 1..MaxTries,
                 index : Index, term : 1..MaxTerm]
WaitingCall  == [at : {"waiting"}, kind : {"put"}, node : Node, tries : 1..MaxTries,
                 index : Index, term : 1..MaxTerm, late : BOOLEAN, outBy : Nat]
CatchingCall == [at : {"catching"}, kind : {"get"}, node : Node, tries : 1..MaxTries,
                 target : Nat, want : Nat]
ReadingCall  == [at : {"reading"}, kind : {"get"}, node : Node, tries : 1..MaxTries,
                 want : Nat]
OpenCall     == SentCall \cup AppendedCall \cup WaitingCall \cup CatchingCall \cup ReadingCall

IdleLoop      == [at : {"idle"}]
ApplyingLoop  == [at : {"applying"}, next : Nat \ {0}, upto : Nat]
NotifyingLoop == [at : {"notifying"}, upto : Nat]

ServerTypes ==
  /\ chosen \in Seq(Entry) /\ top \in 0..MaxTerm
  /\ role \in [Node -> {"Follower", "Leader"}] /\ term \in [Node -> 0..MaxTerm]
  /\ leaderId \in [Node -> Node \cup {Nil}]
  /\ log \in [Node -> Seq(Entry)] /\ commit \in [Node -> Nat]

StoreTypes ==
  /\ applied \in [Node -> Nat] /\ machine \in [Node -> Seq(Client)]
  /\ loop \in [Node -> IdleLoop \cup ApplyingLoop \cup NotifyingLoop]

ClientTypes ==
  /\ pending \in [Node -> [Index -> Client \cup {Nil}]]
  /\ call \in [Client -> OpenCall \cup {Nil}]
  /\ hint \in [Client -> Node \cup {Nil}] /\ did \in [Client -> SUBSET {"put", "get"}]
  /\ notified \in [Node -> Nat] /\ acknowledged \in Nat
  /\ \A c \in Client : call[c] # Nil => call[c].kind \in did[c]

TypeInv == ServerTypes /\ StoreTypes /\ ClientTypes

(* Consensus. *)

Leader(n) == role[n] = "Leader"

\* The first i entries of l have been chosen.
Chosen(l, i) == i <= Len(l) /\ i <= Len(chosen) /\ \A j \in 1..i : l[j] = chosen[j]

LeadersOfTerms ==
  /\ \A n \in Node : term[n] <= top /\ (Leader(n) => term[n] > 0)
  /\ \A m, n \in Node : Leader(m) /\ Leader(n) /\ term[m] = term[n] => m = n

TermsInUse ==
  /\ \A n \in Node : \A i \in 1..Len(log[n]) : log[n][i].term <= top
  /\ \A i \in 1..Len(chosen) : chosen[i].term <= top

\* A leader holds every entry of its term.
LeaderHasTerm ==
  \A k \in Node : Leader(k) =>
    /\ \A n \in Node : \A i \in 1..Len(log[n]) :
         log[n][i].term = term[k] => i <= Len(log[k]) /\ log[k][i] = log[n][i]
    /\ \A i \in 1..Len(chosen) :
         chosen[i].term = term[k] => i <= Len(log[k]) /\ log[k][i] = chosen[i]

CommitIsChosen ==
  /\ \A n \in Node : Chosen(log[n], commit[n])
  /\ \A k, m \in Node : Leader(k) /\ term[m] <= term[k] => Chosen(log[k], commit[m])

NewestLeaderHasAll ==
  \A k \in Node : Leader(k) /\ term[k] = top =>
    /\ Chosen(log[k], Len(chosen))
    /\ \A i \in 1..Len(chosen) : chosen[i].term = top => Len(chosen) <= commit[k]

ConsensusInv ==
  LeadersOfTerms /\ TermsInUse /\ LeaderHasTerm /\ CommitIsChosen /\ NewestLeaderHasAll

(* Calls. *)

PutSent(c) == Is(c, "sent") /\ call[c].kind = "put"
Entered(c) == Is(c, "appended") \/ Is(c, "waiting")

\* The put of c is in no log yet.
NotYet(c) == "put" \notin did[c] \/ PutSent(c)

NotYetAppended ==
  \A c \in Client : NotYet(c) => \A n \in Node : \A i \in 1..Len(log[n]) : log[n][i].cmd # c

\* The entry of a put is known by its index and term.
EntryIsMine ==
  \A c \in Client : Entered(c) =>
    /\ call[c].term <= top
    /\ \A n \in Node : call[c].index <= Len(log[n]) /\ log[n][call[c].index].term = call[c].term
                         => log[n][call[c].index].cmd = c
    /\ call[c].index <= Len(chosen) /\ chosen[call[c].index].term = call[c].term
         => chosen[call[c].index].cmd = c
    /\ \A k \in Node : Leader(k) /\ term[k] = call[c].term => call[c].index <= Len(log[k])

EntryIsNobodyElses ==
  \A c, d \in Client : Entered(c) /\ Entered(d) /\ call[c].index = call[d].index
                         /\ call[c].term = call[d].term => c = d

CallInv == NotYetAppended /\ AppendedOnce /\ EntryIsMine /\ EntryIsNobodyElses

(* The loop that applies, and reads. *)

StoreIsApplied(n) ==
  /\ applied[n] <= Len(machine[n]) /\ Len(machine[n]) <= commit[n]
  /\ \A i \in 1..Len(machine[n]) : machine[n][i] = chosen[i].cmd
  /\ loop[n].at = "idle" => Len(machine[n]) = applied[n]
  /\ loop[n].at = "applying" => /\ loop[n].next = Len(machine[n]) + 1
                                /\ Len(machine[n]) <= loop[n].upto /\ loop[n].upto <= commit[n]
  /\ loop[n].at = "notifying" => loop[n].upto = applied[n] /\ Len(machine[n]) = applied[n]

LoopInv == \A n \in Node : StoreIsApplied(n)

ReadInv ==
  /\ acknowledged <= Len(chosen)
  /\ \A c \in Client : Is(c, "catching") => call[c].want <= call[c].target

Inv == /\ TypeInv /\ ConsensusInv /\ CallInv /\ LoopInv /\ ReadInv
       /\ NoWaiterForgotten /\ CurrentReadIsFresh

-----------------------------------------------------------------------------
(* Helpers. *)

LEMMA LogFacts ==
  ASSUME ServerTypes, NEW n \in Node
  PROVE  /\ log[n] \in Seq(Entry) /\ Len(log[n]) \in Nat
         /\ \A i \in 1..Len(log[n]) : log[n][i] \in Entry
         /\ chosen \in Seq(Entry) /\ Len(chosen) \in Nat
         /\ \A i \in 1..Len(chosen) : chosen[i] \in Entry
<1>1. log[n] \in Seq(Entry) /\ chosen \in Seq(Entry) BY DEF ServerTypes
<1> QED BY <1>1, LenProperties, ElementOfSeq

\* Every set of numbers has a smallest one, and a largest one where it is bounded.
LEMMA EarliestExists ==
  ASSUME NEW S \in SUBSET Nat, S # {}
  PROVE  \E x \in S : \A y \in S : x <= y
<1>1. PICK x \in S : \A y \in S : ~ (<<y, x>> \in OpToRel(<, Nat))
  BY NatLessThanWellFounded, WFMin
<1>2. \A y \in S : ~ (y < x) BY <1>1 DEF OpToRel
<1> QED BY <1>2

LEMMA LatestExists ==
  ASSUME NEW S \in SUBSET Nat, S # {}, NEW u \in Nat, \A x \in S : x <= u
  PROVE  Latest(S) \in S /\ \A x \in S : x <= Latest(S)
<1> DEFINE D == {d \in Nat : \E x \in S : d = u - x}
<1>1. \A x \in S : u - x \in D OBVIOUS
<1>2. D \in SUBSET Nat /\ D # {} BY <1>1
<1>3. PICK d \in D : \A e \in D : d <= e
  <2> HIDE DEF D
  <2> QED BY <1>2, EarliestExists
<1>4. PICK x \in S : d = u - x OBVIOUS
<1>5. ASSUME NEW y \in S PROVE y <= x
  <2>1. d <= u - y BY <1>1, <1>3
  <2>2. u \in Nat /\ x \in Nat /\ y \in Nat OBVIOUS
  <2> QED BY <1>4, <2>1, <2>2
<1> QED BY <1>5 DEF Latest

LEMMA ChosenPrefix ==
  ASSUME ServerTypes, NEW n \in Node
  PROVE  IsPrefix(chosen, log[n]) <=> Chosen(log[n], Len(chosen))
<1> DEFINE k == Len(chosen)
<1>0. k \in Nat /\ Len(log[n]) \in Nat BY LogFacts
<1>1. SubSeq(chosen, 1, k) = chosen BY LogFacts, SubSeqFull
<1>2. CASE k <= Len(log[n])
  <2>1. \A i \in 1..k : log[n][i] \in Entry BY <1>0, <1>2, LogFacts
  <2>2. /\ SubSeq(log[n], 1, k) \in Seq(Entry) /\ Len(SubSeq(log[n], 1, k)) = k
        /\ \A i \in 1..k : SubSeq(log[n], 1, k)[i] = log[n][i]
    BY <1>0, <2>1, SubSeqProperties
  <2>3. chosen = SubSeq(log[n], 1, k) <=> \A i \in 1..k : log[n][i] = chosen[i]
    BY <2>2, LogFacts, SeqEqual
  <2> QED BY <1>0, <1>1, <1>2, <2>3 DEF IsPrefix, Chosen
<1>3. CASE ~ (k <= Len(log[n])) BY <1>3 DEF IsPrefix, Chosen
<1> QED BY <1>2, <1>3

\* What a leader's log looks like after an append, and what Choose makes of it.
LEMMA AppendFacts ==
  ASSUME ServerTypes, NEW n \in Node, NEW e \in Entry
  PROVE  /\ Append(log[n], e) \in Seq(Entry) /\ Len(Append(log[n], e)) = Len(log[n]) + 1
         /\ \A i \in 1..Len(log[n]) : Append(log[n], e)[i] = log[n][i]
         /\ Append(log[n], e)[Len(log[n]) + 1] = e
BY LogFacts, AppendProperties

LEMMA ChooseFacts ==
  ASSUME ServerTypes, NEW n \in Node, NEW i \in 1..Len(log[n])
  PROVE  /\ SubSeq(log[n], 1, i) \in Seq(Entry) /\ Len(SubSeq(log[n], 1, i)) = i
         /\ \A j \in 1..i : SubSeq(log[n], 1, i)[j] = log[n][j]
<1>1. i \in Nat /\ \A j \in 1..i : log[n][j] \in Entry BY LogFacts
<1> QED BY <1>1, SubSeqProperties

\* Where commands do not repeat and d is not among them, there is room for d.
LEMMA RoomForOne ==
  ASSUME ServerTypes, AppendedOnce, NEW n \in Node, NEW c \in Client,
         \A i \in 1..Len(log[n]) : log[n][i].cmd # c
  PROVE  Len(log[n]) + 1 \in Index
<1> DEFINE k == Len(log[n])
           f == [i \in 1..k + 1 |-> IF i <= k THEN log[n][i].cmd ELSE c]
<1>0. k \in Nat BY LogFacts
<1>1. \A i \in 1..k : log[n][i].cmd \in Client BY LogFacts DEF Entry
<1>2. f \in [1..k + 1 -> Client] BY <1>0, <1>1
<1>3. \A i, j \in 1..k + 1 : f[i] = f[j] => i = j BY <1>0 DEF AppendedOnce
<1>4. f \in Injection(1..k + 1, Client) BY <1>2, <1>3 DEF Injection, IsInjective
<1>5. Cardinality(1..k + 1) <= Cardinality(Client)
  BY <1>4, ServiceAssumption, FS_Injection
<1>6. Cardinality(1..k + 1) = k + 1 BY <1>0, FS_Interval
<1>7. Cardinality(Client) \in Nat BY ServiceAssumption, FS_CardinalityType
<1> QED BY <1>0, <1>5, <1>6, <1>7 DEF Index

-----------------------------------------------------------------------------
(* Types. *)

LEMMA ServerTypesNext ==
  ASSUME TypeInv, LeadersOfTerms, [Next]_vars
  PROVE  ServerTypes'
<1> USE ServiceAssumption DEF TypeInv
<1>1. ASSUME NEW n \in Node, Elect(n) PROVE ServerTypes' BY <1>1 DEF Elect, ServerTypes
<1>2. ASSUME NEW n \in Node, Choose(n) PROVE ServerTypes'
  <2>1. PICK i \in commit[n] + 1..Len(log[n]) :
          /\ commit' = [commit EXCEPT ![n] = i] /\ chosen' = SubSeq(log[n], 1, i)
    BY <1>2 DEF Choose
  <2>2. commit[n] \in Nat /\ Len(log[n]) \in Nat BY LogFacts DEF ServerTypes
  <2>3. i \in 1..Len(log[n]) /\ i \in Nat BY <2>2
  <2>4. chosen' \in Seq(Entry) BY <2>1, <2>3, ChooseFacts
  <2> QED BY <1>2, <2>1, <2>3, <2>4 DEF Choose, ServerTypes, server
<1>3. ASSUME NEW m \in Node, NEW n \in Node, Hear(m, n) PROVE ServerTypes'
  BY <1>3 DEF Hear, ServerTypes
<1>4. ASSUME NEW n \in Node, Depose(n) PROVE ServerTypes' BY <1>4 DEF Depose, ServerTypes
<1>5. ASSUME NEW c \in Client, AppendPut(c) PROVE ServerTypes'
  <2> DEFINE n == call[c].node
             e == [term |-> term[n], cmd |-> c]
  <2>1. n \in Node
    BY <1>5 DEF AppendPut, Is, ClientTypes, OpenCall, SentCall, AppendedCall, WaitingCall,
                CatchingCall, ReadingCall
  <2>2. e \in Entry BY <1>5, <2>1 DEF AppendPut, ServerTypes, LeadersOfTerms, Leader, Entry
  <2>3. Append(log[n], e) \in Seq(Entry) BY <2>1, <2>2, AppendFacts
  <2> HIDE DEF e
  <2>4. log' = [log EXCEPT ![n] = Append(log[n], e)] BY <1>5 DEF AppendPut, e
  <2>5. UNCHANGED <<chosen, top, role, term, leaderId, commit>> BY <1>5 DEF AppendPut, server
  <2> HIDE DEF n
  <2> QED BY <2>1, <2>3, <2>4, <2>5 DEF ServerTypes
<1>6. CASE UNCHANGED consensus BY <1>6 DEF consensus, server, ServerTypes
<1>7. ASSUME NEW c \in Client,
             Redirect(c) \/ Register(c) \/ TimeOut(c) \/ LeaseRead(c) \/ ReadIndex(c)
             \/ WaitForApply(c) \/ Read(c) \/ Break(c) \/ Begin(c, "put") \/ Begin(c, "get")
      PROVE  UNCHANGED consensus
  BY <1>7 DEF Redirect, Register, TimeOut, LeaseRead, ReadIndex, WaitForApply, Read, Break, Begin
<1>8. ASSUME NEW n \in Node, LoopStep(n) PROVE UNCHANGED consensus
  BY <1>8 DEF LoopStep, ReadCommit, ApplyOne, SetApplied, NotifyCommitted
<1>9. CASE UNCHANGED vars BY <1>6, <1>9 DEF vars
<1> QED BY <1>1, <1>2, <1>3, <1>4, <1>5, <1>6, <1>7, <1>8, <1>9, ServiceAssumption DEF Next, Serve

-----------------------------------------------------------------------------
(* Consensus. *)

ConsensusVars == <<chosen, top, role, term, log, commit>>

LEMMA ConsensusKept ==
  ASSUME ConsensusInv, UNCHANGED ConsensusVars
  PROVE  ConsensusInv'
BY DEF ConsensusInv, ConsensusVars, LeadersOfTerms, TermsInUse, LeaderHasTerm, CommitIsChosen,
       NewestLeaderHasAll, Chosen, Leader

LEMMA ElectConsensus ==
  ASSUME ServerTypes, ConsensusInv, NEW n \in Node, Elect(n)
  PROVE  ConsensusInv'
<1> USE DEF ConsensusInv
<1>0. /\ UNCHANGED <<chosen, log, commit>> /\ top' = top + 1
      /\ role' = [role EXCEPT ![n] = "Leader"] /\ term' = [term EXCEPT ![n] = top + 1]
      /\ top \in Nat /\ \A m \in Node : term[m] \in Nat /\ commit[m] \in Nat
  BY DEF Elect, ServerTypes
<1>1. LeadersOfTerms'
  <2>1. /\ \A m \in Node : term'[m] = IF m = n THEN top + 1 ELSE term[m]
        /\ \A m \in Node \ {n} : Leader(m)' => Leader(m)
    BY <1>0 DEF Leader, ServerTypes
  <2>2. \A m \in Node : /\ term[m] \in Nat /\ term[m] <= top /\ term[m] <= top + 1
                        /\ term[m] # top + 1
    BY <1>0 DEF LeadersOfTerms
  <2>3. \A m \in Node : term'[m] <= top' /\ (Leader(m)' => term'[m] > 0)
    BY <1>0, <2>1, <2>2 DEF LeadersOfTerms
  <2>4. ASSUME NEW k \in Node, NEW m \in Node, Leader(k)', Leader(m)', term'[k] = term'[m]
        PROVE  k = m
    BY <2>1, <2>2, <2>4 DEF LeadersOfTerms
  <2> QED BY <2>3, <2>4 DEF LeadersOfTerms
<1>2. TermsInUse'
  <2>1. \A m \in Node : \A i \in 1..Len(log[m]) : log[m][i].term \in Nat /\ log[m][i].term <= top
    BY LogFacts DEF TermsInUse, Entry
  <2>2. \A i \in 1..Len(chosen) : chosen[i].term \in Nat /\ chosen[i].term <= top
    BY LogFacts DEF TermsInUse, Entry
  <2>3. \A t \in Nat : t <= top => t <= top + 1 BY <1>0
  <2> QED BY <1>0, <2>1, <2>2, <2>3 DEF TermsInUse
<1>3. LeaderHasTerm'
  <2> SUFFICES ASSUME NEW k \in Node, Leader(k)'
               PROVE  /\ \A m \in Node : \A i \in 1..Len(log[m]) :
                           log[m][i].term = term'[k] => i <= Len(log[k]) /\ log[k][i] = log[m][i]
                      /\ \A i \in 1..Len(chosen) :
                           chosen[i].term = term'[k] => i <= Len(log[k]) /\ log[k][i] = chosen[i]
    BY <1>0 DEF LeaderHasTerm
  <2>1. CASE k = n
    <3>1. term'[k] = top + 1 BY <1>0, <2>1 DEF ServerTypes
    <3>2. /\ \A m \in Node : \A i \in 1..Len(log[m]) : log[m][i].term \in Nat
          /\ \A i \in 1..Len(chosen) : chosen[i].term \in Nat
      BY LogFacts DEF Entry
    <3> QED BY <1>0, <3>1, <3>2 DEF TermsInUse
  <2>2. CASE k # n BY <1>0, <2>2 DEF LeaderHasTerm, Leader, ServerTypes
  <2> QED BY <2>1, <2>2
<1>4. Chosen(log[n], Len(chosen)) BY ChosenPrefix DEF Elect
<1>5. CommitIsChosen'
  <2>1. ASSUME NEW m \in Node PROVE Chosen(log[n], commit[m])
    BY <1>0, <1>4, LogFacts DEF CommitIsChosen, Chosen
  <2>2. ASSUME NEW k \in Node, NEW m \in Node, Leader(k)', term'[m] <= term'[k]
        PROVE  Chosen(log[k], commit[m])
    <3>1. CASE k = n BY <2>1, <3>1
    <3>2. CASE k # n
      <4>1. Leader(k) /\ term'[k] = term[k] /\ term[k] <= top
        BY <1>0, <2>2, <3>2 DEF Leader, ServerTypes, LeadersOfTerms
      <4>2. m # n BY <1>0, <2>2, <4>1 DEF ServerTypes
      <4> QED BY <1>0, <2>2, <4>1, <4>2 DEF CommitIsChosen, ServerTypes
    <3> QED BY <3>1, <3>2
  <2> QED BY <1>0, <2>2 DEF CommitIsChosen, Chosen
<1>6. NewestLeaderHasAll'
  <2>1. ASSUME NEW k \in Node, Leader(k)', term'[k] = top' PROVE k = n
    BY <1>0, <2>1 DEF ServerTypes, LeadersOfTerms
  <2>2. \A i \in 1..Len(chosen) : chosen[i].term # top + 1
    BY <1>0, LogFacts DEF TermsInUse, Entry
  <2> QED BY <1>0, <1>4, <2>1, <2>2 DEF NewestLeaderHasAll, Chosen
<1> QED BY <1>1, <1>2, <1>3, <1>5, <1>6

LEMMA ChooseConsensus ==
  ASSUME ServerTypes, ConsensusInv, NEW n \in Node, Choose(n)
  PROVE  ConsensusInv' /\ Chosen(chosen', Len(chosen)) /\ chosen' \in Seq(Entry)
         /\ Len(chosen) <= Len(chosen') /\ Len(chosen') \in Nat
         /\ commit[n] <= commit'[n]
         /\ \A j \in 1..Len(chosen') : j <= Len(log[n]) /\ chosen'[j] = log[n][j]
<1> USE DEF ConsensusInv
<1>0. /\ UNCHANGED <<top, role, term, log>> /\ Leader(n) /\ term[n] = top
      /\ top \in Nat /\ \A m \in Node : term[m] \in Nat /\ commit[m] \in Nat
  BY DEF Choose, ServerTypes, server, Leader
<1>1. PICK i \in commit[n] + 1..Len(log[n]) :
        /\ log[n][i].term = top
        /\ commit' = [commit EXCEPT ![n] = i] /\ chosen' = SubSeq(log[n], 1, i)
  BY <1>0 DEF Choose
<1>2. i \in 1..Len(log[n]) /\ i \in Nat /\ commit[n] < i BY <1>0, <1>1, LogFacts
<1>3. /\ chosen' \in Seq(Entry) /\ Len(chosen') = i
      /\ \A j \in 1..i : chosen'[j] = log[n][j]
  BY <1>1, <1>2, ChooseFacts
<1>14. \A j \in 1..Len(chosen') : j \in 1..Len(log[n]) /\ chosen'[j] = log[n][j]
  BY <1>2, <1>3, LogFacts
<1>4. Chosen(log[n], Len(chosen)) BY <1>0 DEF NewestLeaderHasAll
<1>5. Len(chosen) <= i
  <2> SUFFICES ASSUME i < Len(chosen) PROVE FALSE BY <1>2, LogFacts
  <2>1. i \in 1..Len(chosen) BY <1>2, LogFacts
  <2>2. chosen[i].term = top BY <1>1, <1>4, <2>1 DEF Chosen
  <2>3. Len(chosen) <= commit[n] BY <1>0, <2>1, <2>2 DEF NewestLeaderHasAll
  <2> QED BY <1>0, <1>2, <2>3, LogFacts
<1>6. \A j \in 1..Len(chosen) : chosen'[j] = chosen[j]
  BY <1>2, <1>3, <1>4, <1>5, LogFacts DEF Chosen
<1>7. \A m \in Node : commit'[m] = IF m = n THEN i ELSE commit[m] BY <1>1 DEF ServerTypes
<1>8. LeadersOfTerms' BY <1>0 DEF LeadersOfTerms, Leader
<1>9. TermsInUse' BY <1>0, <1>14 DEF TermsInUse
<1>10. LeaderHasTerm'
  <2>1. ASSUME NEW k \in Node, Leader(k), NEW j \in 1..Len(chosen'), chosen'[j].term = term[k]
        PROVE  j <= Len(log[k]) /\ log[k][j] = chosen'[j]
    BY <1>14, <2>1 DEF LeaderHasTerm
  <2> QED BY <1>0, <2>1 DEF LeaderHasTerm, Leader
<1>11. CommitIsChosen'
  <2>1. ASSUME NEW l, NEW j \in Nat, Chosen(l, j) PROVE Chosen(l, j)'
    BY <2>1, <1>3, <1>5, <1>6, LogFacts DEF Chosen
  <2>2. Chosen(log[n], i)' BY <1>0, <1>2, <1>3 DEF Chosen
  <2>3. ASSUME NEW m \in Node PROVE Chosen(log[m], commit[m])'
    <3>1. CASE m = n BY <1>0, <1>7, <2>2, <3>1 DEF Chosen
    <3>2. CASE m # n
      <4>1. Chosen(log[m], commit[m]) /\ commit[m] \in Nat BY <1>0 DEF CommitIsChosen
      <4> QED BY <1>0, <1>7, <2>1, <3>2, <4>1 DEF Chosen
    <3> QED BY <3>1, <3>2
  <2>4. ASSUME NEW k \in Node, NEW m \in Node, Leader(k)', term'[m] <= term'[k]
        PROVE  Chosen(log[k], commit[m])'
    <3>1. Leader(k) /\ term[m] <= term[k] BY <1>0, <2>4 DEF Leader
    <3>2. CASE m = n
      <4>1. term[k] = top BY <1>0, <3>1, <3>2 DEF LeadersOfTerms
      <4>2. k = n BY <1>0, <3>1, <4>1 DEF LeadersOfTerms
      <4> QED BY <2>3, <3>2, <4>2
    <3>3. CASE m # n
      <4>1. Chosen(log[k], commit[m]) /\ commit[m] \in Nat BY <1>0, <3>1 DEF CommitIsChosen
      <4> QED BY <1>0, <1>7, <2>1, <3>3, <4>1 DEF Chosen
    <3> QED BY <3>2, <3>3
  <2> QED BY <2>3, <2>4 DEF CommitIsChosen
<1>12. NewestLeaderHasAll'
  <2>1. ASSUME NEW k \in Node, Leader(k)', term'[k] = top' PROVE k = n
    BY <1>0, <2>1 DEF Leader, LeadersOfTerms
  <2>2. i <= Len(log[n]) /\ Len(chosen') = i BY <1>2, <1>3, LogFacts
  <2>3. Len(chosen') <= commit'[n] BY <1>2, <1>3, <1>7
  <2>4. Chosen(log[n], Len(chosen))' BY <1>0, <1>14, <2>2 DEF Chosen
  <2> QED BY <1>0, <2>1, <2>3, <2>4 DEF NewestLeaderHasAll, Chosen
<1>13. Chosen(chosen', Len(chosen)) BY <1>3, <1>5, <1>6, LogFacts DEF Chosen
<1>15. commit[n] <= commit'[n] /\ Len(chosen') \in Nat BY <1>2, <1>3, <1>7, <1>0
<1> QED BY <1>3, <1>5, <1>14, <1>15, <1>8, <1>9, <1>10, <1>11, <1>12, <1>13

LEMMA HearConsensus ==
  ASSUME ServerTypes, ConsensusInv, NEW m \in Node, NEW n \in Node, Hear(m, n)
  PROVE  ConsensusInv' /\ \A p \in Node : commit[p] <= commit'[p]
<1> USE DEF ConsensusInv
<1>0. /\ UNCHANGED <<chosen, top>> /\ Leader(n) /\ m # n
      /\ role' = [role EXCEPT ![m] = "Follower"] /\ term' = [term EXCEPT ![m] = term[n]]
      /\ log' = [log EXCEPT ![m] = log[n]]
      /\ commit' = [commit EXCEPT ![m] = IF commit[n] > commit[m] THEN commit[n] ELSE commit[m]]
      /\ term[m] <= term[n]
      /\ top \in Nat /\ \A p \in Node : term[p] \in Nat /\ commit[p] \in Nat
  BY DEF Hear, ServerTypes, Leader
<1>1. \A p \in Node : /\ Leader(p)' => p # m /\ Leader(p)
                      /\ term'[p] = IF p = m THEN term[n] ELSE term[p]
                      /\ log'[p] = IF p = m THEN log[n] ELSE log[p]
                      /\ commit'[p] = IF p = m THEN IF commit[n] > commit[m] THEN commit[n] ELSE commit[m]
                                      ELSE commit[p]
  BY <1>0 DEF Leader, ServerTypes
<1>2. LeadersOfTerms' BY <1>0, <1>1 DEF LeadersOfTerms
<1>3. TermsInUse' BY <1>0, <1>1 DEF TermsInUse
<1>4. LeaderHasTerm' BY <1>0, <1>1 DEF LeaderHasTerm
<1>5. CommitIsChosen'
  <2>1. \A k, p \in Node : Leader(k) /\ term[p] <= term[k] => Chosen(log[k], commit[p])
    BY DEF CommitIsChosen
  <2>2. Chosen(log[n], commit[m]) /\ Chosen(log[n], commit[n]) BY <1>0, <2>1
  <2>3. ASSUME NEW p \in Node PROVE Chosen(log[p], commit[p])'
    <3>1. CASE p = m BY <1>0, <1>1, <2>2, <3>1 DEF Chosen
    <3>2. CASE p # m BY <1>0, <1>1, <3>2 DEF CommitIsChosen, Chosen
    <3> QED BY <3>1, <3>2
  <2>4. ASSUME NEW k \in Node, NEW p \in Node, Leader(k)', term'[p] <= term'[k]
        PROVE  Chosen(log[k], commit[p])'
    <3>1. Leader(k) /\ k # m /\ log'[k] = log[k] /\ term'[k] = term[k] BY <1>1, <2>4
    <3>2. CASE p = m
      <4>1. term[n] <= term[k] /\ term[m] <= term[k] BY <1>0, <1>1, <2>4, <3>1, <3>2
      <4>2. Chosen(log[k], commit[n]) /\ Chosen(log[k], commit[m]) BY <2>1, <3>1, <4>1
      <4> QED BY <1>0, <1>1, <3>1, <3>2, <4>2 DEF Chosen
    <3>3. CASE p # m
      <4>1. Chosen(log[k], commit[p]) BY <1>1, <2>1, <2>4, <3>1, <3>3
      <4> QED BY <1>0, <1>1, <3>1, <3>3, <4>1 DEF Chosen
    <3> QED BY <3>2, <3>3
  <2> QED BY <2>3, <2>4 DEF CommitIsChosen
<1>6. NewestLeaderHasAll' BY <1>0, <1>1 DEF NewestLeaderHasAll, Chosen
<1>7. \A p \in Node : commit[p] <= commit'[p] BY <1>0, <1>1
<1> QED BY <1>2, <1>3, <1>4, <1>5, <1>6, <1>7

LEMMA DeposeConsensus ==
  ASSUME ServerTypes, ConsensusInv, NEW n \in Node, Depose(n)
  PROVE  ConsensusInv'
<1> USE DEF ConsensusInv
<1>0. /\ UNCHANGED <<chosen, top, log, commit>>
      /\ role' = [role EXCEPT ![n] = "Follower"] /\ term' = [term EXCEPT ![n] = top]
      /\ top \in Nat /\ \A p \in Node : term[p] \in Nat /\ commit[p] \in Nat
  BY DEF Depose, ServerTypes
<1>1. \A p \in Node : /\ Leader(p)' => p # n /\ Leader(p)
                      /\ term'[p] = IF p = n THEN top ELSE term[p]
  BY <1>0 DEF Leader, ServerTypes
<1>2. LeadersOfTerms' BY <1>0, <1>1 DEF LeadersOfTerms
<1>3. TermsInUse' /\ LeaderHasTerm' BY <1>0, <1>1 DEF TermsInUse, LeaderHasTerm
<1>4. CommitIsChosen'
  <2>1. ASSUME NEW k \in Node, NEW p \in Node, Leader(k)', term'[p] <= term'[k]
        PROVE  Chosen(log[k], commit[p])
    <3>1. Leader(k) /\ term'[k] = term[k] /\ term[k] <= top BY <1>1, <2>1 DEF LeadersOfTerms
    <3>2. CASE p = n
      <4>1. term[n] <= term[k] BY <1>0, <1>1, <2>1, <3>1, <3>2 DEF LeadersOfTerms
      <4> QED BY <3>1, <3>2, <4>1 DEF CommitIsChosen
    <3>3. CASE p # n BY <1>1, <2>1, <3>1, <3>3 DEF CommitIsChosen
    <3> QED BY <3>2, <3>3
  <2> QED BY <1>0, <2>1 DEF CommitIsChosen, Chosen
<1>5. NewestLeaderHasAll' BY <1>0, <1>1 DEF NewestLeaderHasAll, Chosen
<1> QED BY <1>2, <1>3, <1>4, <1>5

LEMMA AppendConsensus ==
  ASSUME ServerTypes, ConsensusInv, NEW n \in Node, Leader(n), NEW c \in Client,
         UNCHANGED <<chosen, top, role, term, commit>>,
         log' = [log EXCEPT ![n] = Append(@, [term |-> term[n], cmd |-> c])]
  PROVE  ConsensusInv'
<1> DEFINE e == [term |-> term[n], cmd |-> c]
<1> USE DEF ConsensusInv
<1>0. /\ e \in Entry /\ e.term = term[n]
      /\ top \in Nat /\ \A p \in Node : term[p] \in Nat /\ commit[p] \in Nat
  BY DEF ServerTypes, LeadersOfTerms, Entry
<1>1. log'[n] = Append(log[n], e) /\ \A p \in Node \ {n} : log'[p] = log[p] BY DEF ServerTypes
<1> HIDE DEF e
<1>2. /\ Len(log[n]) \in Nat /\ Len(log'[n]) = Len(log[n]) + 1
      /\ \A i \in 1..Len(log[n]) : log'[n][i] = log[n][i]
      /\ log'[n][Len(log[n]) + 1] = e
  BY <1>0, <1>1, AppendFacts, LogFacts
<1>3. \A p \in Node : Leader(p)' <=> Leader(p) BY DEF Leader
<1>4. LeadersOfTerms' BY <1>3 DEF LeadersOfTerms
<1>5. TermsInUse'
  <2>1. \A p \in Node : \A i \in 1..Len(log'[p]) : log'[p][i].term <= top
    <3> SUFFICES ASSUME NEW p \in Node, NEW i \in 1..Len(log'[p]) PROVE log'[p][i].term <= top
      OBVIOUS
    <3>1. CASE p = n /\ i = Len(log[n]) + 1
      BY <1>0, <1>2, <3>1 DEF LeadersOfTerms
    <3>2. CASE p = n /\ i # Len(log[n]) + 1
      <4>1. i \in 1..Len(log[n]) BY <1>2, <3>2
      <4> QED BY <1>2, <3>2, <4>1 DEF TermsInUse
    <3>3. CASE p # n BY <1>1, <3>3 DEF TermsInUse
    <3> QED BY <3>1, <3>2, <3>3
  <2> QED BY <2>1 DEF TermsInUse
<1>6. LeaderHasTerm'
  <2> SUFFICES ASSUME NEW k \in Node, Leader(k)
               PROVE  /\ \A m \in Node : \A i \in 1..Len(log'[m]) :
                           log'[m][i].term = term[k]
                             => i <= Len(log'[k]) /\ log'[k][i] = log'[m][i]
                      /\ \A i \in 1..Len(chosen) :
                           chosen[i].term = term[k]
                             => i <= Len(log'[k]) /\ log'[k][i] = chosen[i]
    BY <1>3 DEF LeaderHasTerm
  <2>1. ASSUME NEW i \in Nat \ {0}, i <= Len(log[k])
        PROVE  i <= Len(log'[k]) /\ log'[k][i] = log[k][i]
    BY <1>1, <1>2, <2>1
  <2>2. ASSUME NEW m \in Node, NEW i \in 1..Len(log'[m]), log'[m][i].term = term[k]
        PROVE  i <= Len(log'[k]) /\ log'[k][i] = log'[m][i]
    <3>1. CASE m = n /\ i = Len(log[n]) + 1
      <4>1. k = n BY <1>0, <1>2, <2>2, <3>1 DEF LeadersOfTerms
      <4> QED BY <1>2, <3>1, <4>1
    <3>2. CASE ~ (m = n /\ i = Len(log[n]) + 1)
      <4>1. i \in 1..Len(log[m]) /\ log'[m][i] = log[m][i] BY <1>1, <1>2, <3>2
      <4>2. i <= Len(log[k]) /\ log[k][i] = log[m][i] BY <2>2, <4>1 DEF LeaderHasTerm
      <4> QED BY <2>1, <4>1, <4>2
    <3> QED BY <3>1, <3>2
  <2>3. ASSUME NEW i \in 1..Len(chosen), chosen[i].term = term[k]
        PROVE  i <= Len(log'[k]) /\ log'[k][i] = chosen[i]
    <3>1. i <= Len(log[k]) /\ log[k][i] = chosen[i] BY <2>3 DEF LeaderHasTerm
    <3> QED BY <2>1, <3>1
  <2> QED BY <2>2, <2>3
<1>7. \A p \in Node : \A i \in Nat : Chosen(log[p], i) => Chosen(log[p], i)'
  <2> SUFFICES ASSUME NEW p \in Node, NEW i \in Nat, Chosen(log[p], i)
               PROVE  Chosen(log'[p], i)
    BY DEF Chosen
  <2>1. CASE p = n BY <1>2, <2>1 DEF Chosen
  <2>2. CASE p # n BY <1>1, <2>2 DEF Chosen
  <2> QED BY <2>1, <2>2
<1>8. CommitIsChosen'
  <2>1. \A p \in Node : commit[p] \in Nat /\ commit'[p] = commit[p] BY <1>0
  <2>2. ASSUME NEW p \in Node PROVE Chosen(log[p], commit[p])'
    <3>1. Chosen(log[p], commit[p]) BY DEF CommitIsChosen
    <3> QED BY <1>7, <2>1, <3>1 DEF Chosen
  <2>3. ASSUME NEW k \in Node, NEW m \in Node, Leader(k)', term'[m] <= term'[k]
        PROVE  Chosen(log[k], commit[m])'
    <3>1. Chosen(log[k], commit[m]) BY <1>0, <1>3, <2>3 DEF CommitIsChosen
    <3> QED BY <1>7, <2>1, <3>1 DEF Chosen
  <2> QED BY <2>2, <2>3 DEF CommitIsChosen
<1>9. NewestLeaderHasAll'
  <2>1. Len(chosen) \in Nat BY LogFacts
  <2> QED BY <1>3, <1>7, <2>1 DEF NewestLeaderHasAll, Chosen
<1> QED BY <1>4, <1>5, <1>6, <1>8, <1>9

-----------------------------------------------------------------------------
(* Calls. *)

LEMMA CallShapes ==
  ASSUME ClientTypes, NEW c \in Client
  PROVE  /\ Is(c, "sent")     => call[c] \in SentCall
         /\ Is(c, "appended") => call[c] \in AppendedCall
         /\ Is(c, "waiting")  => call[c] \in WaitingCall
         /\ Is(c, "catching") => call[c] \in CatchingCall
         /\ Is(c, "reading")  => call[c] \in ReadingCall
         /\ call[c] # Nil => call[c].kind \in did[c]
BY DEF ClientTypes, Is, OpenCall, SentCall, AppendedCall, WaitingCall, CatchingCall, ReadingCall

LEMMA EnteredFacts ==
  ASSUME ClientTypes, NEW c \in Client, Entered(c)
  PROVE  /\ call[c].index \in Index /\ call[c].index \in Nat \ {0}
         /\ call[c].term \in 1..MaxTerm /\ call[c].term \in Nat \ {0}
         /\ call[c].node \in Node /\ ~ NotYet(c)
<1>1. call[c] \in AppendedCall \cup WaitingCall BY CallShapes DEF Entered
<1>2. /\ call[c].index \in Index /\ call[c].term \in 1..MaxTerm /\ call[c].node \in Node
      /\ call[c].kind = "put" /\ call[c].at # "sent"
  BY <1>1 DEF AppendedCall, WaitingCall
<1>3. "put" \in did[c] BY <1>2, CallShapes DEF Entered, Is
<1>4. ~ PutSent(c) BY <1>2 DEF PutSent, Is
<1>5. Cardinality(Client) \in Nat BY ServiceAssumption, FS_CardinalityType
<1> QED BY <1>2, <1>3, <1>4, <1>5, ServiceAssumption DEF NotYet, Index

\* No put enters the logs, none is sent again.
CallsKept ==
  /\ \A c \in Client : NotYet(c)' => NotYet(c)
  /\ \A c \in Client : Entered(c)' =>
       Entered(c) /\ call'[c].index = call[c].index /\ call'[c].term = call[c].term

LEMMA CallInvKept ==
  ASSUME CallInv, CallsKept, UNCHANGED <<chosen, top, role, term, log>>
  PROVE  CallInv'
<1> USE DEF CallInv, CallsKept
<1>1. NotYetAppended' BY DEF NotYetAppended
<1>2. AppendedOnce' BY DEF AppendedOnce
<1>3. EntryIsMine' BY DEF EntryIsMine, Leader
<1>4. EntryIsNobodyElses' BY DEF EntryIsNobodyElses
<1> QED BY <1>1, <1>2, <1>3, <1>4

LEMMA SameCalls ==
  ASSUME UNCHANGED <<call, did>>
  PROVE  CallsKept
BY DEF CallsKept, NotYet, PutSent, Entered, Is

\* A call that goes on as r, which enters no log.
LEMMA CallGoesOn ==
  ASSUME ClientTypes, NEW c \in Client, NEW r,
         call' = [call EXCEPT ![c] = r],
         \A d \in Client : d # c => did'[d] = did[d],
         \A k \in did[c] : k \in did'[c],
         r = Nil \/ r \in SentCall \cup CatchingCall \cup ReadingCall,
         (r # Nil /\ r \in SentCall /\ r.kind = "put") => NotYet(c)
  PROVE  CallsKept
<1>1. call'[c] = r /\ \A d \in Client : d # c => call'[d] = call[d] BY DEF ClientTypes
<1>2. ~ Entered(c)' BY <1>1 DEF Entered, Is, SentCall, CatchingCall, ReadingCall
<1>3. NotYet(c)' => NotYet(c)
  <2>1. CASE PutSent(c)'
    <3>1. r # Nil /\ r \in SentCall /\ r.kind = "put"
      BY <1>1, <2>1 DEF PutSent, Is, SentCall, CatchingCall, ReadingCall
    <3> QED BY <3>1
  <2>2. CASE ~ PutSent(c)' BY <2>2 DEF NotYet
  <2> QED BY <2>1, <2>2
<1>4. \A d \in Client : d # c => (NotYet(d)' => NotYet(d)) /\ (Entered(d)' => Entered(d))
  BY <1>1 DEF NotYet, PutSent, Entered, Is
<1> QED BY <1>1, <1>2, <1>3, <1>4 DEF CallsKept

LEMMA FirstCall ==
  ASSUME ClientTypes, NEW c \in Client, hint'[c] \in Node \cup {Nil},
         NEW kind \in {"put", "get"}, NEW tries \in 1..MaxTries
  PROVE  Sent(c, kind, tries) \in SentCall /\ Sent(c, kind, tries).kind = kind
BY ServiceAssumption DEF Sent, SentCall

LEMMA BeginCalls ==
  ASSUME ClientTypes, NEW c \in Client, NEW kind \in {"put", "get"}, Begin(c, kind)
  PROVE  ClientTypes' /\ CallsKept /\ Is(c, "sent")' = (call'[c] # Nil)
         /\ call' = [call EXCEPT ![c] = Sent(c, kind, 1)]
<1>1. 1 \in 1..MaxTries BY ServiceAssumption
<1>2. hint'[c] \in Node \cup {Nil} BY DEF Begin, ClientTypes
<1>3. Sent(c, kind, 1) \in SentCall /\ Sent(c, kind, 1).kind = kind BY <1>1, <1>2, FirstCall
<1>4. /\ call' = [call EXCEPT ![c] = Sent(c, kind, 1)] /\ hint' = hint
      /\ did' = [did EXCEPT ![c] = did[c] \cup {kind}]
      /\ UNCHANGED <<pending, notified, acknowledged>> /\ kind \notin did[c]
  BY DEF Begin, history
<1>5. ClientTypes' BY <1>3, <1>4 DEF ClientTypes, OpenCall
<1>6. did'[c] = did[c] \cup {kind} /\ \A d \in Client : d # c => did'[d] = did[d]
  BY <1>4 DEF ClientTypes
<1>7. kind = "put" => NotYet(c) BY <1>4 DEF NotYet
<1>8. CallsKept BY <1>3, <1>4, <1>6, <1>7, CallGoesOn
<1>9. call'[c] = Sent(c, kind, 1) BY <1>4 DEF ClientTypes
<1> QED BY <1>3, <1>4, <1>5, <1>8, <1>9 DEF Is, SentCall

\* What a step of a call leaves of the types, given its new record.
LEMMA CallTypeNext ==
  ASSUME ClientTypes, NEW c \in Client, NEW r, r = Nil \/ (r \in OpenCall /\ r.kind \in did[c]),
         call' = [call EXCEPT ![c] = r], UNCHANGED <<pending, did, history>>,
         hint' \in [Client -> Node \cup {Nil}]
  PROVE  ClientTypes'
BY DEF ClientTypes, history

LEMMA RedirectCalls ==
  ASSUME ServerTypes, ClientTypes, NEW c \in Client, Redirect(c)
  PROVE  ClientTypes' /\ CallsKept /\ \E r \in SentCall \cup {Nil} : call' = [call EXCEPT ![c] = r]
<1> DEFINE n == call[c].node
           r == IF leaderId[n] # Nil /\ TriesLeft(c)
                THEN Sent(c, call[c].kind, call[c].tries + 1) ELSE Nil
<1>1. call[c] \in SentCall /\ call[c].kind \in did[c] BY CallShapes DEF Redirect, Is
<1>2. n \in Node /\ call[c].kind \in {"put", "get"} /\ call[c].tries \in 1..MaxTries
  BY <1>1 DEF SentCall
<1>3. hint' \in [Client -> Node \cup {Nil}] /\ hint'[c] \in Node \cup {Nil}
  BY <1>2 DEF Redirect, ClientTypes, ServerTypes
<1>4. call' = [call EXCEPT ![c] = r] BY DEF Redirect, Fail
<1>5. r = Nil \/ (r \in SentCall /\ r.kind = call[c].kind)
  <2>1. CASE TriesLeft(c)
    <3>1. call[c].tries + 1 \in 1..MaxTries BY <1>2, <2>1, ServiceAssumption DEF TriesLeft
    <3> QED BY <1>2, <1>3, <3>1, FirstCall
  <2>2. CASE ~ TriesLeft(c) BY <2>2
  <2> QED BY <2>1, <2>2
<1> HIDE DEF r, n
<1>6. UNCHANGED <<pending, did, history>> BY DEF Redirect
<1>7. ClientTypes' BY <1>1, <1>3, <1>4, <1>5, <1>6, CallTypeNext DEF OpenCall
<1>8. call[c].kind = "put" => NotYet(c) BY DEF Redirect, NotYet, PutSent
<1>9. CallsKept BY <1>4, <1>5, <1>6, <1>8, CallGoesOn
<1> QED BY <1>4, <1>5, <1>7, <1>9

LEMMA EndCalls ==
  ASSUME ClientTypes, NEW c \in Client, TimeOut(c) \/ Break(c) \/ Read(c)
  PROVE  ClientTypes' /\ CallsKept /\ call' = [call EXCEPT ![c] = Nil]
<1>1. call' = [call EXCEPT ![c] = Nil] /\ UNCHANGED <<pending, did, hint, history>>
  BY DEF TimeOut, Break, Read, Fail
<1>2. ClientTypes' BY <1>1, CallTypeNext DEF ClientTypes
<1>3. CallsKept BY <1>1, CallGoesOn DEF SentCall
<1> QED BY <1>1, <1>2, <1>3

LEMMA GetCalls ==
  ASSUME ServerTypes, StoreTypes, ClientTypes, NEW c \in Client,
         LeaseRead(c) \/ ReadIndex(c) \/ WaitForApply(c)
  PROVE  /\ ClientTypes' /\ CallsKept
         /\ \E r \in CatchingCall \cup ReadingCall : call' = [call EXCEPT ![c] = r]
<1>0. UNCHANGED <<pending, did, hint, history>> BY DEF LeaseRead, ReadIndex, WaitForApply
<1>1. PICK r \in CatchingCall \cup ReadingCall : call' = [call EXCEPT ![c] = r] /\ r.kind \in did[c]
  <2>1. CASE LeaseRead(c)
    <3>1. call[c] \in SentCall /\ call[c].kind = "get" /\ "get" \in did[c]
      BY <2>1, CallShapes DEF LeaseRead, Leads, Is
    <3>2. Reading(c, 0) \in ReadingCall /\ Reading(c, 0).kind = "get"
      BY <3>1 DEF Reading, SentCall, ReadingCall
    <3> QED BY <2>1, <3>1, <3>2 DEF LeaseRead
  <2>2. CASE ReadIndex(c)
    <3>1. call[c] \in SentCall /\ call[c].kind = "get" /\ "get" \in did[c]
      BY <2>2, CallShapes DEF ReadIndex, Leads, Is
    <3> DEFINE n == call[c].node
               s == [at |-> "catching", kind |-> "get", node |-> n, tries |-> call[c].tries,
                     target |-> commit[n], want |-> IF Current(n) THEN acknowledged ELSE 0]
    <3>2. n \in Node /\ call[c].tries \in 1..MaxTries BY <3>1 DEF SentCall
    <3>3. commit[n] \in Nat /\ acknowledged \in Nat BY <3>2 DEF ServerTypes, ClientTypes
    <3>4. s \in CatchingCall /\ s.kind = "get" BY <3>2, <3>3 DEF CatchingCall
    <3>5. call' = [call EXCEPT ![c] = s] BY <2>2 DEF ReadIndex
    <3> QED BY <3>1, <3>4, <3>5
  <2>3. CASE WaitForApply(c)
    <3>1. call[c] \in CatchingCall /\ call[c].kind \in did[c]
      BY <2>3, CallShapes DEF WaitForApply, CaughtUp, Is
    <3>2. Reading(c, call[c].want) \in ReadingCall /\ Reading(c, call[c].want).kind = call[c].kind
      BY <3>1 DEF Reading, CatchingCall, ReadingCall
    <3> QED BY <2>3, <3>1, <3>2 DEF WaitForApply
  <2> QED BY <2>1, <2>2, <2>3
<1>2. ClientTypes' BY <1>0, <1>1, CallTypeNext DEF ClientTypes, OpenCall
<1>3. r \notin SentCall BY <1>1 DEF SentCall, CatchingCall, ReadingCall
<1>4. CallsKept BY <1>0, <1>1, <1>3, CallGoesOn
<1> QED BY <1>1, <1>2, <1>4

LEMMA AppendPutCalls ==
  ASSUME ServerTypes, ClientTypes, ConsensusInv, CallInv, NEW c \in Client, AppendPut(c)
  PROVE  ClientTypes' /\ ConsensusInv' /\ CallInv'
         /\ \E r \in AppendedCall : call' = [call EXCEPT ![c] = r]
         /\ call[c].node \in Node /\ UNCHANGED <<chosen, commit>>
<1> DEFINE n == call[c].node
           e == [term |-> term[n], cmd |-> c]
           r == [at |-> "appended", kind |-> "put", node |-> n, tries |-> call[c].tries,
                 index |-> Len(log[n]) + 1, term |-> term[n]]
<1>1. call[c] \in SentCall /\ "put" \in did[c] /\ NotYet(c)
  BY CallShapes DEF AppendPut, Is, NotYet, PutSent
<1>2. n \in Node /\ Leader(n) /\ call[c].tries \in 1..MaxTries
  BY <1>1 DEF AppendPut, SentCall, Leader
<1>3. term[n] \in 1..MaxTerm /\ e \in Entry
  BY <1>2, ServiceAssumption DEF ServerTypes, ConsensusInv, LeadersOfTerms, Entry
<1>4. \A m \in Node : \A i \in 1..Len(log[m]) : log[m][i].cmd # c
  BY <1>1 DEF CallInv, NotYetAppended
<1>5. Len(log[n]) + 1 \in Index BY <1>2, <1>4, RoomForOne DEF CallInv
<1>6. r \in AppendedCall BY <1>2, <1>3, <1>5 DEF AppendedCall
<1>7. /\ call' = [call EXCEPT ![c] = r] /\ log' = [log EXCEPT ![n] = Append(log[n], e)]
      /\ UNCHANGED <<chosen, top, role, term, commit, pending, hint, did, history>>
  BY DEF AppendPut, server
<1>8. ConsensusInv' BY <1>2, <1>7, AppendConsensus
<1>9. ClientTypes'
  <2>1. r \in OpenCall /\ r.kind \in did[c] BY <1>1, <1>6 DEF OpenCall
  <2> HIDE DEF r
  <2> QED BY <1>7, <2>1, CallTypeNext DEF ClientTypes
<1>10. /\ log'[n] = Append(log[n], e) /\ \A m \in Node \ {n} : log'[m] = log[m]
       /\ e.term = term[n] /\ e.cmd = c
  BY <1>2, <1>7 DEF ServerTypes
<1>11. /\ call'[c] = r /\ \A d \in Client \ {c} : call'[d] = call[d]
       /\ r.index = Len(log[n]) + 1 /\ r.term = term[n] /\ r.at = "appended"
  BY <1>7 DEF ClientTypes
<1> HIDE DEF e, r
<1>12. /\ Len(log[n]) \in Nat /\ Len(log'[n]) = Len(log[n]) + 1
       /\ \A i \in 1..Len(log[n]) : log'[n][i] = log[n][i]
       /\ log'[n][Len(log[n]) + 1] = e
  BY <1>2, <1>3, <1>10, AppendFacts, LogFacts
<1>13. ASSUME NEW m \in Node, NEW i \in 1..Len(log'[m])
       PROVE  (i \in 1..Len(log[m]) /\ log'[m][i] = log[m][i])
              \/ (m = n /\ i = Len(log[n]) + 1 /\ log'[m][i] = e)
  <2>1. CASE m = n
    <3>1. i \in 1..Len(log[n]) + 1 BY <1>12, <2>1
    <3>2. i \in 1..Len(log[n]) \/ i = Len(log[n]) + 1 BY <1>12, <3>1
    <3> QED BY <1>12, <2>1, <3>2
  <2>2. CASE m # n BY <1>10, <2>2
  <2> QED BY <2>1, <2>2
<1>14. /\ \A d \in Client : Entered(d)' => (d = c \/ Entered(d))
       /\ \A d \in Client : NotYet(d)' => d # c /\ NotYet(d)
  <2>1. ~ NotYet(c)' BY <1>1, <1>7, <1>11 DEF NotYet, PutSent, Is
  <2> QED BY <1>7, <1>11, <2>1 DEF Entered, NotYet, PutSent, Is
\* A put that is about to enter has not the index of any other of its term.
<1>15. ASSUME NEW d \in Client, Entered(d), call[d].term = term[n]
       PROVE  call[d].index # Len(log[n]) + 1
  BY <1>2, <1>12, <1>15, EnteredFacts DEF CallInv, EntryIsMine
<1>16. ~ Entered(c) BY <1>1, EnteredFacts
<1> USE DEF CallInv
<1>17. NotYetAppended'
  <2> SUFFICES ASSUME NEW d \in Client, d # c, NotYet(d), NEW m \in Node, NEW i \in 1..Len(log'[m])
               PROVE  log'[m][i].cmd # d
    BY <1>14 DEF NotYetAppended
  <2> QED BY <1>10, <1>13 DEF NotYetAppended
<1>18. AppendedOnce'
  <2> SUFFICES ASSUME NEW m \in Node, NEW i \in 1..Len(log'[m]), NEW j \in 1..Len(log'[m]),
                      log'[m][i].cmd = log'[m][j].cmd
               PROVE  i = j
    BY DEF AppendedOnce
  <2>1. CASE i \in 1..Len(log[m]) /\ j \in 1..Len(log[m])
    <3>1. log'[m][i] = log[m][i] /\ log'[m][j] = log[m][j] BY <1>10, <1>12, <2>1
    <3> QED BY <2>1, <3>1 DEF AppendedOnce
  <2>2. CASE ~ (i \in 1..Len(log[m]) /\ j \in 1..Len(log[m])) BY <1>4, <1>10, <1>13, <2>2
  <2> QED BY <2>1, <2>2
<1>19. EntryIsMine'
  <2>1. ASSUME NEW d \in Client, Entered(d)'
        PROVE  /\ call'[d].term <= top
               /\ \A m \in Node : call'[d].index <= Len(log'[m])
                    /\ log'[m][call'[d].index].term = call'[d].term
                    => log'[m][call'[d].index].cmd = d
               /\ call'[d].index <= Len(chosen) /\ chosen[call'[d].index].term = call'[d].term
                    => chosen[call'[d].index].cmd = d
               /\ \A k \in Node : Leader(k) /\ term[k] = call'[d].term
                    => call'[d].index <= Len(log'[k])
    <3>1. CASE d = c
      <4>1. term[n] <= top /\ \A k \in Node : Leader(k) /\ term[k] = term[n] => k = n
        BY <1>2 DEF ConsensusInv, LeadersOfTerms
      <4>2. ASSUME NEW m \in Node, r.index <= Len(log'[m]), log'[m][r.index].term = term[n]
            PROVE  log'[m][r.index].cmd = c
        <5>1. r.index \in 1..Len(log'[m]) BY <1>11, <1>12, <4>2
        <5>2. CASE r.index \in 1..Len(log[m]) /\ log'[m][r.index] = log[m][r.index]
          <6>1. r.index <= Len(log[n]) BY <1>2, <4>2, <5>2 DEF ConsensusInv, LeaderHasTerm
          <6> QED BY <1>11, <1>12, <6>1
        <5> QED BY <1>10, <1>13, <5>1, <5>2
      <4>3. ~ (r.index <= Len(chosen) /\ chosen[r.index].term = term[n])
        <5> SUFFICES ASSUME r.index <= Len(chosen), chosen[r.index].term = term[n] PROVE FALSE
          OBVIOUS
        <5>1. r.index \in 1..Len(chosen) BY <1>11, <1>12, LogFacts
        <5>2. r.index <= Len(log[n]) BY <1>2, <5>1 DEF ConsensusInv, LeaderHasTerm
        <5> QED BY <1>11, <1>12, <5>2
      <4>4. r.index <= Len(log'[n]) BY <1>11, <1>12
      <4> QED BY <1>11, <3>1, <4>1, <4>2, <4>3, <4>4
    <3>2. CASE d # c
      <4>1. Entered(d) /\ call'[d] = call[d] BY <1>11, <1>14, <2>1, <3>2
      <4>2. ASSUME NEW m \in Node, call[d].index <= Len(log'[m]),
                   log'[m][call[d].index].term = call[d].term
            PROVE  log'[m][call[d].index].cmd = d
        <5>1. call[d].index \in 1..Len(log'[m])
          <6>1. Len(log'[m]) \in Nat BY <1>10, <1>12, LogFacts
          <6> QED BY <4>1, <4>2, <6>1, EnteredFacts
        <5>2. CASE m = n /\ call[d].index = Len(log[n]) + 1 /\ log'[m][call[d].index] = e
          BY <1>10, <1>15, <4>1, <4>2, <5>2
        <5>3. CASE call[d].index \in 1..Len(log[m]) /\ log'[m][call[d].index] = log[m][call[d].index]
          BY <4>1, <4>2, <5>3 DEF EntryIsMine
        <5> QED BY <1>13, <5>1, <5>2, <5>3
      <4>3. ASSUME NEW k \in Node, Leader(k), term[k] = call[d].term
            PROVE  call[d].index <= Len(log'[k])
        <5>1. call[d].index <= Len(log[k]) BY <4>1, <4>3 DEF EntryIsMine
        <5>2. call[d].index \in Nat BY <4>1, EnteredFacts
        <5> QED BY <1>10, <1>12, <5>1, <5>2
      <4> QED BY <4>1, <4>2, <4>3 DEF EntryIsMine
    <3> QED BY <3>1, <3>2
  <2>2. UNCHANGED <<chosen, top, role, term>> BY <1>7
  <2>3. \A k \in Node : Leader(k)' <=> Leader(k) BY <2>2 DEF Leader
  <2> QED BY <2>1, <2>2, <2>3 DEF EntryIsMine
<1>20. EntryIsNobodyElses'
  <2> SUFFICES ASSUME NEW d \in Client, NEW f \in Client, Entered(d)', Entered(f)',
                      call'[d].index = call'[f].index, call'[d].term = call'[f].term
               PROVE  d = f
    BY DEF EntryIsNobodyElses
  <2>1. CASE d # c /\ f # c BY <1>11, <1>14, <2>1 DEF EntryIsNobodyElses
  <2>2. CASE d = c /\ f # c BY <1>11, <1>14, <1>15, <2>2
  <2>3. CASE d # c /\ f = c BY <1>11, <1>14, <1>15, <2>3
  <2> QED BY <2>1, <2>2, <2>3
<1> QED BY <1>2, <1>6, <1>7, <1>8, <1>9, <1>17, <1>18, <1>19, <1>20

LEMMA RegisterCalls ==
  ASSUME ClientTypes, NEW c \in Client, Register(c)
  PROVE  /\ ClientTypes' /\ CallsKept
         /\ call[c] \in AppendedCall /\ call'[c] \in WaitingCall
         /\ call'[c].node = call[c].node /\ call'[c].index = call[c].index
         /\ call'[c].term = call[c].term /\ call'[c].outBy = 0
         /\ (call'[c].late <=> notified[call[c].node] >= call[c].index)
         /\ \A d \in Client \ {c} :
              \/ call'[d] = call[d]
              \/ /\ call[d] \in WaitingCall /\ call'[d] \in WaitingCall /\ Is(d, "waiting")
                 /\ call'[d] = [call[d] EXCEPT !.outBy = call[c].term]
                 /\ call[d].node = call[c].node /\ call[d].index = call[c].index
         /\ \A d \in Client \ {c} :
              pending[call[c].node][call[c].index] = d
                /\ WaitsFor(d, call[c].node, call[c].index)
                => call'[d] = [call[d] EXCEPT !.outBy = call[c].term]
<1> DEFINE n == call[c].node
           i == call[c].index
           out == {d \in Client : pending[n][i] = d /\ WaitsFor(d, n, i)}
           r == [at |-> "waiting", kind |-> "put", node |-> n, index |-> i,
                 term |-> call[c].term, tries |-> call[c].tries,
                 late |-> notified[n] >= i, outBy |-> 0]
<1>1. call[c] \in AppendedCall /\ call[c].kind \in did[c] /\ Is(c, "appended")
  BY CallShapes DEF Register, Is
<1>2. /\ n \in Node /\ i \in Index /\ call[c].term \in 1..MaxTerm /\ call[c].tries \in 1..MaxTries
      /\ call[c].kind = "put" /\ call[c].term \in Nat
  BY <1>1, ServiceAssumption DEF AppendedCall
<1>3. r \in WaitingCall /\ r.kind = "put" BY <1>2 DEF WaitingCall, ClientTypes
<1>4. /\ call' = [d \in Client |->
            IF d = c THEN r ELSE IF d \in out THEN [call[d] EXCEPT !.outBy = call[c].term]
            ELSE call[d]]
      /\ pending' = [pending EXCEPT ![n][i] = c]
      /\ UNCHANGED <<hint, did, notified, acknowledged>>
  <2>1. \A d \in Client :
          (CASE d = c -> r
             [] d \in out -> [call[d] EXCEPT !.outBy = call[c].term]
             [] OTHER -> call[d])
          = IF d = c THEN r ELSE IF d \in out THEN [call[d] EXCEPT !.outBy = call[c].term]
            ELSE call[d]
    <3>1. c \notin out BY <1>1 DEF WaitsFor, Is
    <3> HIDE DEF out, r
    <3> QED BY <3>1
  <2> QED BY <2>1 DEF Register, history
<1>5. \A d \in out : /\ call[d] \in WaitingCall /\ Is(d, "waiting") /\ call[d].kind \in did[d]
                     /\ call[d].node = n /\ call[d].index = i
                     /\ [call[d] EXCEPT !.outBy = call[c].term] \in WaitingCall
                     /\ [call[d] EXCEPT !.outBy = call[c].term].kind = call[d].kind
                     /\ [call[d] EXCEPT !.outBy = call[c].term].index = call[d].index
                     /\ [call[d] EXCEPT !.outBy = call[c].term].term = call[d].term
  <2> SUFFICES ASSUME NEW d \in out
               PROVE  /\ call[d] \in WaitingCall /\ Is(d, "waiting") /\ call[d].kind \in did[d]
                      /\ call[d].node = n /\ call[d].index = i
                      /\ [call[d] EXCEPT !.outBy = call[c].term] \in WaitingCall
                      /\ [call[d] EXCEPT !.outBy = call[c].term].kind = call[d].kind
                      /\ [call[d] EXCEPT !.outBy = call[c].term].index = call[d].index
                      /\ [call[d] EXCEPT !.outBy = call[c].term].term = call[d].term
    OBVIOUS
  <2>1. d \in Client /\ Is(d, "waiting") /\ call[d].node = n /\ call[d].index = i
    BY DEF WaitsFor, Is
  <2>2. call[d] \in WaitingCall /\ call[d].kind \in did[d] BY <2>1, CallShapes DEF Is
  <2> HIDE DEF out, n, i
  <2> QED BY <1>2, <2>1, <2>2 DEF WaitingCall
<1> DEFINE put(d) == [call[d] EXCEPT !.outBy = call[c].term]
<1>6. /\ call'[c] = r
      /\ \A d \in Client \ {c} : call'[d] = IF d \in out THEN put(d) ELSE call[d]
  BY <1>4
<1>7. ClientTypes'
  <2>1. call' \in [Client -> OpenCall \cup {Nil}]
    <3> HIDE DEF out, r
    <3>1. \A d \in Client : call'[d] \in OpenCall \cup {Nil}
      BY <1>3, <1>5, <1>6 DEF OpenCall, ClientTypes
    <3> QED BY <1>4, <3>1
  <2>2. \A d \in Client : call'[d] # Nil => call'[d].kind \in did[d]
    <3> HIDE DEF out, r
    <3> QED BY <1>1, <1>2, <1>3, <1>5, <1>6 DEF ClientTypes
  <2>3. pending' \in [Node -> [Index -> Client \cup {Nil}]]
    BY <1>2, <1>4 DEF ClientTypes
  <2> QED BY <1>4, <2>1, <2>2, <2>3 DEF ClientTypes
<1>8. CallsKept
  <2>1. r.index = call[c].index /\ r.term = call[c].term /\ r.at = "waiting" OBVIOUS
  <2>2. Entered(c) /\ ~ NotYet(c)'
    BY <1>1, <1>2, <1>4, <1>6, <2>1 DEF Entered, NotYet, PutSent, Is
  <2>3. ASSUME NEW d \in Client \ {c}
        PROVE  /\ NotYet(d)' => NotYet(d)
               /\ Entered(d)' => Entered(d) /\ call'[d].index = call[d].index
                                 /\ call'[d].term = call[d].term
    <3>1. CASE d \in out
      <4>1. call'[d] \in WaitingCall BY <1>5, <1>6, <3>1
      <4>2. call'[d].at = "waiting" BY <4>1 DEF WaitingCall
      <4> HIDE DEF out
      <4> QED BY <1>4, <1>5, <1>6, <3>1, <4>2 DEF NotYet, PutSent, Entered, Is
    <3>2. CASE d \notin out
      <4>1. call'[d] = call[d] BY <1>6, <3>2
      <4> QED BY <1>4, <4>1 DEF NotYet, PutSent, Entered, Is
    <3> QED BY <3>1, <3>2
  <2> HIDE DEF r
  <2> QED BY <1>6, <2>1, <2>2, <2>3 DEF CallsKept
<1>9. /\ r.node = n /\ r.index = i /\ r.term = call[c].term /\ r.outBy = 0
      /\ r.late = (notified[n] >= i)
  OBVIOUS
<1>10. \A d \in Client \ {c} : pending[n][i] = d /\ WaitsFor(d, n, i) => d \in out OBVIOUS
<1> HIDE DEF out, r, n, i
<1>11. call'[c] \in WaitingCall /\ call[c] \in AppendedCall BY <1>1, <1>3, <1>6
<1>12. call'[c].late <=> notified[n] >= i BY <1>6, <1>9
<1>13. \A d \in Client \ {c} :
              \/ call'[d] = call[d]
              \/ /\ call[d] \in WaitingCall /\ call'[d] \in WaitingCall /\ Is(d, "waiting")
                 /\ call'[d] = put(d)
                 /\ call[d].node = n /\ call[d].index = i
  BY <1>5, <1>6
<1>14. \A d \in Client \ {c} : pending[n][i] = d /\ WaitsFor(d, n, i) => call'[d] = put(d)
  BY <1>6, <1>10
<1> QED BY <1>6, <1>7, <1>8, <1>9, <1>11, <1>12, <1>13, <1>14 DEF n, i

LEMMA NotifyCalls ==
  ASSUME ClientTypes, StoreTypes, NEW n \in Node, NotifyCommitted(n)
  PROVE  /\ ClientTypes' /\ CallsKept
         /\ acknowledged' \in {acknowledged} \cup {call[c].index : c \in Ends(n)}
         /\ loop[n].upto \in Nat
<1>1. loop[n] \in NotifyingLoop
  BY DEF NotifyCommitted, StoreTypes, IdleLoop, ApplyingLoop, NotifyingLoop
<1>2. loop[n].upto \in Nat BY <1>1 DEF NotifyingLoop
<1>3. \A c \in Ends(n) : call[c].index \in Index /\ call[c].index <= loop[n].upto
                         /\ call[c].index \in Nat
  <2> SUFFICES ASSUME NEW c \in Ends(n)
               PROVE  call[c].index \in Index /\ call[c].index <= loop[n].upto
                      /\ call[c].index \in Nat
    OBVIOUS
  <2>1. c \in Client /\ Is(c, "waiting") BY DEF Ends, WaitsFor, Is
  <2>2. \E i \in Told(n, loop[n].upto) : call[c].index = i BY DEF Ends, WaitsFor
  <2> QED BY <2>1, <2>2, EnteredFacts DEF Told, Entered
<1>4. acknowledged' \in {acknowledged} \cup {call[c].index : c \in Ends(n)}
  <2> DEFINE S == {acknowledged} \cup {call[c].index : c \in Ends(n)}
             u == IF acknowledged >= loop[n].upto THEN acknowledged ELSE loop[n].upto
  <2>1. S \in SUBSET Nat /\ S # {} BY <1>3 DEF ClientTypes
  <2>2. u \in Nat /\ acknowledged <= u /\ loop[n].upto <= u BY <1>2 DEF ClientTypes
  <2>3. \A x \in S : x <= u
    <3> SUFFICES ASSUME NEW x \in S PROVE x <= u OBVIOUS
    <3>1. CASE x = acknowledged BY <2>2, <3>1
    <3>2. CASE \E c \in Ends(n) : x = call[c].index
      <4>1. x \in Nat /\ x <= loop[n].upto BY <1>3, <3>2
      <4> HIDE DEF u
      <4> QED BY <1>2, <2>2, <4>1
    <3> QED BY <3>1, <3>2
  <2>4. acknowledged' = Latest(S) BY DEF NotifyCommitted
  <2> HIDE DEF S, u
  <2>5. Latest(S) \in S BY <2>1, <2>2, <2>3, LatestExists
  <2> QED BY <2>4, <2>5 DEF S
<1>5. acknowledged' \in Nat BY <1>3, <1>4 DEF ClientTypes
<1>6. /\ call' = [c \in Client |-> IF c \in Ends(n) THEN Nil ELSE call[c]]
      /\ UNCHANGED <<hint, did>> /\ notified' = [notified EXCEPT ![n] = loop[n].upto]
      /\ pending' = [pending EXCEPT ![n] =
                      [i \in Index |-> IF i \in Told(n, loop[n].upto) THEN Nil ELSE pending[n][i]]]
  BY DEF NotifyCommitted
<1>7. ClientTypes'
  <2>1. \A c \in Client : call'[c] = Nil \/ call'[c] = call[c] BY <1>6
  <2>2. call' \in [Client -> OpenCall \cup {Nil}] BY <1>6, <2>1 DEF ClientTypes
  <2>3. \A c \in Client : call'[c] # Nil => call'[c].kind \in did'[c] BY <1>6, <2>1 DEF ClientTypes
  <2>4. pending' \in [Node -> [Index -> Client \cup {Nil}]] BY <1>6 DEF ClientTypes
  <2>5. notified' \in [Node -> Nat] BY <1>2, <1>6 DEF ClientTypes
  <2> QED BY <1>5, <1>6, <2>2, <2>3, <2>4, <2>5 DEF ClientTypes
<1>8. CallsKept
  <2>1. \A c \in Client : call'[c] = Nil \/ call'[c] = call[c] BY <1>6
  <2> QED BY <1>6, <2>1 DEF CallsKept, NotYet, PutSent, Entered, Is
<1> QED BY <1>2, <1>4, <1>7, <1>8

\* Consensus steps keep what is known of the puts.
LEMMA ConsensusCalls ==
  ASSUME ServerTypes, ClientTypes, ConsensusInv, CallInv, UNCHANGED <<call, did>>,
         NEW n \in Node,
         Elect(n) \/ Choose(n) \/ Depose(n) \/ \E m \in Node : Hear(m, n)
  PROVE  CallInv'
<1> USE DEF CallInv
<1>0. \A c \in Client : (NotYet(c)' <=> NotYet(c)) /\ (Entered(c)' <=> Entered(c))
  BY DEF NotYet, PutSent, Entered, Is
<1>1. \A c \in Client : Entered(c) => call[c].index \in Nat \ {0} /\ call[c].term \in Nat
  BY EnteredFacts
<1>2. EntryIsNobodyElses' BY <1>0 DEF EntryIsNobodyElses
<1>3. CASE Elect(n)
  <2>1. /\ UNCHANGED <<chosen, log>> /\ top' = top + 1 /\ top \in Nat
        /\ \A k \in Node : Leader(k)' => k = n \/ (Leader(k) /\ term'[k] = term[k])
        /\ term'[n] = top + 1
    BY <1>3 DEF Elect, ServerTypes, Leader
  <2>2. NotYetAppended' /\ AppendedOnce' BY <1>0, <2>1 DEF NotYetAppended, AppendedOnce
  <2>3. EntryIsMine' BY <1>0, <1>1, <2>1 DEF EntryIsMine
  <2> QED BY <1>2, <2>2, <2>3
<1>4. CASE Choose(n)
  <2>1. UNCHANGED <<top, role, term, log>> BY <1>4 DEF Choose, server
  <2>2. \A j \in 1..Len(chosen') : j <= Len(log[n]) /\ chosen'[j] = log[n][j]
        /\ Len(chosen') \in Nat
    BY <1>4, ChooseConsensus
  <2>3. NotYetAppended' /\ AppendedOnce' BY <1>0, <2>1 DEF NotYetAppended, AppendedOnce
  <2>4. ASSUME NEW c \in Client, Entered(c), call[c].index <= Len(chosen'),
               chosen'[call[c].index].term = call[c].term
        PROVE  chosen'[call[c].index].cmd = c
    <3>1. Len(chosen') \in Nat BY <1>4, ChooseConsensus
    <3>2. call[c].index \in 1..Len(chosen') BY <1>1, <2>4, <3>1
    <3> QED BY <2>2, <2>4, <3>2 DEF EntryIsMine
  <2>5. EntryIsMine' BY <1>0, <2>1, <2>4 DEF EntryIsMine, Leader
  <2> QED BY <1>2, <2>3, <2>5
<1>5. CASE Depose(n)
  <2>1. /\ UNCHANGED <<chosen, log, top>>
        /\ \A k \in Node : Leader(k)' => Leader(k) /\ term'[k] = term[k]
    BY <1>5 DEF Depose, ServerTypes, Leader
  <2>2. NotYetAppended' /\ AppendedOnce' BY <1>0, <2>1 DEF NotYetAppended, AppendedOnce
  <2>3. EntryIsMine' BY <1>0, <2>1 DEF EntryIsMine
  <2> QED BY <1>2, <2>2, <2>3
<1>6. ASSUME NEW m \in Node, Hear(m, n) PROVE CallInv'
  <2>1. /\ UNCHANGED <<chosen, top>>
        /\ \A k \in Node : Leader(k)' => Leader(k) /\ term'[k] = term[k] /\ log'[k] = log[k]
        /\ \A p \in Node : log'[p] = IF p = m THEN log[n] ELSE log[p]
    BY <1>6 DEF Hear, ServerTypes, Leader
  <2>2. NotYetAppended' BY <1>0, <2>1 DEF NotYetAppended
  <2>3. AppendedOnce' BY <2>1 DEF AppendedOnce
  <2>4. EntryIsMine' BY <1>0, <2>1 DEF EntryIsMine
  <2> QED BY <1>2, <2>2, <2>3, <2>4
<1> QED BY <1>3, <1>4, <1>5, <1>6

-----------------------------------------------------------------------------
(* The loop that applies, and what stays when the others move. *)

LEMMA LoopShapes ==
  ASSUME StoreTypes, NEW n \in Node
  PROVE  /\ loop[n].at = "idle" => loop[n] \in IdleLoop
         /\ loop[n].at = "applying" => loop[n] \in ApplyingLoop
         /\ loop[n].at = "notifying" => loop[n] \in NotifyingLoop
         /\ machine[n] \in Seq(Client) /\ Len(machine[n]) \in Nat /\ applied[n] \in Nat
         /\ loop[n].at \in {"idle", "applying", "notifying"}
<1>1. machine[n] \in Seq(Client) /\ applied[n] \in Nat BY DEF StoreTypes
<1>2. Len(machine[n]) \in Nat BY <1>1, LenProperties
<1>3. loop[n] \in IdleLoop \cup ApplyingLoop \cup NotifyingLoop BY DEF StoreTypes
<1>4. /\ loop[n].at = "idle" => loop[n] \in IdleLoop
      /\ loop[n].at = "applying" => loop[n] \in ApplyingLoop
      /\ loop[n].at = "notifying" => loop[n] \in NotifyingLoop
      /\ loop[n].at \in {"idle", "applying", "notifying"}
  BY <1>3 DEF IdleLoop, ApplyingLoop, NotifyingLoop
<1> QED BY <1>1, <1>2, <1>4

LEMMA LoopKept ==
  ASSUME ServerTypes, StoreTypes, CommitIsChosen, LoopInv, UNCHANGED store,
         \A n \in Node : commit'[n] \in Nat /\ commit[n] <= commit'[n],
         \A i \in 1..Len(chosen) : chosen'[i] = chosen[i]
  PROVE  LoopInv'
<1> SUFFICES ASSUME NEW n \in Node PROVE StoreIsApplied(n)' BY DEF LoopInv
<1>1. StoreIsApplied(n) /\ Chosen(log[n], commit[n]) BY DEF LoopInv, CommitIsChosen
<1>2. /\ commit[n] \in Nat /\ Len(machine[n]) \in Nat /\ Len(chosen) \in Nat
      /\ loop[n].at = "applying" => loop[n].upto \in Nat
  BY LogFacts, LoopShapes DEF ServerTypes, ApplyingLoop
<1>3. \A i \in 1..Len(machine[n]) : chosen'[i] = chosen[i]
  BY <1>1, <1>2 DEF StoreIsApplied, Chosen
<1> QED BY <1>1, <1>2, <1>3 DEF StoreIsApplied, store

LEMMA LoopSteps ==
  ASSUME ServerTypes, StoreTypes, ConsensusInv, LoopInv, UNCHANGED consensus, NEW n \in Node,
         LoopStep(n)
  PROVE  /\ StoreTypes' /\ LoopInv'
         /\ \A m \in Node : applied'[m] \in Nat /\ Len(machine[m]) <= Len(machine'[m])
<1> USE DEF ConsensusInv
<1>0. UNCHANGED <<chosen, log, commit>> BY DEF consensus
<1>1. /\ StoreIsApplied(n) /\ Chosen(log[n], commit[n])
      /\ commit[n] \in Nat /\ Len(machine[n]) \in Nat /\ applied[n] \in Nat
  BY LoopShapes DEF LoopInv, CommitIsChosen, ServerTypes
<1>2. ASSUME StoreTypes', StoreIsApplied(n)', Len(machine[n]) <= Len(machine'[n]),
             \A m \in Node \ {n} : /\ applied'[m] = applied[m] /\ machine'[m] = machine[m]
                                   /\ loop'[m] = loop[m]
      PROVE  LoopInv' /\ \A m \in Node : applied'[m] \in Nat /\ Len(machine[m]) <= Len(machine'[m])
  <2>1. ASSUME NEW m \in Node \ {n} PROVE StoreIsApplied(m)'
    BY <1>0, <1>2 DEF LoopInv, StoreIsApplied
  <2>2. \A m \in Node : Len(machine[m]) \in Nat BY LoopShapes
  <2> QED BY <1>2, <2>1, <2>2 DEF LoopInv, StoreTypes
<1>3. CASE ReadCommit(n)
  <2> DEFINE l == [at |-> "applying", next |-> applied[n] + 1, upto |-> commit[n]]
  <2>1. /\ loop[n].at = "idle" /\ commit[n] > applied[n] /\ UNCHANGED <<applied, machine>>
        /\ loop' = [loop EXCEPT ![n] = l]
    BY <1>3 DEF ReadCommit
  <2>2. l \in ApplyingLoop BY <1>1 DEF ApplyingLoop
  <2>3. StoreTypes' BY <2>1, <2>2 DEF StoreTypes
  <2>4. loop'[n] = l BY <2>1 DEF StoreTypes
  <2>5. StoreIsApplied(n)' BY <1>0, <1>1, <2>1, <2>4 DEF StoreIsApplied
  <2> QED BY <1>1, <1>2, <2>1, <2>3, <2>5 DEF StoreTypes
<1>4. CASE ApplyOne(n)
  <2>1. /\ loop[n].at = "applying" /\ loop[n].next <= loop[n].upto
        /\ machine' = [machine EXCEPT ![n] = Append(machine[n], Entering(n).cmd)]
        /\ loop' = [loop EXCEPT ![n].next = loop[n].next + 1] /\ UNCHANGED applied
    BY <1>4 DEF ApplyOne
  <2>2. loop[n] \in ApplyingLoop BY <2>1, LoopShapes
  <2>3. /\ loop[n].next \in Nat \ {0} /\ loop[n].upto \in Nat
        /\ loop[n].next = Len(machine[n]) + 1 /\ loop[n].upto <= commit[n]
    BY <1>1, <2>1, <2>2 DEF ApplyingLoop, StoreIsApplied
  <2>4. loop[n].next \in 1..Len(chosen) /\ Entering(n) = chosen[loop[n].next]
    BY <1>1, <2>1, <2>3, LogFacts DEF Chosen, Entering
  <2>5. Entering(n).cmd \in Client BY <2>4, LogFacts DEF Entry
  <2>6. /\ Append(machine[n], Entering(n).cmd) \in Seq(Client)
        /\ Len(Append(machine[n], Entering(n).cmd)) = Len(machine[n]) + 1
        /\ \A i \in 1..Len(machine[n]) : Append(machine[n], Entering(n).cmd)[i] = machine[n][i]
        /\ Append(machine[n], Entering(n).cmd)[Len(machine[n]) + 1] = Entering(n).cmd
    BY <2>5, LoopShapes, AppendProperties
  <2>7. machine'[n] = Append(machine[n], Entering(n).cmd) BY <2>1 DEF StoreTypes
  <2> DEFINE l == [loop[n] EXCEPT !.next = loop[n].next + 1]
  <2>8. /\ l \in ApplyingLoop /\ l.next = loop[n].next + 1 /\ l.upto = loop[n].upto
        /\ l.at = "applying"
    BY <2>2 DEF ApplyingLoop
  <2>9. loop' = [loop EXCEPT ![n] = l] BY <2>1
  <2> HIDE DEF l
  <2>10. StoreTypes' BY <2>1, <2>6, <2>8, <2>9 DEF StoreTypes
  <2>11. loop'[n] = l BY <2>9 DEF StoreTypes
  <2>12. \A i \in 1..Len(machine'[n]) : machine'[n][i] = chosen[i].cmd
    <3> SUFFICES ASSUME NEW i \in 1..Len(machine'[n]) PROVE machine'[n][i] = chosen[i].cmd
      OBVIOUS
    <3>1. i \in 1..Len(machine[n]) + 1 BY <2>6, <2>7
    <3>2. i \in 1..Len(machine[n]) \/ i = Len(machine[n]) + 1 BY <1>1, <3>1
    <3> QED BY <1>1, <2>3, <2>4, <2>6, <2>7, <3>2 DEF StoreIsApplied
  <2>13. StoreIsApplied(n)'
    BY <1>0, <1>1, <2>1, <2>3, <2>6, <2>7, <2>8, <2>11, <2>12 DEF StoreIsApplied
  <2>14. Len(machine[n]) <= Len(machine'[n]) BY <1>1, <2>6, <2>7
  <2>15. \A m \in Node \ {n} : applied'[m] = applied[m] /\ machine'[m] = machine[m]
                                /\ loop'[m] = loop[m]
    BY <2>1, <2>9 DEF StoreTypes
  <2> QED BY <1>2, <2>10, <2>13, <2>14, <2>15
<1>5. CASE SetApplied(n)
  <2> DEFINE l == [at |-> "notifying", upto |-> loop[n].upto]
  <2>1. /\ loop[n].at = "applying" /\ loop[n].next > loop[n].upto /\ UNCHANGED machine
        /\ applied' = [applied EXCEPT ![n] = loop[n].upto] /\ loop' = [loop EXCEPT ![n] = l]
    BY <1>5 DEF SetApplied
  <2>2. loop[n] \in ApplyingLoop BY <2>1, LoopShapes
  <2>3. loop[n].next \in Nat /\ loop[n].upto \in Nat BY <2>2 DEF ApplyingLoop
  <2>4. Len(machine[n]) = loop[n].upto BY <1>1, <2>1, <2>3 DEF StoreIsApplied
  <2>5. l \in NotifyingLoop BY <2>3 DEF NotifyingLoop
  <2>6. StoreTypes' BY <2>1, <2>3, <2>5 DEF StoreTypes
  <2>7. loop'[n] = l /\ applied'[n] = loop[n].upto BY <2>1 DEF StoreTypes
  <2>8. StoreIsApplied(n)' BY <1>0, <1>1, <2>1, <2>4, <2>7 DEF StoreIsApplied
  <2> QED BY <1>1, <1>2, <2>1, <2>6, <2>8 DEF StoreTypes
<1>6. CASE NotifyCommitted(n)
  <2>1. /\ loop[n].at = "notifying" /\ UNCHANGED <<applied, machine>>
        /\ loop' = [loop EXCEPT ![n] = At("idle")]
    BY <1>6 DEF NotifyCommitted
  <2>2. StoreTypes' BY <2>1 DEF StoreTypes, At, IdleLoop
  <2>3. loop'[n].at = "idle" BY <2>1 DEF StoreTypes, At
  <2>4. StoreIsApplied(n)' BY <1>0, <1>1, <2>1, <2>3 DEF StoreIsApplied
  <2> QED BY <1>1, <1>2, <2>1, <2>2, <2>4 DEF StoreTypes
<1> QED BY <1>3, <1>4, <1>5, <1>6 DEF LoopStep

\* Nobody is told of an index that is not chosen.
LEMMA ToldIsChosen ==
  ASSUME TypeInv, ConsensusInv, LoopInv, NEW n \in Node, loop[n].at = "notifying",
         NEW c \in Ends(n)
  PROVE  /\ c \in Client /\ Is(c, "waiting") /\ call[c].node = n /\ call[c].index \in Nat
         /\ call[c].index <= loop[n].upto /\ call[c].index <= Len(chosen)
<1> USE DEF TypeInv
<1>1. c \in Client /\ Is(c, "waiting") /\ call[c].node = n BY DEF Ends, WaitsFor, Is
<1>2. call[c].index <= loop[n].upto BY DEF Ends, WaitsFor, Told
<1>3. call[c].index \in Nat BY <1>1, EnteredFacts DEF Entered
<1>4. loop[n].upto = applied[n] /\ applied[n] <= Len(machine[n]) /\ Len(machine[n]) <= commit[n]
  BY DEF LoopInv, StoreIsApplied
<1>5. commit[n] <= Len(chosen) BY DEF ConsensusInv, CommitIsChosen, Chosen
<1>6. applied[n] \in Nat /\ Len(machine[n]) \in Nat /\ commit[n] \in Nat /\ Len(chosen) \in Nat
  BY LoopShapes, LogFacts DEF ServerTypes
<1> QED BY <1>1, <1>2, <1>3, <1>4, <1>5, <1>6

-----------------------------------------------------------------------------
(* Reads and waiters. *)

\* What reads and waiters keep while a call goes on as r.
LEMMA ReadersKept ==
  ASSUME TypeInv, ReadInv, NoWaiterForgotten, CurrentReadIsFresh, NEW c \in Client, NEW r,
         call' = [call EXCEPT ![c] = r], UNCHANGED <<chosen, machine, pending, notified, acknowledged>>,
         r = Nil \/ r.at \in {"sent", "appended"}
         \/ (r \in CatchingCall /\ r.want <= r.target)
         \/ (r \in ReadingCall /\ Len(machine[r.node]) >= r.want)
  PROVE  ReadInv' /\ NoWaiterForgotten' /\ CurrentReadIsFresh'
<1>1. call'[c] = r /\ \A d \in Client \ {c} : call'[d] = call[d] BY DEF TypeInv, ClientTypes
<1>2. ReadInv' BY <1>1 DEF ReadInv, Is, CatchingCall, ReadingCall
<1>3. NoWaiterForgotten' BY <1>1 DEF NoWaiterForgotten, Is, CatchingCall, ReadingCall
<1>4. CurrentReadIsFresh' BY <1>1 DEF CurrentReadIsFresh, Is, CatchingCall, ReadingCall
<1> QED BY <1>2, <1>3, <1>4

LEMMA GetReaders ==
  ASSUME Inv, NEW c \in Client, LeaseRead(c) \/ ReadIndex(c) \/ WaitForApply(c)
  PROVE  ReadInv' /\ NoWaiterForgotten' /\ CurrentReadIsFresh'
<1> USE DEF Inv, TypeInv
<1>0. UNCHANGED <<chosen, machine, pending, notified, acknowledged>>
  BY DEF LeaseRead, ReadIndex, WaitForApply, consensus, store, history
<1>1. CASE LeaseRead(c)
  <2>1. call[c] \in SentCall BY <1>1, CallShapes DEF LeaseRead, Leads, Is
  <2>2. call[c].node \in Node /\ Reading(c, 0) \in ReadingCall /\ Reading(c, 0).want = 0
        /\ Reading(c, 0).node = call[c].node
    BY <1>1, <2>1 DEF Reading, SentCall, ReadingCall, LeaseRead, Leads
  <2>3. Len(machine[call[c].node]) >= 0 BY <2>2, LoopShapes
  <2> QED BY <1>0, <1>1, <2>2, <2>3, ReadersKept DEF LeaseRead
<1>2. CASE ReadIndex(c)
  <2> DEFINE n == call[c].node
             s == [at |-> "catching", kind |-> "get", node |-> n, tries |-> call[c].tries,
                   target |-> commit[n], want |-> IF Current(n) THEN acknowledged ELSE 0]
  <2>1. call[c] \in SentCall /\ Leader(n) BY <1>2, CallShapes DEF ReadIndex, Leads, Is, Leader
  <2>2. n \in Node /\ call[c].tries \in 1..MaxTries BY <2>1 DEF SentCall
  <2>3. commit[n] \in Nat /\ acknowledged \in Nat BY <2>2 DEF ServerTypes, ClientTypes
  <2>4. Current(n) => acknowledged <= commit[n]
    <3> SUFFICES ASSUME Current(n) PROVE acknowledged <= commit[n] OBVIOUS
    <3>1. PICK i \in 1..commit[n] : log[n][i].term = top BY DEF Current
    <3>2. term[n] = top BY DEF Current
    <3>3. Chosen(log[n], commit[n]) BY <2>2 DEF ConsensusInv, CommitIsChosen
    <3>4. i \in 1..Len(chosen) /\ chosen[i].term = top BY <2>3, <3>1, <3>3, LogFacts DEF Chosen
    <3>5. Len(chosen) <= commit[n]
      BY <2>1, <2>2, <3>2, <3>4 DEF ConsensusInv, NewestLeaderHasAll
    <3> QED BY <2>2, <2>3, <3>5, LogFacts DEF ReadInv
  <2>5. s \in CatchingCall /\ s.want <= s.target BY <2>2, <2>3, <2>4 DEF CatchingCall
  <2>6. call' = [call EXCEPT ![c] = s] BY <1>2 DEF ReadIndex
  <2> HIDE DEF s, n
  <2> QED BY <1>0, <2>5, <2>6, ReadersKept
<1>3. CASE WaitForApply(c)
  <2> DEFINE n == call[c].node
             s == Reading(c, call[c].want)
  <2>1. call[c] \in CatchingCall /\ Is(c, "catching") /\ applied[n] >= call[c].target
    BY <1>3, CallShapes DEF WaitForApply, CaughtUp, Is
  <2>2. n \in Node /\ call[c].want \in Nat /\ call[c].target \in Nat BY <2>1 DEF CatchingCall
  <2>3. s \in ReadingCall /\ s.node = n /\ s.want = call[c].want
    BY <2>1 DEF Reading, CatchingCall, ReadingCall
  <2>4. applied[n] <= Len(machine[n]) BY <2>2 DEF LoopInv, StoreIsApplied
  <2>5. call[c].want <= call[c].target BY <2>1 DEF ReadInv
  <2>6. Len(machine[n]) >= call[c].want BY <2>1, <2>2, <2>4, <2>5, LoopShapes
  <2>7. call' = [call EXCEPT ![c] = s] BY <1>3 DEF WaitForApply
  <2> HIDE DEF s, n
  <2> QED BY <1>0, <2>3, <2>6, <2>7, ReadersKept
<1> QED BY <1>1, <1>2, <1>3

\* A put registers: it waits for an index not told of yet, unless it is late, and puts
\* out only puts of other terms.
LEMMA RegisterReaders ==
  ASSUME Inv, NEW c \in Client, Register(c)
  PROVE  ReadInv' /\ NoWaiterForgotten' /\ CurrentReadIsFresh'
<1> USE DEF Inv, TypeInv
<1> DEFINE n == call[c].node
           i == call[c].index
<1>0. /\ UNCHANGED <<chosen, machine, notified, acknowledged>>
      /\ pending' = [pending EXCEPT ![n][i] = c]
  BY DEF Register, consensus, store, history
<1>1. /\ call[c] \in AppendedCall /\ call'[c] \in WaitingCall
      /\ call'[c].node = n /\ call'[c].index = i /\ call'[c].outBy = 0
      /\ (call'[c].late <=> notified[n] >= i)
      /\ \A d \in Client \ {c} :
           \/ call'[d] = call[d]
           \/ /\ call[d] \in WaitingCall /\ call'[d] \in WaitingCall /\ Is(d, "waiting")
              /\ call'[d] = [call[d] EXCEPT !.outBy = call[c].term]
              /\ call[d].node = n /\ call[d].index = i
      /\ \A d \in Client \ {c} :
           pending[n][i] = d /\ WaitsFor(d, n, i)
             => call'[d] = [call[d] EXCEPT !.outBy = call[c].term]
  BY RegisterCalls
<1>2. n \in Node /\ i \in Index /\ i \in Nat /\ Entered(c) /\ call[c].term \in Nat \ {0}
  <2>1. Entered(c) BY DEF Register, Entered
  <2> QED BY <2>1, EnteredFacts
<1> HIDE DEF n, i
<1>3. /\ pending'[n][i] = c
      /\ \A m \in Node, j \in Index : ~ (m = n /\ j = i) => pending'[m][j] = pending[m][j]
  BY <1>0, <1>2 DEF ClientTypes
<1>4. notified[n] \in Nat BY <1>2 DEF ClientTypes
<1>5. ReadInv' /\ CurrentReadIsFresh'
  <2>1. \A d \in Client : Is(d, "catching")' \/ Is(d, "reading")' => call'[d] = call[d]
    BY <1>1 DEF Is, WaitingCall
  <2> QED BY <1>0, <2>1 DEF ReadInv, CurrentReadIsFresh, Is
<1>6. NoWaiterForgotten'
  <2> SUFFICES ASSUME NEW d \in Client, Is(d, "waiting")'
               PROVE  \/ call'[d].late
                      \/ call'[d].outBy \notin {0, call'[d].term}
                      \/ call'[d].outBy = 0 /\ pending'[call'[d].node][call'[d].index] = d
                           /\ call'[d].index > notified'[call'[d].node]
    BY DEF NoWaiterForgotten
  <2>1. CASE d = c BY <1>0, <1>1, <1>2, <1>3, <1>4, <2>1
  <2>2. CASE d # c /\ call'[d] = [call[d] EXCEPT !.outBy = call[c].term]
                   /\ call[d] \in WaitingCall /\ Is(d, "waiting") /\ call[d].index = i
    <3>1. Entered(d) BY <2>2 DEF Entered
    <3>2. call[d].term # call[c].term
      BY <1>2, <2>2, <3>1 DEF CallInv, EntryIsNobodyElses, i
    <3>3. call'[d].outBy = call[c].term /\ call'[d].term = call[d].term BY <2>2 DEF WaitingCall
    <3> QED BY <1>2, <3>2, <3>3
  <2>3. CASE d # c /\ call'[d] = call[d] /\ ~ (pending[n][i] = d /\ WaitsFor(d, n, i))
    <3>1. Is(d, "waiting") BY <2>3 DEF Is
    <3>2. call[d].node \in Node /\ call[d].index \in Index BY <3>1, EnteredFacts DEF Entered
    <3>3. pending[call[d].node][call[d].index] = d => ~ (call[d].node = n /\ call[d].index = i)
      BY <2>3, <3>1 DEF WaitsFor, Is
    <3> QED BY <1>0, <1>3, <2>3, <3>1, <3>2, <3>3 DEF NoWaiterForgotten
  <2>4. CASE d # c /\ call'[d] = call[d] /\ pending[n][i] = d /\ WaitsFor(d, n, i)
    <3>1. Is(d, "waiting") /\ call[d].index = i BY <2>4 DEF WaitsFor, Is
    <3>2. call[d] \in WaitingCall BY <3>1, CallShapes
    <3>3. call'[d] = [call[d] EXCEPT !.outBy = call[c].term] BY <1>1, <2>4
    <3> QED BY <2>2, <2>4, <3>1, <3>2, <3>3
  <2> QED BY <1>1, <2>1, <2>2, <2>3, <2>4
<1> QED BY <1>5, <1>6

\* Notifying ends all puts that waited for what it tells.
LEMMA NotifyReaders ==
  ASSUME Inv, NEW n \in Node, NotifyCommitted(n)
  PROVE  ReadInv' /\ NoWaiterForgotten' /\ CurrentReadIsFresh'
<1> USE DEF Inv, TypeInv
<1> DEFINE u == loop[n].upto
<1>0. /\ loop[n].at = "notifying" /\ UNCHANGED <<chosen, machine>>
      /\ notified' = [notified EXCEPT ![n] = u]
      /\ pending' = [pending EXCEPT ![n] =
                      [i \in Index |-> IF i \in Told(n, u) THEN Nil ELSE pending[n][i]]]
      /\ call' = [c \in Client |-> IF c \in Ends(n) THEN Nil ELSE call[c]]
  BY DEF NotifyCommitted, consensus
<1>1. u \in Nat /\ acknowledged' \in {acknowledged} \cup {call[c].index : c \in Ends(n)}
  BY NotifyCalls
<1>2. acknowledged' <= Len(chosen)
  BY <1>0, <1>1, ToldIsChosen DEF ReadInv
<1>3. \A c \in Client : call'[c] # Nil => call'[c] = call[c] /\ c \notin Ends(n) BY <1>0
<1>4. ReadInv' /\ CurrentReadIsFresh'
  BY <1>0, <1>2, <1>3 DEF ReadInv, CurrentReadIsFresh, Is
<1>5. NoWaiterForgotten'
  <2> SUFFICES ASSUME NEW d \in Client, Is(d, "waiting")'
               PROVE  \/ call'[d].late
                      \/ call'[d].outBy \notin {0, call'[d].term}
                      \/ call'[d].outBy = 0 /\ pending'[call'[d].node][call'[d].index] = d
                           /\ call'[d].index > notified'[call'[d].node]
    BY DEF NoWaiterForgotten
  <2>1. call'[d] = call[d] /\ d \notin Ends(n) /\ Is(d, "waiting") BY <1>3 DEF Is
  <2>2. call[d].node \in Node /\ call[d].index \in Index /\ call[d].index \in Nat
    BY <2>1, EnteredFacts DEF Entered
  <2>3. CASE call[d].node # n
    <3>1. pending'[call[d].node] = pending[call[d].node] /\ notified'[call[d].node] = notified[call[d].node]
      BY <1>0, <2>2, <2>3 DEF ClientTypes
    <3> QED BY <2>1, <3>1 DEF NoWaiterForgotten
  <2>4. CASE call[d].node = n
    <3>1. /\ notified'[n] = u
          /\ pending'[n][call[d].index] =
               IF call[d].index \in Told(n, u) THEN Nil ELSE pending[n][call[d].index]
      BY <1>0, <2>2 DEF ClientTypes
    <3>2. ASSUME pending[n][call[d].index] = d PROVE call[d].index > u
      <4> SUFFICES ASSUME call[d].index <= u PROVE FALSE BY <1>1, <2>2
      <4>1. call[d].index \in Told(n, u) BY <2>2, <3>2, ServiceAssumption DEF Told
      <4>2. WaitsFor(d, n, call[d].index) BY <2>1, <2>4 DEF WaitsFor, Is
      <4>3. d \in Ends(n) BY <3>2, <4>1, <4>2 DEF Ends
      <4> QED BY <2>1, <4>3
    <3>3. call[d].index > u => call[d].index \notin Told(n, u) BY <1>1, <2>2 DEF Told
    <3> HIDE DEF u
    <3> QED BY <2>1, <2>4, <3>1, <3>2, <3>3 DEF NoWaiterForgotten
  <2> QED BY <2>3, <2>4
<1> QED BY <1>4, <1>5

-----------------------------------------------------------------------------
(* The invariant. *)

LEMMA InvInit == ASSUME Init PROVE Inv
<1> USE ServiceAssumption DEF Init
<1>1. /\ chosen \in Seq(Entry) /\ Len(chosen) = 0 /\ <<>> \in Seq(Client)
      /\ \A n \in Node : log[n] \in Seq(Entry) /\ Len(log[n]) = 0 /\ Len(machine[n]) = 0
  BY EmptySeq
<1>2. TypeInv
  <2>1. ServerTypes BY <1>1 DEF ServerTypes
  <2>2. StoreTypes BY <1>1 DEF StoreTypes, At, IdleLoop
  <2>3. ClientTypes BY DEF ClientTypes
  <2> QED BY <2>1, <2>2, <2>3 DEF TypeInv
<1>3. ConsensusInv
  BY <1>1 DEF ConsensusInv, LeadersOfTerms, TermsInUse, LeaderHasTerm, CommitIsChosen,
              NewestLeaderHasAll, Chosen, Leader
<1>4. \A c \in Client : \A at \in {"sent", "appended", "waiting", "catching", "reading"} :
        ~ Is(c, at)
  BY DEF Is
<1>5. CallInv
  BY <1>1, <1>4 DEF CallInv, NotYetAppended, AppendedOnce, EntryIsMine, EntryIsNobodyElses, Entered
<1>6. LoopInv BY <1>1 DEF LoopInv, StoreIsApplied, At
<1>7. ReadInv /\ NoWaiterForgotten /\ CurrentReadIsFresh
  BY <1>1, <1>4 DEF ReadInv, NoWaiterForgotten, CurrentReadIsFresh
<1> QED BY <1>2, <1>3, <1>5, <1>6, <1>7 DEF Inv

\* Consensus moves: what is chosen and committed only grows.
LEMMA InvConsensus ==
  ASSUME Inv, [Next]_vars, NEW n \in Node,
         Elect(n) \/ Choose(n) \/ Depose(n) \/ \E m \in Node : Hear(m, n)
  PROVE  Inv'
<1> USE DEF Inv, TypeInv
<1>0. UNCHANGED <<store, pending, client, history>> BY DEF Elect, Choose, Depose, Hear
<1>1. /\ UNCHANGED <<call, hint, did, pending, notified, acknowledged>>
      /\ UNCHANGED <<applied, machine, loop>>
  BY <1>0 DEF client, history, store
<1>2. ServerTypes' BY ServerTypesNext DEF ConsensusInv
<1>3. StoreTypes' /\ ClientTypes' BY <1>1 DEF StoreTypes, ClientTypes
<1>4. CallInv' BY <1>1, ConsensusCalls
<1>5. /\ ConsensusInv' /\ \A m \in Node : commit[m] <= commit'[m]
      /\ Len(chosen) <= Len(chosen') /\ \A i \in 1..Len(chosen) : chosen'[i] = chosen[i]
  <2>0. \A m \in Node : commit[m] \in Nat BY DEF ServerTypes
  <2>1. CASE Elect(n)
    <3>1. UNCHANGED <<commit, chosen>> BY <2>1 DEF Elect
    <3>2. ConsensusInv' BY <2>1, ElectConsensus
    <3> QED BY <2>0, <3>1, <3>2, LogFacts
  <2>2. CASE Choose(n)
    <3>1. /\ ConsensusInv' /\ Chosen(chosen', Len(chosen)) /\ Len(chosen) <= Len(chosen')
          /\ commit[n] <= commit'[n]
      BY <2>2, ChooseConsensus
    <3>2. \A m \in Node \ {n} : commit'[m] = commit[m] BY <2>2 DEF Choose, ServerTypes
    <3> QED BY <2>0, <3>1, <3>2 DEF Chosen
  <2>3. CASE Depose(n)
    <3>1. UNCHANGED <<commit, chosen>> BY <2>3 DEF Depose
    <3>2. ConsensusInv' BY <2>3, DeposeConsensus
    <3> QED BY <2>0, <3>1, <3>2, LogFacts
  <2>4. ASSUME NEW m \in Node, Hear(m, n)
        PROVE  /\ ConsensusInv' /\ \A p \in Node : commit[p] <= commit'[p]
               /\ UNCHANGED chosen
    <3>1. UNCHANGED chosen BY <2>4 DEF Hear
    <3> QED BY <2>4, <3>1, HearConsensus
  <2> QED BY <2>1, <2>2, <2>3, <2>4, LogFacts
<1>6. LoopInv'
  <2>1. \A m \in Node : commit'[m] \in Nat BY <1>2 DEF ServerTypes
  <2> QED BY <1>0, <1>5, <2>1, LoopKept DEF ConsensusInv
<1>7. ReadInv'
  <2>1. Len(chosen) \in Nat /\ Len(chosen') \in Nat /\ acknowledged \in Nat
    <3>1. chosen' \in Seq(Entry) BY <1>2 DEF ServerTypes
    <3> QED BY <3>1, LogFacts, LenProperties DEF ClientTypes, ServerTypes
  <2> QED BY <1>1, <1>5, <2>1 DEF ReadInv, Is
<1>8. NoWaiterForgotten' /\ CurrentReadIsFresh'
  BY <1>1 DEF NoWaiterForgotten, CurrentReadIsFresh, Is
<1> QED BY <1>2, <1>3, <1>4, <1>5, <1>6, <1>7, <1>8

LEMMA InvLoop ==
  ASSUME Inv, [Next]_vars, NEW n \in Node, LoopStep(n)
  PROVE  Inv'
<1> USE DEF Inv, TypeInv
<1>1. UNCHANGED consensus BY DEF LoopStep, ReadCommit, ApplyOne, SetApplied, NotifyCommitted
<1>2. UNCHANGED <<chosen, top, role, term, log, commit>> BY <1>1 DEF consensus, server
<1>3. ServerTypes' BY ServerTypesNext DEF ConsensusInv
<1>4. ConsensusInv' BY <1>2, ConsensusKept DEF ConsensusVars
<1>5. /\ StoreTypes' /\ LoopInv'
      /\ \A m \in Node : applied'[m] \in Nat /\ Len(machine[m]) <= Len(machine'[m])
  BY <1>1, LoopSteps
<1>6. CASE NotifyCommitted(n)
  <2>1. ClientTypes' /\ CallsKept BY <1>6, NotifyCalls
  <2>2. CallInv' BY <1>2, <2>1, CallInvKept
  <2>3. ReadInv' /\ NoWaiterForgotten' /\ CurrentReadIsFresh' BY <1>6, NotifyReaders
  <2> QED BY <1>3, <1>4, <1>5, <2>1, <2>2, <2>3
<1>7. CASE ReadCommit(n) \/ ApplyOne(n) \/ SetApplied(n)
  <2>1. UNCHANGED <<pending, call, hint, did, notified, acknowledged>>
    BY <1>7 DEF ReadCommit, ApplyOne, SetApplied, client, history
  <2>2. ClientTypes' BY <2>1 DEF ClientTypes
  <2>3. CallInv' BY <1>2, <2>1, SameCalls, CallInvKept
  <2>4. ReadInv' /\ NoWaiterForgotten' BY <1>2, <2>1 DEF ReadInv, NoWaiterForgotten, Is
  <2>5. CurrentReadIsFresh'
    <3> SUFFICES ASSUME NEW c \in Client, Is(c, "reading")'
                 PROVE  Len(machine'[call[c].node]) >= call[c].want
      BY <2>1 DEF CurrentReadIsFresh
    <3>1. Is(c, "reading") /\ call[c] \in ReadingCall BY <2>1, CallShapes DEF Is
    <3>2. call[c].node \in Node /\ call[c].want \in Nat BY <3>1 DEF ReadingCall
    <3>3. Len(machine[call[c].node]) >= call[c].want BY <3>1 DEF CurrentReadIsFresh
    <3>4. machine'[call[c].node] \in Seq(Client) BY <1>5, <3>2 DEF StoreTypes
    <3>5. Len(machine'[call[c].node]) \in Nat BY <3>4, LenProperties
    <3> QED BY <1>5, <3>2, <3>3, <3>5, LoopShapes
  <2> QED BY <1>3, <1>4, <1>5, <2>2, <2>3, <2>4, <2>5
<1> QED BY <1>6, <1>7 DEF LoopStep

\* A call steps and leaves the node alone, but for its log or its waiters.
LEMMA InvCall ==
  ASSUME Inv, [Next]_vars, NEW c \in Client,
         Serve(c) \/ Break(c) \/ Begin(c, "put") \/ Begin(c, "get")
  PROVE  Inv'
<1> USE DEF Inv, TypeInv
<1>0. UNCHANGED <<applied, machine, loop, chosen, commit>>
  BY DEF Serve, Redirect, AppendPut, Register, TimeOut, LeaseRead, ReadIndex, WaitForApply, Read,
         Break, Begin, store, consensus
<1>1. ServerTypes' BY ServerTypesNext DEF ConsensusInv
<1>2. StoreTypes' BY <1>0 DEF StoreTypes
<1>3. LoopInv'
  <2>1. UNCHANGED store BY <1>0 DEF store
  <2>2. \A n \in Node : commit'[n] \in Nat /\ commit[n] <= commit'[n]
    BY <1>0 DEF ServerTypes
  <2> QED BY <1>0, <2>1, <2>2, LoopKept DEF ConsensusInv
<1>4. CASE AppendPut(c)
  <2>1. PICK r \in AppendedCall : call' = [call EXCEPT ![c] = r] BY <1>4, AppendPutCalls
  <2>2. ClientTypes' /\ ConsensusInv' /\ CallInv' BY <1>4, AppendPutCalls
  <2>3. UNCHANGED <<pending, notified, acknowledged>> BY <1>4 DEF AppendPut, history
  <2>4. r.at = "appended" BY DEF AppendedCall
  <2>5. ReadInv' /\ NoWaiterForgotten' /\ CurrentReadIsFresh'
    BY <1>0, <2>1, <2>3, <2>4, ReadersKept
  <2> QED BY <1>1, <1>2, <1>3, <2>2, <2>5
<1>5. ASSUME ClientTypes', CallsKept, UNCHANGED consensus,
             ReadInv' /\ NoWaiterForgotten' /\ CurrentReadIsFresh'
      PROVE  Inv'
  <2>1. UNCHANGED <<chosen, top, role, term, log, commit>> BY <1>5 DEF consensus, server
  <2>2. ConsensusInv' BY <2>1, ConsensusKept DEF ConsensusVars
  <2>3. CallInv' BY <1>5, <2>1, CallInvKept
  <2> QED BY <1>1, <1>2, <1>3, <1>5, <2>2, <2>3
<1>6. CASE Register(c)
  <2>1. UNCHANGED consensus BY <1>6 DEF Register
  <2>2. ClientTypes' /\ CallsKept BY <1>6, RegisterCalls
  <2>3. ReadInv' /\ NoWaiterForgotten' /\ CurrentReadIsFresh' BY <1>6, RegisterReaders
  <2> QED BY <1>5, <2>1, <2>2, <2>3
<1>7. CASE LeaseRead(c) \/ ReadIndex(c) \/ WaitForApply(c)
  <2>1. UNCHANGED consensus BY <1>7 DEF LeaseRead, ReadIndex, WaitForApply
  <2>2. ClientTypes' /\ CallsKept BY <1>7, GetCalls
  <2>3. ReadInv' /\ NoWaiterForgotten' /\ CurrentReadIsFresh' BY <1>7, GetReaders
  <2> QED BY <1>5, <2>1, <2>2, <2>3
<1>8. CASE Redirect(c) \/ TimeOut(c) \/ Break(c) \/ Read(c) \/ Begin(c, "put") \/ Begin(c, "get")
  <2>1. UNCHANGED consensus /\ UNCHANGED <<pending, notified, acknowledged>>
    BY <1>8 DEF Redirect, TimeOut, Break, Read, Begin, history
  <2>2. /\ ClientTypes' /\ CallsKept
        /\ \E r \in SentCall \cup {Nil} : call' = [call EXCEPT ![c] = r]
    <3>1. CASE Redirect(c) BY <3>1, RedirectCalls
    <3>2. CASE TimeOut(c) \/ Break(c) \/ Read(c) BY <3>2, EndCalls
    <3>3. ASSUME NEW kind \in {"put", "get"}, Begin(c, kind)
          PROVE  /\ ClientTypes' /\ CallsKept
                 /\ \E r \in SentCall \cup {Nil} : call' = [call EXCEPT ![c] = r]
      <4>1. hint'[c] \in Node \cup {Nil} BY <3>3 DEF Begin, ClientTypes
      <4>2. 1 \in 1..MaxTries BY ServiceAssumption
      <4>3. Sent(c, kind, 1) \in SentCall BY <4>1, <4>2, FirstCall
      <4> QED BY <3>3, <4>3, BeginCalls
    <3> QED BY <1>8, <3>1, <3>2, <3>3
  <2>3. PICK r \in SentCall \cup {Nil} : call' = [call EXCEPT ![c] = r] BY <2>2
  <2>4. r = Nil \/ r.at = "sent" BY DEF SentCall
  <2>5. ReadInv' /\ NoWaiterForgotten' /\ CurrentReadIsFresh'
    BY <1>0, <2>1, <2>3, <2>4, ReadersKept
  <2> QED BY <1>5, <2>1, <2>2, <2>5
<1> QED BY <1>4, <1>6, <1>7, <1>8 DEF Serve

LEMMA InvNext == ASSUME Inv, [Next]_vars PROVE Inv'
<1>1. CASE UNCHANGED vars
  <2> USE DEF Inv, TypeInv
  <2>1. /\ UNCHANGED <<chosen, top, role, term, leaderId, log, commit>>
        /\ UNCHANGED <<applied, machine, loop, pending, call, hint, did>>
        /\ UNCHANGED <<notified, acknowledged>>
    BY <1>1 DEF vars, consensus, server, store, client, history
  <2>2. ServerTypes' BY ServerTypesNext DEF ConsensusInv
  <2>3. StoreTypes' /\ ClientTypes' BY <2>1 DEF StoreTypes, ClientTypes
  <2>4. ConsensusInv' BY <2>1, ConsensusKept DEF ConsensusVars
  <2>5. CallInv' BY <2>1, SameCalls, CallInvKept
  <2>6. LoopInv' BY <2>1 DEF LoopInv, StoreIsApplied
  <2>7. ReadInv' /\ NoWaiterForgotten' /\ CurrentReadIsFresh'
    BY <2>1 DEF ReadInv, NoWaiterForgotten, CurrentReadIsFresh, Is
  <2> QED BY <2>2, <2>3, <2>4, <2>5, <2>6, <2>7
<1>2. ASSUME Next PROVE Inv'
  BY <1>2, InvConsensus, InvLoop, InvCall, ServiceAssumption DEF Next
<1> QED BY <1>1, <1>2

LEMMA InvAlways == Spec => []Inv
<1>1. Init => Inv BY InvInit
<1>2. Inv /\ [Next]_vars => Inv' BY InvNext
<1> QED BY <1>1, <1>2, PTL DEF Spec

-----------------------------------------------------------------------------
(* The theorems. *)

\* Every variable keeps its type: a put always finds room in the table of waiters, since
\* the code's map of waiters has one for every index.
THEOREM ServiceTypes == Spec => []ServiceTypeOK
<1>1. Inv => ServiceTypeOK
  <2> SUFFICES ASSUME Inv PROVE ServiceTypeOK OBVIOUS
  <2> USE DEF Inv, TypeInv
  <2>1. \A n \in Node : loop[n].at \in {"idle", "applying", "notifying"} BY LoopShapes
  <2>2. \A c \in Client : call[c] # Nil =>
          /\ call[c].kind \in did[c] /\ call[c].node \in Node /\ call[c].tries \in 1..MaxTries
          /\ call[c].at \in {"appended", "waiting"} => call[c].index \in Index
    BY DEF ClientTypes, OpenCall, SentCall, AppendedCall, WaitingCall, CatchingCall, ReadingCall
  <2> QED BY <2>1, <2>2 DEF ServiceTypeOK, ServerTypes, StoreTypes, ClientTypes
<1> QED BY <1>1, InvAlways, PTL

\* A put of service.rs that succeeds has an index that a majority holds for good, and
\* where the entry there is of the put's own term, it is the put's own command.
THEOREM ServiceConfirmedIsChosen == Spec => []ConfirmedIsChosen
<1>1. Inv => ConfirmedIsChosen
  <2> SUFFICES ASSUME Inv, NEW n \in Node, loop[n].at = "notifying", NEW c \in Ends(n)
               PROVE  /\ call[c].index <= Len(chosen)
                      /\ chosen[call[c].index].term = call[c].term
                           => chosen[call[c].index].cmd = c
    BY DEF ConfirmedIsChosen
  <2>1. c \in Client /\ Is(c, "waiting") /\ call[c].index <= Len(chosen)
    BY ToldIsChosen DEF Inv
  <2> QED BY <2>1 DEF Inv, CallInv, EntryIsMine, Entered
<1> QED BY <1>1, InvAlways, PTL

\* The client of raft-client.js, which repeats a call at the hinted leader, never has its
\* command in a log twice.
THEOREM ServiceAppendedOnce == Spec => []AppendedOnce
<1>1. Inv => AppendedOnce BY DEF Inv, CallInv
<1> QED BY <1>1, InvAlways, PTL

\* A waiter of pending.rs is told when its index is applied, unless it registered too
\* late or a put of another term has taken its place.
THEOREM ServiceNoWaiterForgotten == Spec => []NoWaiterForgotten
<1>1. Inv => NoWaiterForgotten BY DEF Inv
<1> QED BY <1>1, InvAlways, PTL

\* What apply_committed_entries has put into a store are the chosen commands in order.
THEOREM ServiceStoresFollowChosen == Spec => []StoresFollowChosen
<1>1. Inv => StoresFollowChosen
  <2> SUFFICES ASSUME Inv, NEW n \in Node
               PROVE  /\ Len(machine[n]) <= Len(chosen)
                      /\ \A i \in 1..Len(machine[n]) : machine[n][i] = chosen[i].cmd
    BY DEF StoresFollowChosen
  <2> USE DEF Inv, TypeInv
  <2>1. StoreIsApplied(n) /\ Chosen(log[n], commit[n])
    BY DEF LoopInv, ConsensusInv, CommitIsChosen
  <2>2. commit[n] \in Nat /\ Len(machine[n]) \in Nat /\ Len(chosen) \in Nat
    BY LogFacts, LoopShapes DEF ServerTypes
  <2> QED BY <2>1, <2>2 DEF StoreIsApplied, Chosen
<1> QED BY <1>1, InvAlways, PTL

\* A get by ReadIndex at the leader of the newest term, once that has committed in its
\* term, finds every write acknowledged before the get began.
THEOREM ServiceCurrentReadIsFresh == Spec => []CurrentReadIsFresh
<1>1. Inv => CurrentReadIsFresh BY DEF Inv
<1> QED BY <1>1, InvAlways, PTL
=============================================================================
