------------------------------ MODULE KvService -----------------------------
(***************************************************************************)
(* The client's side of a cluster: put, delete and get of service.rs, the  *)
(* waiters of pending.rs, apply_committed_entries, and the calls of the    *)
(* Node.js client, which follows redirects.                                *)
(*                                                                         *)
(* Consensus itself is ideal here: one leader per term, a leader holds all *)
(* that was chosen, entries are chosen in the newest term only.  What goes *)
(* wrong in this module goes wrong even so; Election and Replication are   *)
(* about the rest.  An old leader is not told: it goes on as one.          *)
(*                                                                         *)
(* A store is the sequence of the commands applied to it.  Each client     *)
(* makes at most one put and one get, and the put is named by its client;  *)
(* delete is put with another command.                                     *)
(***************************************************************************)
EXTENDS Naturals, FiniteSets, SequencesExt

CONSTANTS
  Node, Client,
  Putter, Getter,      \* the clients that put once, and those that get once
  First,       \* nodes[0] of the clients
  Nil,
  MaxTerm, MaxTries, MaxCalls   \* bounds: terms; attempts, 3 in raft-client.js; calls

ASSUME ServiceAssumption ==
  /\ IsFiniteSet(Client)
  /\ First \in Node /\ Nil \notin Node \cup Client
  /\ Putter \cup Getter \subseteq Client
  /\ MaxTerm \in Nat /\ MaxTries \in Nat \ {0} /\ MaxCalls \in Nat

VARIABLES
  chosen, top,             \* the entries a majority holds for good; the newest term
  role, term, leaderId,
  log,                     \* log[n]: entries [term, cmd]
  commit, applied,         \* commit_index and last_applied
  machine,                 \* machine[n]: the commands in the KV store of n
  pending,                 \* pending[n]: the waiter of each index, or Nil
  loop,                    \* loop[n]: where apply_committed_entries is
  call,                    \* call[c]: the call c waits for, or Nil
  hint,                    \* hint[c]: leaderHint
  did,                     \* did[c]: the kinds of calls c has made
  (* History. *)
  notified,                \* notified[n]: the last index waiters were told of
  acknowledged             \* the last index of a put that was told of success

server    == <<role, term, leaderId>>
consensus == <<chosen, top, server, log, commit>>
store     == <<applied, machine, loop>>
client    == <<call, hint, did>>
history   == <<notified, acknowledged>>
vars      == <<consensus, store, pending, client, history>>

Entry == [term : 1..MaxTerm, cmd : Client]
Index == 1..Cardinality(Client)

Latest(S) == CHOOSE i \in S : \A j \in S : j <= i

At(where) == [at |-> where]

Init ==
  /\ chosen = <<>> /\ top = 0
  /\ role = [n \in Node |-> "Follower"] /\ term = [n \in Node |-> 0]
  /\ leaderId = [n \in Node |-> Nil]
  /\ log = [n \in Node |-> <<>>] /\ commit = [n \in Node |-> 0]
  /\ applied = [n \in Node |-> 0] /\ machine = [n \in Node |-> <<>>]
  /\ loop = [n \in Node |-> At("idle")]
  /\ pending = [n \in Node |-> [i \in Index |-> Nil]]
  /\ call = [c \in Client |-> Nil] /\ hint = [c \in Client |-> Nil]
  /\ did = [c \in Client |-> {}]
  /\ notified = [n \in Node |-> 0] /\ acknowledged = 0

-----------------------------------------------------------------------------
(* Ideal consensus: what start_real_election, update_commit_index, append_entries
   and its answer are there to give, each in one step. *)

\* n wins the next term.
Elect(n) ==
  /\ role[n] # "Leader" /\ top < MaxTerm /\ IsPrefix(chosen, log[n])
  /\ top' = top + 1
  /\ role' = [role EXCEPT ![n] = "Leader"]
  /\ term' = [term EXCEPT ![n] = top']
  /\ leaderId' = [leaderId EXCEPT ![n] = n]
  /\ UNCHANGED <<chosen, log, commit, store, pending, client, history>>

\* A majority holds what the leader of the newest term has up to i.
Choose(n) ==
  /\ role[n] = "Leader" /\ term[n] = top
  /\ \E i \in commit[n] + 1..Len(log[n]) :
       /\ log[n][i].term = term[n]
       /\ commit' = [commit EXCEPT ![n] = i]
       /\ chosen' = SubSeq(log[n], 1, i)
  /\ UNCHANGED <<top, server, log, store, pending, client, history>>

\* append_entries brings m up to its leader n, uncommitted entries included.
Hear(m, n) ==
  /\ role[n] = "Leader"
  /\ term[n] > term[m] \/ (term[n] = term[m] /\ role[m] = "Follower")
  /\ <<log[m], commit[m], leaderId[m]>> # <<log[n], commit[n], n>>
  /\ role' = [role EXCEPT ![m] = "Follower"]
  /\ term' = [term EXCEPT ![m] = term[n]]
  /\ leaderId' = [leaderId EXCEPT ![m] = n]
  /\ log' = [log EXCEPT ![m] = log[n]]
  /\ commit' = [commit EXCEPT ![m] = IF commit[n] > @ THEN commit[n] ELSE @]
  /\ UNCHANGED <<chosen, top, store, pending, client, history>>

\* An old leader learns of the newest term from an answer, and of no leader.
Depose(n) ==
  /\ role[n] = "Leader" /\ term[n] < top
  /\ role' = [role EXCEPT ![n] = "Follower"]
  /\ term' = [term EXCEPT ![n] = top]
  /\ leaderId' = [leaderId EXCEPT ![n] = Nil]
  /\ UNCHANGED <<chosen, top, log, commit, store, pending, client, history>>

-----------------------------------------------------------------------------
(* apply_committed_entries. *)

ReadCommit(n) ==
  /\ loop[n].at = "idle" /\ commit[n] > applied[n]
  /\ loop' = [loop EXCEPT ![n] = [at |-> "applying", next |-> applied[n] + 1, upto |-> commit[n]]]
  /\ UNCHANGED <<consensus, applied, machine, pending, client, history>>

\* Mutant of Entering: the first entry to apply is the last one applied.
EnteringAgain(n) == IF loop[n].next > 1 THEN log[n][loop[n].next - 1] ELSE log[n][1]

\* The entry that goes into the store next.
Entering(n) == log[n][loop[n].next]

\* A get may read the store between two entries.
ApplyOne(n) ==
  /\ loop[n].at = "applying" /\ loop[n].next <= loop[n].upto
  /\ machine' = [machine EXCEPT ![n] = Append(@, Entering(n).cmd)]
  /\ loop' = [loop EXCEPT ![n].next = @ + 1]
  /\ UNCHANGED <<consensus, applied, pending, client, history>>

SetApplied(n) ==
  /\ loop[n].at = "applying" /\ loop[n].next > loop[n].upto
  /\ applied' = [applied EXCEPT ![n] = loop[n].upto]
  /\ loop' = [loop EXCEPT ![n] = [at |-> "notifying", upto |-> loop[n].upto]]
  /\ UNCHANGED <<consensus, machine, pending, client, history>>

\* Mutant of Told: the next index is told as well.
ToldAbove(n, upto) == {i \in Index : i <= upto + 1 /\ pending[n][i] # Nil}

\* Mutant of Told: the last index is left out.
ToldBelow(n, upto) == {i \in Index : i < upto /\ pending[n][i] # Nil}

\* The indexes whose waiters are told.
Told(n, upto) == {i \in Index : i <= upto /\ pending[n][i] # Nil}

\* c still waits at n for index i.
WaitsFor(c, n, i) ==
  call[c] # Nil /\ call[c].at = "waiting" /\ call[c].node = n /\ call[c].index = i

\* Whose puts end with success when n notifies: by index only.
Ends(n) ==
  {c \in Client : \E i \in Told(n, loop[n].upto) : pending[n][i] = c /\ WaitsFor(c, n, i)}

\* notify_committed: whoever is registered is told and forgotten.
NotifyCommitted(n) ==
  /\ loop[n].at = "notifying"
  /\ pending' = [pending EXCEPT ![n] =
                  [i \in Index |-> IF i \in Told(n, loop[n].upto) THEN Nil ELSE @[i]]]
  /\ call' = [c \in Client |-> IF c \in Ends(n) THEN Nil ELSE call[c]]
  /\ acknowledged' = Latest({acknowledged} \cup {call[c].index : c \in Ends(n)})
  /\ notified' = [notified EXCEPT ![n] = loop[n].upto]
  /\ loop' = [loop EXCEPT ![n] = At("idle")]
  /\ UNCHANGED <<consensus, applied, machine, hint, did>>

-----------------------------------------------------------------------------
(* Calls. *)

\* getAnyClient: the last hint, or the first node of the list.
Sent(c, kind, tries) ==
  [at |-> "sent", kind |-> kind, tries |-> tries,
   node |-> IF hint'[c] = Nil THEN First ELSE hint'[c]]

\* The calls made so far.
Made == {made \in Client \X {"put", "get"} : made[2] \in did[made[1]]}

Begin(c, kind) ==
  /\ call[c] = Nil /\ kind \notin did[c] /\ Cardinality(Made) < MaxCalls
  /\ did' = [did EXCEPT ![c] = @ \cup {kind}]
  /\ hint' = hint
  /\ call' = [call EXCEPT ![c] = Sent(c, kind, 1)]
  /\ UNCHANGED <<consensus, store, pending, history>>

Is(c, where) == call[c] # Nil /\ call[c].at = where

\* The call ends with an error, as far as the client knows.
Fail(c) == call' = [call EXCEPT ![c] = Nil]

\* Mutant of TriesLeft: one try more.
TriesLeftAgain(c) == call[c].tries <= MaxTries

TriesLeft(c) == call[c].tries < MaxTries

\* "not leader": the client follows the hint, if there is one and it has a try left.
Redirect(c) ==
  LET n == call[c].node IN
  /\ Is(c, "sent") /\ role[n] # "Leader"
  /\ hint' = [hint EXCEPT ![c] = IF leaderId[n] = Nil THEN @ ELSE leaderId[n]]
  /\ IF leaderId[n] # Nil /\ TriesLeft(c)
     THEN call' = [call EXCEPT ![c] = Sent(c, call[c].kind, call[c].tries + 1)]
     ELSE Fail(c)
  /\ UNCHANGED <<consensus, store, pending, did, history>>

\* put: the entry goes into the leader's log, under both locks.
AppendPut(c) ==
  LET n == call[c].node IN
  /\ Is(c, "sent") /\ call[c].kind = "put" /\ role[n] = "Leader"
  /\ log' = [log EXCEPT ![n] = Append(@, [term |-> term[n], cmd |-> c])]
  /\ call' = [call EXCEPT ![c] = [at |-> "appended", kind |-> "put", node |-> n,
                                  tries |-> call[c].tries,
                                  index |-> Len(log[n]) + 1, term |-> term[n]]]
  /\ UNCHANGED <<chosen, top, server, commit, store, pending, hint, did, history>>

\* register, under no lock of the node: too late when the index has been told already;
\* and whoever waits for the same index is put out.
Register(c) ==
  LET n == call[c].node
      i == call[c].index
      out == {d \in Client : pending[n][i] = d /\ WaitsFor(d, n, i)}
  IN
  /\ Is(c, "appended")
  /\ pending' = [pending EXCEPT ![n][i] = c]
  /\ call' = [d \in Client |->
       CASE d = c     -> [at |-> "waiting", kind |-> "put", node |-> n, index |-> i,
                          term |-> call[c].term, tries |-> call[c].tries,
                          late |-> notified[n] >= i, outBy |-> 0]
         [] d \in out -> [call[d] EXCEPT !.outBy = call[c].term]
         [] OTHER     -> call[d]]
  /\ UNCHANGED <<consensus, store, hint, did, history>>

\* Mutant of TimeOut: the client sends a put that has timed out again.
TimeOutAgain(c) ==
  /\ Is(c, "waiting") \/ Is(c, "catching")
  /\ hint' = hint
  /\ IF TriesLeft(c) /\ call[c].kind = "put"
     THEN call' = [call EXCEPT ![c] = Sent(c, "put", call[c].tries + 1)]
     ELSE Fail(c)
  /\ UNCHANGED <<consensus, store, pending, did, history>>

\* Five seconds: an error, whatever becomes of the entry.  The waiter stays in the map.
TimeOut(c) ==
  /\ Is(c, "waiting") \/ Is(c, "catching")
  /\ Fail(c)
  /\ UNCHANGED <<consensus, store, pending, hint, did, history>>

\* The connection breaks and the handler is dropped where it is.  (Before the append
\* nothing comes of the call; in a wait this is a time-out.)
Break(c) ==
  /\ Is(c, "appended")
  /\ Fail(c)
  /\ UNCHANGED <<consensus, store, pending, hint, did, history>>

Leads(c) == Is(c, "sent") /\ call[c].kind = "get" /\ role[call[c].node] = "Leader"

Reading(c, want) == [at |-> "reading", kind |-> "get", node |-> call[c].node,
                     tries |-> call[c].tries, want |-> want]

\* A valid lease: the store is read without asking anybody.  Time decides which leases
\* are valid; here any may be.
LeaseRead(c) ==
  /\ Leads(c) /\ call' = [call EXCEPT ![c] = Reading(c, 0)]
  /\ UNCHANGED <<consensus, store, pending, hint, did, history>>

\* n leads the newest term and has committed in it.
Current(n) ==
  /\ term[n] = top
  /\ \E i \in 1..commit[n] : log[n][i].term = top

\* ReadIndex: commit_index as it is, no round of heartbeats.  For a leader that is
\* current the read should find everything acknowledged so far.
ReadIndex(c) ==
  LET n == call[c].node IN
  /\ Leads(c)
  /\ call' = [call EXCEPT ![c] =
       [at |-> "catching", kind |-> "get", node |-> n, tries |-> call[c].tries,
        target |-> commit[n],
        want |-> IF Current(n) THEN acknowledged ELSE 0]]
  /\ UNCHANGED <<consensus, store, pending, hint, did, history>>

\* Mutant of CaughtUp: last_applied is not waited for.
CaughtUpAtOnce(c) == Is(c, "catching")

\* wait_for_apply has seen the target.
CaughtUp(c) == Is(c, "catching") /\ applied[call[c].node] >= call[c].target

WaitForApply(c) ==
  /\ CaughtUp(c)
  /\ call' = [call EXCEPT ![c] = Reading(c, call[c].want)]
  /\ UNCHANGED <<consensus, store, pending, hint, did, history>>

\* store.get, no lock of the node held.
Read(c) ==
  /\ Is(c, "reading")
  /\ call' = [call EXCEPT ![c] = Nil]
  /\ UNCHANGED <<consensus, store, pending, hint, did, history>>

Serve(c) == \/ Redirect(c) \/ AppendPut(c) \/ Register(c) \/ TimeOut(c)
            \/ LeaseRead(c) \/ ReadIndex(c) \/ WaitForApply(c) \/ Read(c)

LoopStep(n) == ReadCommit(n) \/ ApplyOne(n) \/ SetApplied(n) \/ NotifyCommitted(n)

Next ==
  \/ \E n \in Node : Elect(n) \/ Choose(n) \/ Depose(n) \/ LoopStep(n)
  \/ \E m, n \in Node : Hear(m, n)
  \/ \E c \in Putter : Begin(c, "put")
  \/ \E c \in Getter : Begin(c, "get")
  \/ \E c \in Client : Serve(c) \/ Break(c)

Spec == Init /\ [][Next]_vars

-----------------------------------------------------------------------------
ServiceTypeOK ==
  /\ chosen \in Seq(Entry) /\ top \in 0..MaxTerm
  /\ role \in [Node -> {"Follower", "Leader"}] /\ term \in [Node -> 0..MaxTerm]
  /\ leaderId \in [Node -> Node \cup {Nil}]
  /\ log \in [Node -> Seq(Entry)] /\ commit \in [Node -> Nat] /\ applied \in [Node -> Nat]
  /\ machine \in [Node -> Seq(Client)]
  /\ pending \in [Node -> [Index -> Client \cup {Nil}]]
  /\ \A n \in Node : loop[n].at \in {"idle", "applying", "notifying"}
  /\ \A c \in Client : call[c] # Nil =>
       /\ call[c].kind \in did[c] /\ call[c].node \in Node /\ call[c].tries \in 1..MaxTries
       /\ call[c].at \in {"appended", "waiting"} => call[c].index \in Index
  /\ hint \in [Client -> Node \cup {Nil}] /\ did \in [Client -> SUBSET {"put", "get"}]

\* A put that succeeds: its index is committed, by its own command or by an entry of
\* another term.  (That it may be another's is what notifying by index costs.)
ConfirmedIsChosen ==
  \A n \in Node : loop[n].at = "notifying" =>
    \A c \in Ends(n) :
      /\ call[c].index <= Len(chosen)
      /\ chosen[call[c].index].term = call[c].term => chosen[call[c].index].cmd = c

\* Following redirects never writes a command twice: only an attempt that appended
\* nothing is answered "not leader".
AppendedOnce ==
  \A n \in Node : \A i, j \in 1..Len(log[n]) : log[n][i].cmd = log[n][j].cmd => i = j

\* A put that still waits will be told when its index is applied, unless it registered
\* after that, or a put of another term with the same index has put it out: an old
\* one can put out a newer one, when it registers late.
NoWaiterForgotten ==
  \A c \in Client : Is(c, "waiting") =>
    \/ call[c].late
    \/ call[c].outBy \notin {0, call[c].term}
    \/ call[c].outBy = 0 /\ pending[call[c].node][call[c].index] = c
         /\ call[c].index > notified[call[c].node]

\* A store holds the chosen commands in order, so every get, leased or not, reads
\* something that was true once.
StoresFollowChosen ==
  \A n \in Node : /\ Len(machine[n]) <= Len(chosen)
                  /\ \A i \in 1..Len(machine[n]) : machine[n][i] = chosen[i].cmd

\* A ReadIndex read of a leader that was current when it began finds every write
\* acknowledged before that.
CurrentReadIsFresh ==
  \A c \in Client : Is(c, "reading") => Len(machine[call[c].node]) >= call[c].want

-----------------------------------------------------------------------------
(* What does not hold; see section 4 of the README. *)

\* A put that succeeds has been chosen itself.
OwnPutConfirmed ==
  \A n \in Node : loop[n].at = "notifying" =>
    \A c \in Ends(n) : chosen[call[c].index].cmd = c

\* pending.rs:26, "notify all requests that are committed".
EveryWaiterIsTold ==
  \A c \in Client : Is(c, "waiting") => call[c].index > notified[call[c].node]

\* service.rs:155, "safe to read": the index that a read of the newest leader waits for
\* covers everything acknowledged.
ReadIndexIsFresh ==
  \A n \in Node : role[n] = "Leader" /\ term[n] = top => commit[n] >= acknowledged

\* A put whose client is told of an error is not written.
FailedPutIsNotWritten ==
  \A c \in Client : \A i \in 1..Len(chosen) :
    chosen[i].cmd = c => call[c] # Nil \/ acknowledged >= i
=============================================================================
