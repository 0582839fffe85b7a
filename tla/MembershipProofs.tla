--------------------------- MODULE MembershipProofs --------------------------
(***************************************************************************)
(* What changes of the membership leave standing, for any configuration,   *)
(* any nodes to add or remove and any number of callers.                   *)
(*                                                                         *)
(* The parts of the invariant hold one another up: the call that is under  *)
(* way knows where its node is (CallsKnow), so the peers are what was      *)
(* asked for; the slots follow the peers (VectorsAligned), so the loop     *)
(* finds its slots while there are enough peers (Enough); a slot that was  *)
(* never moved says no more than its peer holds (MatchBacked); and a round *)
(* counts each slot once (CountBacked).                                    *)
(***************************************************************************)
EXTENDS Membership, SequenceTheorems, FiniteSetTheorems, WellFoundedInduction, TLAPS

(* Types. *)

Adding   == [at : {"checked", "marked", "applied"}, op : {"add"}, id : Asked, idx : {0}]
Removing == [at : {"checked", "marked", "applied"}, op : {"remove"}, id : Asked,
             idx : Nat \ {0}]
Appends  == [idx : Slots, to : ToSet(Peers), round : Nat, next : Nat \ {0}, upto : Nat]
Counts   == [slot : Slots, round : Nat, late : BOOLEAN]

NodeTypes ==
  /\ role \in {"Follower", "Leader"} /\ term \in Nat /\ log \in Seq(Nat) /\ commit \in Nat
  /\ peers \in Seq(Id) /\ changing \in BOOLEAN
  /\ ls = Nil \/ ls \in [next : Seq(Nat \ {0}), match : Seq(Nat)]
  /\ call \in [Caller -> {Idle} \cup Adding \cup Removing]

BeatTypes ==
  /\ loop \in [at : {"idle", "sent", "dead"}] \cup [at : {"sending"}, next : Seq(Nat \ {0})]
  /\ count \in Nat /\ round \in Nat /\ holds \in [ToSet(Peers) -> Nat]
  /\ appends \subseteq Appends /\ \A a \in appends : a.to = Peers[a.idx - 1]
  /\ counted \subseteq Counts /\ IsFiniteSet(counted)

TypeInv == NodeTypes /\ BeatTypes

-----------------------------------------------------------------------------
(* Sequences. *)

LEMMA PeersFacts ==
  /\ Peers \in Seq(ToSet(Peers)) /\ Len(Peers) \in Nat /\ DOMAIN Peers = 1..Len(Peers)
  /\ \A i \in Slots : /\ i \in Nat /\ i - 1 \in 1..Len(Peers) /\ Peers[i - 1] \in ToSet(Peers)
                      /\ i <= Len(Peers) + 1
<1>1. Peers \in Seq(ToSet(Peers)) BY PeersAssumption
<1>2. Len(Peers) \in Nat /\ DOMAIN Peers = 1..Len(Peers) BY <1>1, LenProperties
<1>3. ASSUME NEW i \in Slots
      PROVE  /\ i \in Nat /\ i - 1 \in 1..Len(Peers) /\ Peers[i - 1] \in ToSet(Peers)
             /\ i <= Len(Peers) + 1
  <2>1. i \in Nat /\ i - 1 \in 1..Len(Peers) /\ i <= Len(Peers) + 1 BY <1>2 DEF Slots
  <2> QED BY <1>2, <2>1 DEF ToSet
<1> QED BY <1>1, <1>2, <1>3

LEMMA RemoveFacts ==
  ASSUME NEW S, NEW s \in Seq(S), NEW i \in 1..Len(s)
  PROVE  /\ RemoveAt(s, i) \in Seq(S) /\ Len(RemoveAt(s, i)) = Len(s) - 1
         /\ \A j \in 1..Len(s) - 1 : RemoveAt(s, i)[j] = IF j < i THEN s[j] ELSE s[j + 1]
<1> DEFINE n == Len(s)
           a == SubSeq(s, 1, i - 1)
           b == SubSeq(s, i + 1, n)
<1>0. n \in Nat /\ i \in Nat /\ 1 <= i /\ i <= n BY LenProperties
<1>1. /\ a \in Seq(S) /\ Len(a) = i - 1 /\ \A j \in 1..i - 1 : a[j] = s[j]
  <2>1. \A j \in 1..i - 1 : s[j] \in S BY <1>0, ElementOfSeq
  <2>2. /\ a \in Seq(S) /\ Len(a) = IF 1 <= i - 1 THEN i - 1 - 1 + 1 ELSE 0
        /\ \A j \in 1..i - 1 - 1 + 1 : a[j] = s[1 + j - 1]
    BY <1>0, <2>1, SubSeqProperties
  <2>3. \A j \in 1..i - 1 : j \in 1..i - 1 - 1 + 1 /\ 1 + j - 1 = j BY <1>0
  <2>4. Len(a) = i - 1 BY <1>0, <2>2
  <2> HIDE DEF a
  <2> QED BY <2>2, <2>3, <2>4
<1>2. /\ b \in Seq(S) /\ Len(b) = n - i /\ \A j \in 1..n - i : b[j] = s[i + j]
  <2>1. \A j \in i + 1..n : s[j] \in S BY <1>0, ElementOfSeq
  <2>2. /\ b \in Seq(S) /\ Len(b) = IF i + 1 <= n THEN n - (i + 1) + 1 ELSE 0
        /\ \A j \in 1..n - (i + 1) + 1 : b[j] = s[i + 1 + j - 1]
    BY <1>0, <2>1, SubSeqProperties
  <2>3. \A j \in 1..n - i : j \in 1..n - (i + 1) + 1 /\ i + 1 + j - 1 = i + j BY <1>0
  <2>4. Len(b) = n - i BY <1>0, <2>2
  <2> HIDE DEF b
  <2> QED BY <2>2, <2>3, <2>4
<1>3. RemoveAt(s, i) = a \o b BY DEF RemoveAt
<1> HIDE DEF a, b
<1>4. /\ a \o b \in Seq(S) /\ Len(a \o b) = Len(a) + Len(b)
      /\ \A j \in 1..Len(a) + Len(b) : (a \o b)[j] = IF j <= Len(a) THEN a[j] ELSE b[j - Len(a)]
  BY <1>1, <1>2, ConcatProperties
<1>5. Len(a) + Len(b) = n - 1 BY <1>0, <1>1, <1>2
<1>6. ASSUME NEW j \in 1..n - 1
      PROVE  (a \o b)[j] = IF j < i THEN s[j] ELSE s[j + 1]
  <2>1. (a \o b)[j] = IF j <= Len(a) THEN a[j] ELSE b[j - Len(a)] BY <1>4, <1>5
  <2>2. CASE j < i
    <3>1. j <= Len(a) /\ j \in 1..i - 1 BY <1>0, <1>1, <2>2
    <3> QED BY <1>1, <2>1, <2>2, <3>1
  <2>3. CASE ~ (j < i)
    <3>1. ~ (j <= Len(a)) /\ j - Len(a) \in 1..n - i /\ i + (j - Len(a)) = j + 1
      BY <1>0, <1>1, <2>3
    <3> QED BY <1>2, <2>1, <2>3, <3>1
  <2> QED BY <2>2, <2>3
<1> QED BY <1>3, <1>4, <1>5, <1>6

\* Who is left of different nodes when the one at i is removed.
LEMMA RemoveOne ==
  ASSUME NEW S, NEW s \in Seq(S), NEW i \in 1..Len(s), IsInjective(s)
  PROVE  IsInjective(RemoveAt(s, i)) /\ ToSet(RemoveAt(s, i)) = ToSet(s) \ {s[i]}
<1> DEFINE n == Len(s)
           r == RemoveAt(s, i)
<1>0. n \in Nat /\ i \in 1..n /\ DOMAIN s = 1..n BY LenProperties
<1>1. /\ r \in Seq(S) /\ Len(r) = n - 1
      /\ \A j \in 1..n - 1 : r[j] = IF j < i THEN s[j] ELSE s[j + 1]
  BY RemoveFacts
<1>2. DOMAIN r = 1..n - 1 BY <1>1, LenProperties
<1> HIDE DEF r, n
<1>3. \A j, k \in 1..n : s[j] = s[k] => j = k BY <1>0 DEF IsInjective
<1>4. IsInjective(r) BY <1>0, <1>1, <1>2, <1>3 DEF IsInjective
<1>5. ASSUME NEW x \in ToSet(r) PROVE x \in ToSet(s) \ {s[i]}
  <2>1. PICK j \in 1..n - 1 : x = r[j] BY <1>2 DEF ToSet
  <2>2. PICK k \in 1..n : k # i /\ x = s[k] BY <1>0, <1>1, <2>1
  <2> QED BY <1>0, <1>3, <2>2 DEF ToSet
<1>6. ASSUME NEW x \in ToSet(s) \ {s[i]} PROVE x \in ToSet(r)
  <2>1. PICK j \in 1..n : x = s[j] /\ j # i BY <1>0 DEF ToSet
  <2>2. CASE j < i
    <3>1. j \in 1..n - 1 BY <1>0, <2>2
    <3>2. r[j] = x BY <1>1, <2>1, <2>2, <3>1
    <3> QED BY <1>2, <3>1, <3>2 DEF ToSet
  <2>3. CASE ~ (j < i)
    <3> DEFINE k == j - 1
    <3>1. k \in 1..n - 1 /\ ~ (k < i) /\ k + 1 = j BY <1>0, <2>1, <2>3
    <3> HIDE DEF k
    <3>2. r[k] = x BY <1>1, <2>1, <3>1
    <3> QED BY <1>2, <3>1, <3>2 DEF ToSet
  <2> QED BY <2>2, <2>3
<1> QED BY <1>4, <1>5, <1>6 DEF r

LEMMA AppendOne ==
  ASSUME NEW S, NEW s \in Seq(S), NEW e \in S
  PROVE  /\ ToSet(Append(s, e)) = ToSet(s) \cup {e}
         /\ IsInjective(s) /\ e \notin ToSet(s) => IsInjective(Append(s, e))
<1> DEFINE n == Len(s)
           r == Append(s, e)
<1>0. n \in Nat /\ DOMAIN s = 1..n BY LenProperties
<1>1. /\ r \in Seq(S) /\ Len(r) = n + 1
      /\ \A i \in 1..n : r[i] = s[i]
      /\ r[n + 1] = e
  BY AppendProperties
<1>2. DOMAIN r = 1..n + 1 BY <1>1, LenProperties
<1> HIDE DEF r, n
<1>3. ToSet(r) = ToSet(s) \cup {e}
  <2>1. ASSUME NEW x \in ToSet(r) PROVE x \in ToSet(s) \cup {e}
    <3>1. PICK j \in 1..n + 1 : x = r[j] BY <1>2 DEF ToSet
    <3>2. j \in 1..n \/ j = n + 1 BY <1>0
    <3> QED BY <1>0, <1>1, <3>1, <3>2 DEF ToSet
  <2>2. \A i \in 1..n : i \in 1..n + 1 BY <1>0
  <2>3. n + 1 \in 1..n + 1 BY <1>0
  <2>4. ToSet(s) \cup {e} \subseteq ToSet(r) BY <1>0, <1>1, <1>2, <2>2, <2>3 DEF ToSet
  <2> QED BY <2>1, <2>4
<1>4. ASSUME IsInjective(s), e \notin ToSet(s) PROVE IsInjective(r)
  <2>1. \A i \in 1..n : r[i] = s[i] /\ s[i] # e BY <1>0, <1>1, <1>4 DEF ToSet
  <2>2. \A i \in 1..n + 1 : i \in 1..n \/ i = n + 1 BY <1>0
  <2>3. \A i, j \in 1..n : s[i] = s[j] => i = j BY <1>0, <1>4 DEF IsInjective
  <2> QED BY <1>1, <1>2, <2>1, <2>2, <2>3 DEF IsInjective
<1> QED BY <1>3, <1>4 DEF r

LEMMA FreshFacts ==
  ASSUME NEW k \in Nat
  PROVE  /\ Fresh(k) \in [next : Seq(Nat \ {0}), match : Seq(Nat)]
         /\ Len(Fresh(k).next) = k + 1 /\ Len(Fresh(k).match) = k + 1
         /\ \A i \in 1..k + 1 : Fresh(k).match[i] = 0
<1> DEFINE a == [i \in 1..k + 1 |-> 1]
           b == [i \in 1..k + 1 |-> 0]
<1>1. a \in Seq(Nat \ {0}) /\ Len(a) = k + 1 OBVIOUS
<1>2. b \in Seq(Nat) /\ Len(b) = k + 1 OBVIOUS
<1>3. \A i \in 1..k + 1 : b[i] = 0 OBVIOUS
<1>4. Fresh(k) = [next |-> a, match |-> b] BY DEF Fresh
<1> HIDE DEF a, b
<1> QED BY <1>1, <1>2, <1>3, <1>4

LEMMA VectorFacts ==
  ASSUME TypeInv, VectorsAligned
  PROVE  /\ peers \in Seq(Id) /\ Len(peers) \in Nat /\ DOMAIN peers = 1..Len(peers)
         /\ ls # Nil =>
              /\ ls \in [next : Seq(Nat \ {0}), match : Seq(Nat)]
              /\ ls.next \in Seq(Nat \ {0}) /\ Len(ls.next) = Len(peers) + 1
              /\ ls.match \in Seq(Nat) /\ Len(ls.match) = Len(peers) + 1
              /\ \A i \in 1..Len(peers) + 1 : ls.next[i] \in Nat \ {0} /\ ls.match[i] \in Nat
<1>1. peers \in Seq(Id) BY DEF TypeInv, NodeTypes
<1>2. Len(peers) \in Nat /\ DOMAIN peers = 1..Len(peers) BY <1>1, LenProperties
<1>3. ASSUME ls # Nil
      PROVE  /\ ls \in [next : Seq(Nat \ {0}), match : Seq(Nat)]
             /\ ls.next \in Seq(Nat \ {0}) /\ Len(ls.next) = Len(peers) + 1
             /\ ls.match \in Seq(Nat) /\ Len(ls.match) = Len(peers) + 1
             /\ \A i \in 1..Len(peers) + 1 : ls.next[i] \in Nat \ {0} /\ ls.match[i] \in Nat
  <2>1. /\ ls \in [next : Seq(Nat \ {0}), match : Seq(Nat)]
        /\ ls.next \in Seq(Nat \ {0}) /\ ls.match \in Seq(Nat)
    BY <1>3 DEF TypeInv, NodeTypes
  <2>2. Len(ls.next) = Len(peers) + 1 /\ Len(ls.match) = Len(peers) + 1
    BY <1>3 DEF VectorsAligned
  <2>3. \A i \in 1..Len(peers) + 1 : ls.next[i] \in Nat \ {0} /\ ls.match[i] \in Nat
    BY <2>1, <2>2, ElementOfSeq
  <2> QED BY <2>1, <2>2, <2>3
<1> QED BY <1>1, <1>2, <1>3

\* What a call has read when it is past the checks.
LEMMA CallShape ==
  ASSUME NodeTypes, NEW c \in Caller, Busy(c)
  PROVE  /\ call[c] \in Adding \cup Removing /\ call[c].id \in Asked
         /\ call[c].op = "add" => call[c] \in Adding
         /\ call[c].op = "remove" => call[c] \in Removing /\ call[c].idx \in Nat \ {0}
<1>1. call[c] \in {Idle} \cup Adding \cup Removing BY DEF NodeTypes
<1>2. call[c] # Idle BY DEF Busy, Idle
<1> QED BY <1>1, <1>2 DEF Adding, Removing

-----------------------------------------------------------------------------
(* Types and slots. *)

Aligned == TypeInv /\ VectorsAligned

\* A call goes on, or ends, and touches neither the peers nor the vectors.
LEMMA CallAligned ==
  ASSUME Aligned, NEW c \in Caller, NEW r \in {Idle} \cup Adding \cup Removing,
         call' = [call EXCEPT ![c] = r], changing' \in BOOLEAN,
         UNCHANGED <<node, peers, ls, beat, holds, counted>>
  PROVE  Aligned'
<1>1. UNCHANGED <<role, term, log, commit, loop, count, appends, round>> BY DEF node, beat
<1>2. NodeTypes' BY <1>1 DEF Aligned, TypeInv, NodeTypes
<1>3. BeatTypes' BY <1>1 DEF Aligned, TypeInv, BeatTypes
<1> QED BY <1>2, <1>3 DEF Aligned, TypeInv, VectorsAligned

LEMMA CheckAligned ==
  ASSUME Aligned, NEW c \in Caller, AddNode(c) \/ RemoveNode(c)
  PROVE  /\ Aligned'
         /\ \E r \in Adding \cup Removing :
              /\ r.at = "checked" /\ call' = [call EXCEPT ![c] = r]
              /\ r.op = "add" => r.id \notin ToSet(peers)
              /\ r.op = "remove" => r.idx \in 1..Len(peers) /\ peers[r.idx] = r.id
<1>1. ASSUME NEW op, NEW id, NEW idx, Check(c, op, id, idx)
      PROVE  /\ call' = [call EXCEPT ![c] = [at |-> "checked", op |-> op, id |-> id, idx |-> idx]]
             /\ UNCHANGED <<node, peers, changing, ls, beat, holds, counted>>
  BY <1>1 DEF Check
<1>2. changing \in BOOLEAN BY DEF Aligned, TypeInv, NodeTypes
<1>3. CASE AddNode(c)
  <2>1. PICK id \in Asked \ ToSet(peers) : Check(c, "add", id, 0) BY <1>3 DEF AddNode
  <2> DEFINE r == [at |-> "checked", op |-> "add", id |-> id, idx |-> 0]
  <2>2. r \in Adding /\ r.at = "checked" /\ r.op = "add" /\ r.id \notin ToSet(peers)
    BY DEF Adding
  <2>3. call' = [call EXCEPT ![c] = r] BY <1>1, <2>1
  <2>4. UNCHANGED <<node, peers, changing, ls, beat, holds, counted>> BY <1>1, <2>1
  <2> HIDE DEF r
  <2>5. Aligned' BY <1>2, <2>2, <2>3, <2>4, CallAligned
  <2> QED BY <2>2, <2>3, <2>5
<1>4. CASE RemoveNode(c)
  <2>0. PICK id \in Asked : \E i \in PositionOf(id) : Check(c, "remove", id, i)
    BY <1>4 DEF RemoveNode
  <2>1. PICK i \in PositionOf(id) : Check(c, "remove", id, i) BY <2>0
  <2> DEFINE r == [at |-> "checked", op |-> "remove", id |-> id, idx |-> i]
  <2>2. i \in 1..Len(peers) /\ i \in Nat \ {0} /\ peers[i] = id
    BY VectorFacts DEF Aligned, PositionOf
  <2>3. r \in Removing /\ r.at = "checked" /\ r.op = "remove" /\ r.id = id /\ r.idx = i
    BY <2>2 DEF Removing
  <2>4. call' = [call EXCEPT ![c] = r] BY <1>1, <2>1
  <2>5. UNCHANGED <<node, peers, changing, ls, beat, holds, counted>> BY <1>1, <2>1
  <2> HIDE DEF r
  <2>6. Aligned' BY <1>2, <2>3, <2>4, <2>5, CallAligned
  <2> QED BY <2>2, <2>3, <2>4, <2>6
<1> QED BY <1>3, <1>4

\* Mark, Finish, GiveUp, RemovePanics: what they make of a call.
LEMMA GoesAligned ==
  ASSUME Aligned, NEW c \in Caller,
         Mark(c) \/ Finish(c) \/ GiveUp(c) \/ RemovePanics(c)
  PROVE  Aligned'
<1>1. \A r \in {Idle} \cup Adding \cup Removing :
        \A where \in {"marked", "applied"} :
          r.at # "idle" => [r EXCEPT !.at = where] \in Adding \cup Removing
  BY DEF Idle, Adding, Removing
<1>2. call[c] \in {Idle} \cup Adding \cup Removing /\ changing \in BOOLEAN
  BY DEF Aligned, TypeInv, NodeTypes
<1>3. CASE Mark(c)
  <2> DEFINE r == [call[c] EXCEPT !.at = "marked"]
  <2>1. call' = [call EXCEPT ![c] = r] BY <1>3 DEF Mark, Goes
  <2>2. r \in Adding \cup Removing BY <1>1, <1>2, <1>3 DEF Mark
  <2>3. changing' \in BOOLEAN /\ UNCHANGED <<node, peers, ls, beat, holds, counted>>
    BY <1>3 DEF Mark
  <2> HIDE DEF r
  <2> QED BY <2>1, <2>2, <2>3, CallAligned
<1>4. CASE Finish(c) \/ GiveUp(c) \/ RemovePanics(c)
  <2>1. /\ call' = [call EXCEPT ![c] = Idle] /\ changing' \in BOOLEAN
        /\ UNCHANGED <<node, peers, ls, beat, holds, counted>>
    BY <1>2, <1>4 DEF Finish, GiveUp, RemovePanics
  <2> QED BY <2>1, CallAligned
<1> QED BY <1>3, <1>4

\* The peers and the vectors change together.
LEMMA PeersAligned ==
  ASSUME Aligned, NEW c \in Caller, NEW v, call[c].at = "marked", Goes(c, "applied"),
         peers' \in Seq(Id),
         ls' = IF ls = Nil THEN Nil ELSE v,
         ls # Nil => /\ v \in [next : Seq(Nat \ {0}), match : Seq(Nat)]
                     /\ Len(v.next) = Len(peers') + 1 /\ Len(v.match) = Len(peers') + 1,
         UNCHANGED <<node, changing, beat, holds, counted>>
  PROVE  Aligned'
<1>1. UNCHANGED <<role, term, log, commit, loop, count, appends, round>> BY DEF node, beat
<1>2. call' \in [Caller -> {Idle} \cup Adding \cup Removing]
  <2>1. Busy(c) BY DEF Busy
  <2>2. call[c] \in Adding \cup Removing BY <2>1, CallShape DEF Aligned, TypeInv
  <2>3. [call[c] EXCEPT !.at = "applied"] \in Adding \cup Removing
    BY <2>2 DEF Adding, Removing
  <2>4. call' = [call EXCEPT ![c] = [call[c] EXCEPT !.at = "applied"]] BY DEF Goes
  <2> QED BY <2>3, <2>4 DEF Aligned, TypeInv, NodeTypes
<1>3. NodeTypes' BY <1>1, <1>2 DEF Aligned, TypeInv, NodeTypes
<1>4. BeatTypes' BY <1>1 DEF Aligned, TypeInv, BeatTypes
<1>5. VectorsAligned' BY DEF VectorsAligned
<1> QED BY <1>3, <1>4, <1>5 DEF Aligned, TypeInv

LEMMA ApplyAddAligned ==
  ASSUME Aligned, NEW c \in Caller, ApplyAdd(c)
  PROVE  Aligned' /\ Len(peers') = Len(peers) + 1
<1> DEFINE v == Pushed(ls, Len(log))
<1>1. Len(log) + 1 \in Nat \ {0}
  <2>1. log \in Seq(Nat) BY DEF Aligned, TypeInv, NodeTypes
  <2>2. Len(log) \in Nat BY <2>1, LenProperties
  <2> QED BY <2>2
<1>2. Busy(c) BY DEF ApplyAdd, Busy
<1>3. call[c].id \in Id BY <1>2, CallShape DEF Aligned, TypeInv, Id
<1>4. peers' = Append(peers, call[c].id) BY DEF ApplyAdd
<1>5. peers' \in Seq(Id) /\ Len(peers') = Len(peers) + 1
  BY <1>3, <1>4, VectorFacts, AppendProperties DEF Aligned
<1>6. ASSUME ls # Nil
      PROVE  /\ v \in [next : Seq(Nat \ {0}), match : Seq(Nat)]
             /\ Len(v.next) = Len(peers') + 1 /\ Len(v.match) = Len(peers') + 1
  <2>1. /\ Append(ls.next, Len(log) + 1) \in Seq(Nat \ {0})
        /\ Len(Append(ls.next, Len(log) + 1)) = Len(peers) + 1 + 1
    BY <1>1, <1>6, VectorFacts, AppendProperties DEF Aligned
  <2>2. Append(ls.match, 0) \in Seq(Nat) /\ Len(Append(ls.match, 0)) = Len(peers) + 1 + 1
    BY <1>6, VectorFacts, AppendProperties DEF Aligned
  <2> QED BY <1>5, <2>1, <2>2 DEF Pushed
<1>7. /\ ls' = (IF ls = Nil THEN Nil ELSE v) /\ call[c].at = "marked" /\ Goes(c, "applied")
      /\ UNCHANGED <<node, changing, beat, holds, counted>>
  BY DEF ApplyAdd
<1> HIDE DEF v
<1> QED BY <1>5, <1>6, <1>7, PeersAligned

LEMMA ApplyRemoveAligned ==
  ASSUME Aligned, NEW c \in Caller, ApplyRemove(c)
  PROVE  Aligned' /\ call[c].idx \in 1..Len(peers) /\ Len(peers') = Len(peers) - 1
<1> DEFINE i == call[c].idx
           v == Pulled(ls, i)
<1>1. Busy(c) BY DEF ApplyRemove, Busy
<1>2. i \in 1..Len(peers) /\ i \in Nat
  BY <1>1, CallShape, VectorFacts DEF ApplyRemove, Aligned, TypeInv
<1>3. peers' = RemoveAt(peers, i) BY DEF ApplyRemove
<1>7. /\ ls' = (IF ls = Nil THEN Nil ELSE v) /\ call[c].at = "marked" /\ Goes(c, "applied")
      /\ UNCHANGED <<node, changing, beat, holds, counted>>
  BY DEF ApplyRemove
<1> HIDE DEF i
<1>4. peers' \in Seq(Id) /\ Len(peers') = Len(peers) - 1
  BY <1>2, <1>3, VectorFacts, RemoveFacts DEF Aligned
<1>5. i + 1 \in 1..Len(peers) + 1 /\ Len(peers) \in Nat BY <1>2, VectorFacts DEF Aligned
<1>6. ASSUME ls # Nil
      PROVE  /\ v \in [next : Seq(Nat \ {0}), match : Seq(Nat)]
             /\ Len(v.next) = Len(peers') + 1 /\ Len(v.match) = Len(peers') + 1
  <2>0. /\ ls.next \in Seq(Nat \ {0}) /\ i + 1 \in 1..Len(ls.next)
        /\ ls.match \in Seq(Nat) /\ i + 1 \in 1..Len(ls.match)
        /\ Len(ls.next) = Len(peers) + 1 /\ Len(ls.match) = Len(peers) + 1
    BY <1>5, <1>6, VectorFacts DEF Aligned
  <2>1. /\ RemoveAt(ls.next, i + 1) \in Seq(Nat \ {0})
        /\ Len(RemoveAt(ls.next, i + 1)) = Len(peers) + 1 - 1
    BY <2>0, RemoveFacts
  <2>2. /\ RemoveAt(ls.match, i + 1) \in Seq(Nat)
        /\ Len(RemoveAt(ls.match, i + 1)) = Len(peers) + 1 - 1
    BY <2>0, RemoveFacts
  <2> QED BY <1>4, <1>5, <2>1, <2>2 DEF Pulled
<1> HIDE DEF v
<1>8. Aligned' BY <1>4, <1>6, <1>7, PeersAligned
<1> QED BY <1>2, <1>4, <1>8 DEF i

LEMMA RoleAligned ==
  ASSUME Aligned, BecomeLeader \/ StepDown \/ AppendEntry
  PROVE  Aligned'
<1>1. UNCHANGED <<peers, changing, call, loop, count, appends, round, holds, counted>>
  BY DEF BecomeLeader, StepDown, AppendEntry, member, beat
<1>2. BeatTypes' BY <1>1 DEF Aligned, TypeInv, BeatTypes
<1>3. CASE BecomeLeader
  <2>1. ls' = Fresh(Len(peers)) BY <1>3 DEF BecomeLeader
  <2>2. /\ ls' \in [next : Seq(Nat \ {0}), match : Seq(Nat)]
        /\ Len(ls'.next) = Len(peers) + 1 /\ Len(ls'.match) = Len(peers) + 1
    BY <2>1, VectorFacts, FreshFacts DEF Aligned
  <2>3. NodeTypes' BY <1>1, <1>3, <2>2 DEF BecomeLeader, Aligned, TypeInv, NodeTypes
  <2> QED BY <1>1, <1>2, <2>2, <2>3 DEF Aligned, TypeInv, VectorsAligned
<1>4. CASE StepDown
  <2>1. NodeTypes' BY <1>1, <1>4 DEF StepDown, Aligned, TypeInv, NodeTypes
  <2> QED BY <1>1, <1>2, <1>4, <2>1 DEF StepDown, Aligned, TypeInv, VectorsAligned
<1>5. CASE AppendEntry
  <2>1. log' \in Seq(Nat)
    BY <1>5, AppendProperties DEF AppendEntry, Aligned, TypeInv, NodeTypes
  <2>2. NodeTypes' BY <1>1, <1>5, <2>1 DEF AppendEntry, Aligned, TypeInv, NodeTypes
  <2> QED BY <1>1, <1>2, <1>5, <2>2 DEF AppendEntry, Aligned, TypeInv, VectorsAligned
<1> QED BY <1>3, <1>4, <1>5

LEMMA LoopShape ==
  ASSUME BeatTypes
  PROVE  /\ loop.at \in {"idle", "sent", "dead", "sending"}
         /\ loop.at = "sending" => loop.next \in Seq(Nat \ {0}) /\ Len(loop.next) \in Nat
                                   /\ \A i \in 1..Len(loop.next) : loop.next[i] \in Nat \ {0}
<1>1. /\ loop.at \in {"idle", "sent", "dead", "sending"}
      /\ loop.at = "sending" => loop.next \in Seq(Nat \ {0})
  BY DEF BeatTypes
<1> QED BY <1>1, LenProperties, ElementOfSeq

\* What a heartbeat sends, and to whom.
LEMMA SendFacts ==
  ASSUME Aligned, Send
  PROVE  \A a \in appends' \ appends :
           /\ a \in Appends /\ a.to = Peers[a.idx - 1] /\ a.round = round + 1
           /\ \E i \in DOMAIN Peers :
                a = [idx |-> i + 1, to |-> Peers[i], round |-> round + 1,
                     next |-> loop.next[i + 1], upto |-> Len(log)]
<1>1. /\ loop.at = "sending" /\ round' = round + 1
      /\ appends' = appends \cup
           {[idx |-> SlotOf(i), to |-> Peers[i], round |-> round',
             next |-> loop.next[SlotOf(i)], upto |-> Len(log)] : i \in Reached}
  BY DEF Send
<1>2. /\ loop.next \in Seq(Nat \ {0}) /\ Len(loop.next) \in Nat /\ round \in Nat
      /\ \A i \in 1..Len(loop.next) : loop.next[i] \in Nat \ {0}
      /\ log \in Seq(Nat) /\ Len(log) \in Nat
  BY <1>1, LoopShape, LenProperties DEF Aligned, TypeInv, BeatTypes, NodeTypes
<1> TAKE a \in appends' \ appends
<1>3. PICK i \in Reached :
        a = [idx |-> SlotOf(i), to |-> Peers[i], round |-> round',
             next |-> loop.next[SlotOf(i)], upto |-> Len(log)]
  BY <1>1
<1>4. i \in DOMAIN Peers /\ i \in 1..Len(Peers) /\ i + 1 <= Len(loop.next)
  BY <1>3, PeersFacts DEF Reached, SlotOf
<1>5. a = [idx |-> i + 1, to |-> Peers[i], round |-> round + 1,
           next |-> loop.next[i + 1], upto |-> Len(log)]
  BY <1>1, <1>3 DEF SlotOf
<1>6. i + 1 \in Slots /\ i + 1 \in 1..Len(loop.next) /\ i + 1 - 1 = i
  BY <1>2, <1>4, PeersFacts DEF Slots
<1>7. loop.next[i + 1] \in Nat \ {0} BY <1>2, <1>6
<1>8. Peers[i] \in ToSet(Peers) BY <1>4 DEF ToSet
<1>9. a \in Appends
  <2>1. round + 1 \in Nat BY <1>2
  <2> QED BY <1>2, <1>5, <1>6, <1>7, <1>8, <2>1 DEF Appends
<1>10. a.to = Peers[a.idx - 1] /\ a.round = round + 1
  <2>1. a.idx = i + 1 /\ a.to = Peers[i] /\ a.round = round + 1 BY <1>5
  <2>2. i \in Int BY <1>2, <1>4, PeersFacts
  <2>3. a.idx - 1 = i BY <2>1, <2>2
  <2> QED BY <2>1, <2>3
<1> QED BY <1>4, <1>5, <1>9, <1>10

\* Numbers within bounds have a largest one.
LEMMA CommitLargest ==
  ASSUME NEW lo \in Nat, NEW hi \in Nat, NEW S \in SUBSET (lo..hi), S # {}
  PROVE  \E n \in S : \A m \in S : m <= n
<1> DEFINE D == {d \in Nat : \E x \in S : d = hi - x}
<1>1. \A x \in S : x \in Nat /\ x <= hi /\ hi - x \in D OBVIOUS
<1>2. D \in SUBSET Nat /\ D # {} BY <1>1
<1>3. PICK d \in D : \A e \in D : ~ (<<e, d>> \in OpToRel(<, Nat))
  <2> HIDE DEF D
  <2> QED BY <1>2, NatLessThanWellFounded, WFMin
<1>4. PICK x \in S : d = hi - x OBVIOUS
<1>5. ASSUME NEW y \in S PROVE y <= x
  <2>1. hi - y \in D /\ ~ (hi - y < d) BY <1>1, <1>3 DEF OpToRel
  <2>2. x \in Nat /\ y \in Nat /\ hi \in Nat BY <1>1
  <2> QED BY <1>4, <2>1, <2>2
<1> QED BY <1>5

LEMMA BeatAligned ==
  ASSUME Aligned, BeginHeartbeat \/ Send \/ UpdateCommit
  PROVE  Aligned'
<1>1. /\ UNCHANGED <<role, term, log, peers, changing, call, ls, holds>>
  BY DEF BeginHeartbeat, Send, UpdateCommit, node, member
<1>2. VectorsAligned' BY <1>1 DEF Aligned, VectorsAligned
<1>3. commit' \in Nat /\ (commit' # commit => UpdateCommit)
  <2>1. commit \in Nat BY DEF Aligned, TypeInv, NodeTypes
  <2>2. CASE BeginHeartbeat \/ Send BY <2>1, <2>2 DEF BeginHeartbeat, Send, node
  <2>3. CASE UpdateCommit
    <3> DEFINE new == {n \in commit + 1..Len(log) : Committable(n)}
    <3>1. commit' = commit \/ (new # {} /\ commit' = CHOOSE n \in new : \A m \in new : m <= n)
      BY <2>3 DEF UpdateCommit
    <3>2. log \in Seq(Nat) BY DEF Aligned, TypeInv, NodeTypes
    <3>3. Len(log) \in Nat BY <3>2, LenProperties
    <3>4. new \subseteq Nat BY <2>1, <3>3
    <3>5. new # {} => \E n \in new : \A m \in new : m <= n 
      <4>1. commit + 1 \in Nat /\ new \in SUBSET (commit + 1..Len(log)) BY <2>1
      <4> HIDE DEF new
      <4> QED BY <3>3, <4>1, CommitLargest
    <3> HIDE DEF new
    <3> QED BY <2>1, <2>3, <3>1, <3>4, <3>5
  <2> QED BY <2>2, <2>3
<1>4. NodeTypes' BY <1>1, <1>3 DEF Aligned, TypeInv, NodeTypes
<1>5. BeatTypes'
  <2>1. CASE BeginHeartbeat
    <3>1. ls # Nil /\ loop' = [at |-> "sending", next |-> ls.next]
          /\ UNCHANGED <<count, appends, round, counted>>
      BY <2>1 DEF BeginHeartbeat
    <3>2. ls.next \in Seq(Nat \ {0}) BY <3>1, VectorFacts DEF Aligned
    <3>3. loop' \in [at : {"sending"}, next : Seq(Nat \ {0})] BY <3>1, <3>2
    <3> QED BY <1>1, <3>1, <3>3 DEF Aligned, TypeInv, BeatTypes
  <2>2. CASE Send
    <3>1. /\ round' = round + 1 /\ count' = 1 /\ counted' = {}
          /\ loop' \in [at : {"idle", "sent", "dead"}]
      BY <2>2 DEF Send, Counted
    <3>2. round' \in Nat BY <3>1 DEF Aligned, TypeInv, BeatTypes
    <3>3. appends' \subseteq Appends /\ \A a \in appends' : a.to = Peers[a.idx - 1]
      BY <2>2, SendFacts DEF Aligned, TypeInv, BeatTypes
    <3> QED BY <1>1, <3>1, <3>2, <3>3, FS_EmptySet DEF Aligned, TypeInv, BeatTypes
  <2>3. CASE UpdateCommit
    <3>1. loop' \in [at : {"idle", "sent", "dead"}] /\ UNCHANGED <<count, appends, round, counted>>
      BY <2>3 DEF UpdateCommit
    <3> QED BY <1>1, <3>1 DEF Aligned, TypeInv, BeatTypes
  <2> QED BY <2>1, <2>2, <2>3
<1> QED BY <1>2, <1>4, <1>5 DEF Aligned, TypeInv

LEMMA AppendFacts ==
  ASSUME Aligned, NEW a \in appends
  PROVE  /\ a.idx \in Slots /\ a.idx \in Nat \ {0, 1} /\ a.to \in ToSet(Peers)
         /\ a.to = Peers[a.idx - 1] /\ a.round \in Nat /\ holds[a.to] \in Nat
         /\ Stored(a) \in Nat /\ Stored(a) >= holds[a.to]
<1>1. a \in Appends /\ a.to = Peers[a.idx - 1] /\ holds \in [ToSet(Peers) -> Nat]
  BY DEF Aligned, TypeInv, BeatTypes
<1>2. /\ a.idx \in Slots /\ a.to \in ToSet(Peers) /\ a.round \in Nat /\ a.upto \in Nat
      /\ holds[a.to] \in Nat
  BY <1>1 DEF Appends
<1>3. a.idx \in Nat \ {0, 1} BY <1>2, PeersFacts DEF Slots
<1>4. Stored(a) \in Nat /\ Stored(a) >= holds[a.to] BY <1>2 DEF Stored
<1> QED BY <1>1, <1>2, <1>3, <1>4

LEMMA AnswerAligned ==
  ASSUME Aligned, NEW a \in appends, AnswerSuccess(a) \/ AnswerFailure(a) \/ AnswerPanics(a)
  PROVE  Aligned'
<1>1. /\ UNCHANGED <<role, term, log, commit, peers, changing, call, loop, round>>
      /\ appends' = appends \ {a}
  BY DEF AnswerSuccess, AnswerFailure, AnswerPanics, node, member
<1>2. /\ a.idx \in Nat \ {0, 1} /\ a.to \in ToSet(Peers) /\ Stored(a) \in Nat /\ a.idx \in Slots
      /\ a.round \in Nat /\ round \in Nat
  BY AppendFacts DEF Aligned, TypeInv, BeatTypes
<1>3. ASSUME holds' \in [ToSet(Peers) -> Nat], count' \in Nat,
             counted' \subseteq Counts, IsFiniteSet(counted')
      PROVE  BeatTypes'
  BY <1>1, <1>3 DEF Aligned, TypeInv, BeatTypes
<1>4. CASE AnswerSuccess(a)
  <2> DEFINE n == [ls.next EXCEPT ![a.idx] = Stored(a) + 1]
             m == [ls.match EXCEPT ![a.idx] = Stored(a)]
             r == [slot |-> a.idx, round |-> a.round, late |-> a.round < round]
  <2>1. /\ ls # Nil /\ a.idx <= Len(ls.match) /\ ls' = [next |-> n, match |-> m]
        /\ holds' = [holds EXCEPT ![a.to] = Stored(a)]
        /\ count' = count + 1 /\ counted' = counted \cup {r}
    BY <1>4 DEF AnswerSuccess
  <2>2. a.idx \in 1..Len(peers) + 1 BY <1>2, <2>1, VectorFacts DEF Aligned
  <2>3. n \in Seq(Nat \ {0}) /\ Len(n) = Len(peers) + 1
    <3>1. Stored(a) + 1 \in Nat \ {0} BY <1>2
    <3> QED BY <2>1, <2>2, <3>1, VectorFacts, ExceptSeq DEF Aligned
  <2>4. m \in Seq(Nat) /\ Len(m) = Len(peers) + 1
    BY <1>2, <2>1, <2>2, VectorFacts, ExceptSeq DEF Aligned
  <2>5. r \in Counts BY <1>2 DEF Counts
  <2> HIDE DEF n, m, r
  <2>6. NodeTypes' BY <1>1, <2>1, <2>3, <2>4 DEF Aligned, TypeInv, NodeTypes
  <2>7. IsFiniteSet(counted') /\ counted' \subseteq Counts
    BY <2>1, <2>5, FS_AddElement DEF Aligned, TypeInv, BeatTypes
  <2>8. holds' \in [ToSet(Peers) -> Nat] /\ count' \in Nat
    BY <1>2, <2>1 DEF Aligned, TypeInv, BeatTypes
  <2>9. BeatTypes' BY <1>3, <2>7, <2>8
  <2>10. VectorsAligned' BY <1>1, <2>1, <2>3, <2>4 DEF VectorsAligned
  <2> QED BY <2>6, <2>9, <2>10 DEF Aligned, TypeInv
<1>5. CASE AnswerFailure(a)
  <2>1. /\ ls # Nil /\ a.idx <= Len(ls.next) /\ UNCHANGED <<count, holds, counted>>
        /\ ls' = [ls EXCEPT !.next[a.idx] = Retreat(ls.next[a.idx])]
    BY <1>5 DEF AnswerFailure
  <2> DEFINE n == [ls.next EXCEPT ![a.idx] = Retreat(ls.next[a.idx])]
  <2>2. a.idx \in 1..Len(peers) + 1 BY <1>2, <2>1, VectorFacts DEF Aligned
  <2>3. Retreat(ls.next[a.idx]) \in Nat \ {0}
    BY <2>1, <2>2, VectorFacts DEF Aligned, Retreat
  <2>4. n \in Seq(Nat \ {0}) /\ Len(n) = Len(peers) + 1
    BY <2>1, <2>2, <2>3, VectorFacts, ExceptSeq DEF Aligned
  <2>5. ls' = [ls EXCEPT !.next = n] BY <2>1
  <2> HIDE DEF n
  <2>6. /\ ls' \in [next : Seq(Nat \ {0}), match : Seq(Nat)]
        /\ ls'.next = n /\ ls'.match = ls.match
    BY <2>1, <2>4, <2>5, VectorFacts DEF Aligned
  <2>7. NodeTypes' BY <1>1, <2>6 DEF Aligned, TypeInv, NodeTypes
  <2>8. BeatTypes' BY <1>3, <2>1 DEF Aligned, TypeInv, BeatTypes
  <2>9. VectorsAligned' BY <1>1, <2>1, <2>4, <2>6 DEF Aligned, VectorsAligned
  <2> QED BY <2>7, <2>8, <2>9 DEF Aligned, TypeInv
<1>6. CASE AnswerPanics(a)
  <2>1. UNCHANGED <<ls, count, counted>> /\ holds' = [holds EXCEPT ![a.to] = Stored(a)]
    BY <1>6 DEF AnswerPanics
  <2>2. NodeTypes' BY <1>1, <2>1 DEF Aligned, TypeInv, NodeTypes
  <2>3. holds' \in [ToSet(Peers) -> Nat] BY <1>2, <2>1 DEF Aligned, TypeInv, BeatTypes
  <2>4. BeatTypes' BY <1>3, <2>1, <2>3 DEF Aligned, TypeInv, BeatTypes
  <2>5. VectorsAligned' BY <1>1, <2>1 DEF Aligned, VectorsAligned
  <2> QED BY <2>2, <2>4, <2>5 DEF Aligned, TypeInv
<1> QED BY <1>4, <1>5, <1>6

LEMMA AlignedInit == ASSUME Init PROVE Aligned
<1>1. Peers \in Seq(Id)
  <2>1. \A i \in 1..Len(Peers) : Peers[i] \in Id BY PeersFacts, ElementOfSeq DEF Id
  <2> QED BY <2>1, PeersFacts
<1>2. NodeTypes
  <2>1. <<>> \in Seq(Nat) BY EmptySeq
  <2>2. call \in [Caller -> {Idle} \cup Adding \cup Removing] BY DEF Init
  <2>3. log = <<>> /\ peers = Peers /\ ls = Nil /\ role = "Follower" /\ term = 0 /\ commit = 0
        /\ changing = FALSE
    BY DEF Init
  <2> QED BY <1>1, <2>1, <2>2, <2>3 DEF NodeTypes
<1>3. BeatTypes BY FS_EmptySet DEF Init, BeatTypes
<1>4. VectorsAligned BY DEF Init, VectorsAligned
<1> QED BY <1>2, <1>3, <1>4 DEF Aligned, TypeInv

LEMMA AlignedNext == ASSUME Aligned, [Next]_vars PROVE Aligned'
<1>1. CASE UNCHANGED vars
  <2>1. /\ UNCHANGED <<role, term, log, commit, peers, changing, call, ls>>
        /\ UNCHANGED <<loop, count, appends, round, holds, counted>>
    BY <1>1 DEF vars, node, member, beat
  <2> QED BY <2>1 DEF Aligned, TypeInv, NodeTypes, BeatTypes, VectorsAligned
<1> QED BY <1>1, CheckAligned, GoesAligned, ApplyAddAligned, ApplyRemoveAligned, RoleAligned,
           BeatAligned, AnswerAligned DEF Next
-----------------------------------------------------------------------------
(* The flag. *)

\* Every step, in the form the lemmas below take it apart by.
Callers(c) ==
  \/ AddNode(c) \/ RemoveNode(c) \/ Mark(c) \/ ApplyAdd(c)
  \/ ApplyRemove(c) \/ RemovePanics(c) \/ Finish(c) \/ GiveUp(c)

Others ==
  \/ BecomeLeader \/ StepDown \/ AppendEntry \/ BeginHeartbeat \/ Send \/ UpdateCommit
  \/ \E a \in appends : AnswerSuccess(a) \/ AnswerFailure(a) \/ AnswerPanics(a)

LEMMA NextSplit == ASSUME [Next]_vars PROVE (\E c \in Caller : Callers(c)) \/ Others \/ UNCHANGED vars
BY DEF Next, Callers, Others

\* Nothing but the calls touches the membership.
LEMMA OthersKeep ==
  ASSUME Others \/ UNCHANGED vars
  PROVE  UNCHANGED <<peers, changing, call, asked, crowded, broken, short>>
<1>1. CASE UNCHANGED vars BY <1>1 DEF vars, member, history
<1>2. CASE BecomeLeader \/ StepDown \/ AppendEntry
  BY <1>2 DEF BecomeLeader, StepDown, AppendEntry, member, history
<1>3. CASE BeginHeartbeat \/ Send \/ UpdateCommit
  BY <1>3 DEF BeginHeartbeat, Send, UpdateCommit, member, history
<1>4. CASE \E a \in appends : AnswerSuccess(a) \/ AnswerFailure(a) \/ AnswerPanics(a)
  BY <1>4 DEF AnswerSuccess, AnswerFailure, AnswerPanics, member, history
<1> QED BY <1>1, <1>2, <1>3, <1>4 DEF Others

LEMMA FlagNext ==
  ASSUME Aligned, FlagIsTakenBack, [Next]_vars
  PROVE  FlagIsTakenBack'
<1>0. /\ call \in [Caller -> {Idle} \cup Adding \cup Removing]
      /\ \A c \in Caller : call[c] \in {Idle} \cup Adding \cup Removing
  BY DEF Aligned, TypeInv, NodeTypes
<1>1. CASE Others \/ UNCHANGED vars BY <1>1, OthersKeep DEF FlagIsTakenBack
<1>2. ASSUME NEW c \in Caller, AddNode(c) \/ RemoveNode(c) PROVE FlagIsTakenBack'
  BY <1>2 DEF AddNode, RemoveNode, Check, FlagIsTakenBack
<1>3. ASSUME NEW c \in Caller, Mark(c) \/ ApplyAdd(c) \/ ApplyRemove(c) PROVE FlagIsTakenBack'
  <2>1. Goes(c, "marked") \/ Goes(c, "applied") BY <1>3 DEF Mark, ApplyAdd, ApplyRemove
  <2>2. call'[c].at \in {"marked", "applied"}
    <3>1. call[c].at # "idle" BY <1>3 DEF Mark, ApplyAdd, ApplyRemove
    <3>2. call[c] \in Adding \cup Removing BY <1>0, <3>1 DEF Idle
    <3> QED BY <1>0, <2>1, <3>2 DEF Goes, Adding, Removing
  <2> QED BY <2>2 DEF FlagIsTakenBack
<1>4. ASSUME NEW c \in Caller, RemovePanics(c) \/ GiveUp(c) \/ Finish(c) PROVE FlagIsTakenBack'
  BY <1>4 DEF RemovePanics, GiveUp, Finish, FlagIsTakenBack
<1> QED BY <1>1, <1>2, <1>3, <1>4, NextSplit DEF Callers

-----------------------------------------------------------------------------
(* The peers. *)

\* As long as no two changes have been past the checks together, the one that is knows
\* where its node is, and the peers are what was asked for.
CallsKnow ==
  ~crowded =>
    /\ \A c, d \in Caller : Busy(c) /\ Busy(d) => c = d
    /\ \A c \in Caller : call[c].at \in {"checked", "marked"} =>
         /\ call[c].op = "add" => call[c].id \notin ToSet(peers)
         /\ call[c].op = "remove" =>
              call[c].idx \in 1..Len(peers) /\ peers[call[c].idx] = call[c].id
    /\ IsInjective(peers) /\ ToSet(peers) = asked

LEMMA CallsKnowInit == ASSUME Init PROVE CallsKnow
BY PeersAssumption DEF Init, CallsKnow, Busy, Idle

LEMMA CallsKnowCheck ==
  ASSUME Aligned, CallsKnow, NEW c \in Caller, AddNode(c) \/ RemoveNode(c)
  PROVE  CallsKnow'
<1>1. PICK r \in Adding \cup Removing :
        /\ r.at = "checked" /\ call' = [call EXCEPT ![c] = r]
        /\ r.op = "add" => r.id \notin ToSet(peers)
        /\ r.op = "remove" => r.idx \in 1..Len(peers) /\ peers[r.idx] = r.id
  BY CheckAligned
<1>2. /\ crowded' = (crowded \/ \E d \in Caller : Busy(d)) /\ ~Busy(c)
      /\ UNCHANGED <<peers, asked>>
  BY DEF AddNode, RemoveNode, Check
<1>3. call'[c] = r /\ \A d \in Caller \ {c} : call'[d] = call[d]
  BY <1>1 DEF Aligned, TypeInv, NodeTypes
<1> SUFFICES ASSUME ~crowded' PROVE CallsKnow' BY DEF CallsKnow
<1>4. ~crowded /\ \A d \in Caller : ~Busy(d) BY <1>2
<1>5. \A d \in Caller \ {c} : call'[d].at = "idle" BY <1>3, <1>4 DEF Busy
<1> QED BY <1>1, <1>2, <1>3, <1>4, <1>5 DEF CallsKnow, Busy

\* A call that ends, or goes on without touching the peers.
LEMMA CallsKnowGoes ==
  ASSUME Aligned, CallsKnow, NEW c \in Caller,
         Mark(c) \/ Finish(c) \/ GiveUp(c) \/ RemovePanics(c)
  PROVE  CallsKnow'
<1>1. UNCHANGED <<peers, asked, crowded>>
  BY DEF Mark, Finish, GiveUp, RemovePanics, history
<1>2. CASE Mark(c)
  <2>1. call' = [call EXCEPT ![c].at = "marked"] /\ call[c].at = "checked"
    BY <1>2 DEF Mark, Goes
  <2>2. call[c] \in Adding \cup Removing BY <2>1, CallShape DEF Busy, Aligned, TypeInv
  <2>3. /\ call'[c].at = "marked" /\ call'[c].op = call[c].op
        /\ call'[c].id = call[c].id /\ call'[c].idx = call[c].idx
        /\ \A d \in Caller \ {c} : call'[d] = call[d]
    BY <2>1, <2>2 DEF Aligned, TypeInv, NodeTypes, Adding, Removing
  <2>4. \A d \in Caller : Busy(d)' <=> Busy(d) BY <2>1, <2>3 DEF Busy
  <2> SUFFICES ASSUME ~crowded PROVE CallsKnow' BY <1>1 DEF CallsKnow
  <2>5. ASSUME NEW d \in Caller, call'[d].at \in {"checked", "marked"}
        PROVE  /\ call'[d].op = "add" => call'[d].id \notin ToSet(peers)
               /\ call'[d].op = "remove" =>
                    call'[d].idx \in 1..Len(peers) /\ peers[call'[d].idx] = call'[d].id
    BY <2>1, <2>3, <2>5 DEF CallsKnow
  <2> QED BY <1>1, <2>4, <2>5 DEF CallsKnow
<1>3. CASE Finish(c) \/ GiveUp(c) \/ RemovePanics(c)
  <2>1. call' = [call EXCEPT ![c] = Idle] BY <1>3 DEF Finish, GiveUp, RemovePanics
  <2>2. call'[c].at = "idle" /\ \A d \in Caller \ {c} : call'[d] = call[d]
    BY <2>1 DEF Aligned, TypeInv, NodeTypes, Idle
  <2> QED BY <1>1, <2>2 DEF CallsKnow, Busy
<1> QED BY <1>2, <1>3

LEMMA CallsKnowApply ==
  ASSUME Aligned, CallsKnow, NEW c \in Caller, ApplyAdd(c) \/ ApplyRemove(c)
  PROVE  CallsKnow'
<1> SUFFICES ASSUME ~crowded' PROVE CallsKnow' BY DEF CallsKnow
<1>1. ~crowded /\ call[c].at = "marked" /\ Goes(c, "applied") BY DEF ApplyAdd, ApplyRemove
<1>2. Busy(c) /\ call[c] \in Adding \cup Removing BY <1>1, CallShape DEF Busy, Aligned, TypeInv
<1>3. /\ call'[c].at = "applied" /\ \A d \in Caller \ {c} : call'[d] = call[d]
  BY <1>1, <1>2 DEF Goes, Aligned, TypeInv, NodeTypes, Adding, Removing
<1>4. \A d \in Caller \ {c} : call'[d].at = "idle" BY <1>1, <1>2, <1>3 DEF CallsKnow, Busy
<1>5. /\ peers \in Seq(Id) /\ call[c].id \in Id /\ IsInjective(peers) /\ ToSet(peers) = asked
      /\ call[c].op = "add" => call[c].id \notin ToSet(peers)
      /\ call[c].op = "remove" =>
           call[c].idx \in 1..Len(peers) /\ peers[call[c].idx] = call[c].id
  BY <1>1, <1>2, VectorFacts, CallShape DEF CallsKnow, Aligned, TypeInv, Id
<1>6. IsInjective(peers') /\ ToSet(peers') = asked'
  <2>1. CASE ApplyAdd(c)
    <3>1. /\ peers' = Append(peers, call[c].id) /\ asked' = asked \cup {call[c].id}
          /\ call[c].op = "add"
      BY <2>1 DEF ApplyAdd
    <3>2. /\ ToSet(Append(peers, call[c].id)) = ToSet(peers) \cup {call[c].id}
          /\ IsInjective(Append(peers, call[c].id))
      BY <1>5, <3>1, AppendOne
    <3> QED BY <1>5, <3>1, <3>2
  <2>2. CASE ApplyRemove(c)
    <3>1. /\ peers' = RemoveAt(peers, call[c].idx) /\ asked' = asked \ {call[c].id}
          /\ call[c].op = "remove"
      BY <2>2 DEF ApplyRemove
    <3>2. call[c].idx \in 1..Len(peers) /\ peers[call[c].idx] = call[c].id BY <1>5, <3>1
    <3>3. /\ IsInjective(RemoveAt(peers, call[c].idx))
          /\ ToSet(RemoveAt(peers, call[c].idx)) = ToSet(peers) \ {peers[call[c].idx]}
      BY <1>5, <3>2, RemoveOne
    <3> QED BY <1>5, <3>1, <3>2, <3>3
  <2> QED BY <2>1, <2>2
<1> QED BY <1>3, <1>4, <1>6 DEF CallsKnow, Busy

LEMMA CallsKnowNext ==
  ASSUME Aligned, CallsKnow, [Next]_vars
  PROVE  CallsKnow'
<1>1. CASE Others \/ UNCHANGED vars BY <1>1, OthersKeep DEF CallsKnow, Busy
<1> QED BY <1>1, NextSplit, CallsKnowCheck, CallsKnowGoes, CallsKnowApply DEF Callers

LEMMA CallsKnowIsAsAsked == ASSUME Aligned, CallsKnow PROVE PeersAsAsked
<1>1. \A i \in 1..Len(peers) : i <= Len(peers) BY VectorFacts DEF Aligned
<1> QED BY <1>1 DEF CallsKnow, PeersAsAsked

-----------------------------------------------------------------------------
(* The loop. *)

\* While there are enough peers, the loop has a slot for each that it sends to.
Enough ==
  ~short => /\ Len(peers) >= Len(Peers) /\ loop.at # "dead"
            /\ loop.at = "sending" => Len(loop.next) >= Len(Peers) + 1

LEMMA EnoughInit == ASSUME Init PROVE Enough
BY PeersFacts DEF Init, Enough

LEMMA EnoughNext ==
  ASSUME Aligned, Enough, [Next]_vars
  PROVE  Enough'
<1>0. Len(peers) \in Nat /\ Len(Peers) \in Nat BY PeersFacts, VectorFacts DEF Aligned
<1> SUFFICES ASSUME ~short' PROVE Enough' BY DEF Enough
<1>1. ASSUME NEW c \in Caller, AddNode(c) \/ RemoveNode(c) \/ Mark(c) \/ RemovePanics(c)
                               \/ Finish(c) \/ GiveUp(c)
      PROVE  Enough'
  <2>1. UNCHANGED <<peers, loop, short>>
    BY <1>1 DEF AddNode, RemoveNode, Check, Mark, RemovePanics, Finish, GiveUp, beat, history
  <2> QED BY <2>1 DEF Enough
<1>2. ASSUME NEW c \in Caller, ApplyAdd(c) PROVE Enough'
  <2>1. UNCHANGED <<loop, short>> BY <1>2 DEF ApplyAdd, beat
  <2>2. Len(peers') = Len(peers) + 1 BY <1>2, ApplyAddAligned
  <2> QED BY <1>0, <2>1, <2>2 DEF Enough
<1>3. ASSUME NEW c \in Caller, ApplyRemove(c) PROVE Enough'
  <2>1. UNCHANGED loop /\ short' = (short \/ Len(peers') < Len(Peers))
    BY <1>3 DEF ApplyRemove, beat
  <2>2. Len(peers') = Len(peers) - 1 BY <1>3, ApplyRemoveAligned
  <2>3. Len(peers') >= Len(Peers)
    <3>1. ~ (Len(peers') < Len(Peers)) BY <2>1
    <3> QED BY <1>0, <2>2, <3>1
  <2> QED BY <2>1, <2>3 DEF Enough
<1>4. CASE Others \/ UNCHANGED vars
  <2>1. UNCHANGED <<peers, short>> BY <1>4, OthersKeep
  <2>2. CASE UNCHANGED loop BY <2>1, <2>2 DEF Enough
  <2>3. CASE BeginHeartbeat
    <3>1. loop' = [at |-> "sending", next |-> ls.next] /\ ls # Nil BY <2>3 DEF BeginHeartbeat
    <3>2. Len(ls.next) = Len(peers) + 1 BY <3>1, VectorFacts DEF Aligned
    <3>3. Len(peers) >= Len(Peers) BY <2>1 DEF Enough
    <3>4. Len(ls.next) >= Len(Peers) + 1 BY <1>0, <3>2, <3>3
    <3>5. loop'.at = "sending" /\ loop'.next = ls.next BY <3>1
    <3> QED BY <2>1, <3>3, <3>4, <3>5 DEF Enough
  <2>4. CASE Send
    <3>1. /\ loop.at = "sending" /\ Len(loop.next) >= Len(Peers) + 1 /\ Len(loop.next) \in Nat
      BY <2>1, <2>4, LoopShape DEF Send, Enough, Aligned, TypeInv
    <3>2. Reached = DOMAIN Peers
      <4>1. \A i \in DOMAIN Peers : i + 1 <= Len(loop.next) BY <1>0, <3>1, PeersFacts
      <4> QED BY <4>1 DEF Reached, SlotOf
    <3>3. loop'.at = "sent" BY <2>4, <3>2 DEF Send
    <3> QED BY <2>1, <3>3 DEF Enough
  <2>5. CASE UpdateCommit
    <3>1. Len(peers) >= Len(Peers) BY <2>1 DEF Enough
    <3>2. ls # Nil => ~ (Len(ls.match) <= Len(Peers))
      <4>1. ls # Nil => Len(ls.match) = Len(peers) + 1 BY VectorFacts DEF Aligned
      <4> QED BY <1>0, <3>1, <4>1
    <3>3. loop' = [at |-> "idle"] BY <2>5, <3>2 DEF UpdateCommit
    <3>4. loop'.at = "idle" BY <3>3
    <3> QED BY <2>1, <3>1, <3>4 DEF Enough
  <2>6. CASE BecomeLeader \/ StepDown \/ AppendEntry
    <3>1. UNCHANGED loop BY <2>6 DEF BecomeLeader, StepDown, AppendEntry, beat
    <3> QED BY <2>2, <3>1
  <2>7. ASSUME NEW a \in appends, AnswerSuccess(a) \/ AnswerFailure(a) \/ AnswerPanics(a)
        PROVE  Enough'
    <3>1. UNCHANGED loop BY <2>7 DEF AnswerSuccess, AnswerFailure, AnswerPanics
    <3> QED BY <2>2, <3>1
  <2>8. CASE UNCHANGED vars
    <3>1. UNCHANGED loop BY <2>8 DEF vars, beat
    <3> QED BY <2>2, <3>1
  <2> QED BY <1>4, <2>3, <2>4, <2>5, <2>6, <2>7, <2>8 DEF Others
<1> QED BY <1>1, <1>2, <1>3, <1>4, NextSplit DEF Callers
-----------------------------------------------------------------------------
(* What the slots say. *)

Moved(a) == holds' = [holds EXCEPT ![a.to] = Stored(a)]

\* What a peer holds does not get less.
LEMMA HoldsGrow ==
  ASSUME Aligned, [Next]_vars
  PROVE  \A p \in ToSet(Peers) : holds[p] \in Nat /\ holds'[p] \in Nat /\ holds'[p] >= holds[p]
<1>0. \A p \in ToSet(Peers) : holds[p] \in Nat /\ holds[p] >= holds[p]
  BY DEF Aligned, TypeInv, BeatTypes
<1>1. CASE UNCHANGED holds BY <1>0, <1>1
<1>2. ASSUME NEW a \in appends, Moved(a)
      PROVE  \A p \in ToSet(Peers) :
               holds[p] \in Nat /\ holds'[p] \in Nat /\ holds'[p] >= holds[p]
  <2>1. a.to \in ToSet(Peers) /\ Stored(a) \in Nat /\ Stored(a) >= holds[a.to] BY AppendFacts
  <2>2. \A p \in ToSet(Peers) : holds'[p] = IF p = a.to THEN Stored(a) ELSE holds[p]
    BY <1>2, <2>1 DEF Moved, Aligned, TypeInv, BeatTypes
  <2> QED BY <1>0, <2>1, <2>2
<1>3. UNCHANGED holds \/ \E a \in appends : Moved(a)
  <2>1. CASE UNCHANGED vars BY <2>1 DEF vars
  <2>2. CASE \E c \in Caller : Callers(c)
    BY <2>2 DEF Callers, AddNode, RemoveNode, Check, Mark, ApplyAdd, ApplyRemove, RemovePanics,
                Finish, GiveUp
  <2>3. CASE BecomeLeader \/ StepDown \/ AppendEntry \/ BeginHeartbeat \/ Send \/ UpdateCommit
    BY <2>3 DEF BecomeLeader, StepDown, AppendEntry, BeginHeartbeat, Send, UpdateCommit
  <2>4. CASE \E a \in appends : AnswerSuccess(a) \/ AnswerFailure(a) \/ AnswerPanics(a)
    BY <2>4 DEF AnswerSuccess, AnswerFailure, AnswerPanics, Moved
  <2> QED BY <2>1, <2>2, <2>3, <2>4, NextSplit DEF Others
<1> QED BY <1>1, <1>2, <1>3

\* The vectors stay as they are, and what the peers hold grows.
LEMMA BackedStays ==
  ASSUME Aligned, MatchBacked, [Next]_vars, UNCHANGED <<ls, shifted>>
  PROVE  MatchBacked'
<1> SUFFICES ASSUME ls # Nil, ~shifted, NEW i \in Slots, i <= Len(ls.match)
             PROVE  ls.match[i] <= holds'[Peers[i - 1]]
  BY DEF MatchBacked
<1>1. ls.match[i] <= holds[Peers[i - 1]] BY DEF MatchBacked
<1>2. i \in 1..Len(peers) + 1
  <2>1. i \in Nat \ {0} BY PeersFacts DEF Slots
  <2> QED BY <2>1, VectorFacts DEF Aligned
<1>3. ls.match[i] \in Nat BY <1>2, VectorFacts DEF Aligned
<1>4. Peers[i - 1] \in ToSet(Peers) BY PeersFacts
<1> QED BY <1>1, <1>3, <1>4, HoldsGrow

LEMMA BackedAdd ==
  ASSUME Aligned, MatchBacked, NEW c \in Caller, ApplyAdd(c)
  PROVE  MatchBacked'
<1>1. UNCHANGED <<holds, shifted>> /\ ls' = (IF ls = Nil THEN Nil ELSE Pushed(ls, Len(log)))
  BY DEF ApplyAdd
<1> SUFFICES ASSUME ls' # Nil, ~shifted, NEW i \in Slots, i <= Len(ls'.match)
             PROVE  ls'.match[i] <= holds[Peers[i - 1]]
  BY <1>1 DEF MatchBacked
<1>2. ls # Nil /\ ls'.match = Append(ls.match, 0) BY <1>1 DEF Pushed
<1>3. /\ Len(ls'.match) = Len(peers) + 2
      /\ \A j \in 1..Len(peers) + 1 : ls'.match[j] = ls.match[j]
      /\ ls'.match[Len(peers) + 2] = 0
  <2>1. /\ ls.match \in Seq(Nat) /\ Len(ls.match) = Len(peers) + 1 /\ Len(peers) \in Nat
        /\ Len(peers) + 1 + 1 = Len(peers) + 2
    BY <1>2, VectorFacts DEF Aligned
  <2> QED BY <1>2, <2>1, AppendProperties
<1>4. i \in Nat /\ i >= 2 /\ Len(peers) \in Nat BY PeersFacts, VectorFacts DEF Slots, Aligned
<1>5. i \in 1..Len(peers) + 1 \/ i = Len(peers) + 2 BY <1>3, <1>4
<1>6. holds[Peers[i - 1]] \in Nat BY PeersFacts DEF Aligned, TypeInv, BeatTypes
<1>7. CASE i \in 1..Len(peers) + 1
  <2>1. i <= Len(ls.match) BY <1>2, <1>7, VectorFacts DEF Aligned
  <2>2. ls.match[i] <= holds[Peers[i - 1]] BY <1>2, <2>1 DEF MatchBacked
  <2> QED BY <1>3, <1>7, <2>2
<1>8. CASE i = Len(peers) + 2 BY <1>3, <1>6, <1>8
<1> QED BY <1>5, <1>7, <1>8

LEMMA BackedAnswer ==
  ASSUME Aligned, MatchBacked, NEW a \in appends, AnswerSuccess(a)
  PROVE  MatchBacked'
<1> DEFINE m == [ls.match EXCEPT ![a.idx] = Stored(a)]
<1>1. /\ ls # Nil /\ ls'.match = m /\ UNCHANGED shifted /\ a.idx <= Len(ls.match)
      /\ Moved(a)
  BY DEF AnswerSuccess, history, Moved
<1>2. /\ a.idx \in Slots /\ a.idx \in Nat \ {0, 1} /\ a.to = Peers[a.idx - 1]
      /\ a.to \in ToSet(Peers) /\ Stored(a) \in Nat
  BY AppendFacts
<1>3. a.idx \in 1..Len(ls.match) /\ ls.match \in Seq(Nat) /\ Len(ls.match) \in Nat
  BY <1>1, <1>2, VectorFacts DEF Aligned
<1>4. /\ Len(m) = Len(ls.match)
      /\ \A i \in 1..Len(ls.match) : m[i] = IF i = a.idx THEN Stored(a) ELSE ls.match[i]
  BY <1>2, <1>3, ExceptSeq
<1> HIDE DEF m
<1>5. holds'[a.to] = Stored(a) BY <1>1, <1>2 DEF Moved, Aligned, TypeInv, BeatTypes
<1>6. [Next]_vars BY DEF Next
<1> SUFFICES ASSUME ~shifted, NEW i \in Slots, i <= Len(m)
             PROVE  m[i] <= holds'[Peers[i - 1]]
  BY <1>1 DEF MatchBacked
<1>7. i \in 1..Len(ls.match)
  <2>1. i \in Nat \ {0} BY PeersFacts DEF Slots
  <2> QED BY <1>3, <1>4, <2>1
<1>8. CASE i = a.idx BY <1>2, <1>4, <1>5, <1>7, <1>8
<1>9. CASE i # a.idx
  <2>1. m[i] = ls.match[i] /\ ls.match[i] \in Nat BY <1>3, <1>4, <1>7, <1>9, ElementOfSeq
  <2>2. ls.match[i] <= holds[Peers[i - 1]] BY <1>1, <1>7, <1>3 DEF MatchBacked
  <2>3. Peers[i - 1] \in ToSet(Peers) BY PeersFacts
  <2> QED BY <1>6, <2>1, <2>2, <2>3, HoldsGrow
<1> QED BY <1>8, <1>9

LEMMA BackedNext ==
  ASSUME Aligned, MatchBacked, [Next]_vars
  PROVE  MatchBacked'
<1>1. CASE UNCHANGED <<ls, shifted>> BY <1>1, BackedStays
<1>2. CASE UNCHANGED vars
  <2>1. UNCHANGED <<ls, shifted>> BY <1>2 DEF vars, history
  <2> QED BY <1>1, <2>1
<1>3. ASSUME NEW c \in Caller, AddNode(c) \/ RemoveNode(c) \/ Mark(c) \/ RemovePanics(c)
                               \/ Finish(c) \/ GiveUp(c)
      PROVE  MatchBacked'
  <2>1. UNCHANGED <<ls, shifted>>
    BY <1>3 DEF AddNode, RemoveNode, Check, Mark, RemovePanics, Finish, GiveUp, history
  <2> QED BY <1>1, <2>1
<1>4. ASSUME NEW c \in Caller, ApplyRemove(c) PROVE MatchBacked'
  <2>1. shifted' = TRUE BY <1>4 DEF ApplyRemove
  <2> QED BY <2>1 DEF MatchBacked
<1>5. CASE BecomeLeader
  <2>1. ls' = Fresh(Len(peers)) /\ UNCHANGED holds BY <1>5 DEF BecomeLeader
  <2>2. Len(peers) \in Nat /\ Len(ls'.match) = Len(peers) + 1
        /\ \A i \in 1..Len(peers) + 1 : ls'.match[i] = 0
    BY <2>1, VectorFacts, FreshFacts DEF Aligned
  <2>3. ASSUME NEW i \in Slots, i <= Len(ls'.match)
        PROVE  ls'.match[i] <= holds'[Peers[i - 1]]
    <3>1. i \in Nat /\ i >= 2 BY PeersFacts DEF Slots
    <3>2. i \in 1..Len(peers) + 1 BY <2>2, <2>3, <3>1
    <3>3. holds[Peers[i - 1]] \in Nat BY PeersFacts DEF Aligned, TypeInv, BeatTypes
    <3> QED BY <2>1, <2>2, <3>2, <3>3
  <2> QED BY <2>3 DEF MatchBacked
<1>6. CASE StepDown \/ AppendEntry \/ BeginHeartbeat \/ Send \/ UpdateCommit
  <2>1. UNCHANGED <<ls, shifted>>
    BY <1>6 DEF StepDown, AppendEntry, BeginHeartbeat, Send, UpdateCommit, history
  <2> QED BY <1>1, <2>1
<1>7. ASSUME NEW a \in appends, AnswerPanics(a) PROVE MatchBacked'
  <2>1. UNCHANGED <<ls, shifted>> BY <1>7 DEF AnswerPanics, history
  <2> QED BY <1>1, <2>1
<1>8. ASSUME NEW a \in appends, AnswerFailure(a) PROVE MatchBacked'
  <2>1. /\ ls # Nil /\ UNCHANGED <<holds, shifted>>
        /\ ls' = [ls EXCEPT !.next[a.idx] = Retreat(ls.next[a.idx])]
    BY <1>8 DEF AnswerFailure, history
  <2>2. ls'.match = ls.match BY <2>1, VectorFacts DEF Aligned
  <2> QED BY <2>1, <2>2 DEF MatchBacked
<1> QED BY <1>2, <1>3, <1>4, <1>5, <1>6, <1>7, <1>8, NextSplit, BackedAdd, BackedAnswer
        DEF Callers, Others

-----------------------------------------------------------------------------
(* The commit index. *)

\* Everyone with a slot above n holds n: a majority of slots is one of peers.
LEMMA HaveHold ==
  ASSUME Aligned, MatchBacked, ls # Nil, ~shifted, NEW n \in Nat
  PROVE  /\ IsFiniteSet({p \in ToSet(Peers) : holds[p] >= n})
         /\ IsFiniteSet(Have(n))
         /\ Cardinality(Have(n)) <= Cardinality({p \in ToSet(Peers) : holds[p] >= n})
<1> DEFINE H == {p \in ToSet(Peers) : holds[p] >= n}
           f == [i \in Have(n) |-> Peers[i - 1]]
<1>1. IsFiniteSet(H)
  <2>1. IsFiniteSet(1..Len(Peers)) BY PeersFacts, FS_Interval
  <2>2. Peers \in Surjection(1..Len(Peers), ToSet(Peers))
    <3>1. Peers \in [1..Len(Peers) -> ToSet(Peers)] BY PeersFacts
    <3>2. \A p \in ToSet(Peers) : \E i \in 1..Len(Peers) : Peers[i] = p
      BY PeersFacts DEF ToSet
    <3> QED BY <3>1, <3>2 DEF Surjection
  <2>3. IsFiniteSet(ToSet(Peers)) BY <2>1, <2>2, FS_Surjection
  <2>4. H \subseteq ToSet(Peers) OBVIOUS
  <2> HIDE DEF H
  <2> QED BY <2>3, <2>4, FS_Subset
<1>2. \A i \in Have(n) : i \in Slots /\ i <= Len(ls.match) /\ ls.match[i] >= n BY DEF Have
<1>3. \A i \in Have(n) : f[i] \in H
  <2> SUFFICES ASSUME NEW i \in Have(n) PROVE Peers[i - 1] \in H OBVIOUS
  <2>1. ls.match[i] <= holds[Peers[i - 1]] BY <1>2 DEF MatchBacked
  <2>2. ls.match[i] \in Nat
    <3>1. i \in Nat \ {0} /\ i <= Len(ls.match) BY <1>2, PeersFacts DEF Slots
    <3>2. i \in 1..Len(peers) + 1 BY <3>1, VectorFacts DEF Aligned
    <3> QED BY <3>2, VectorFacts DEF Aligned
  <2>3. Peers[i - 1] \in ToSet(Peers) BY <1>2, PeersFacts
  <2>4. holds[Peers[i - 1]] \in Nat BY <2>3 DEF Aligned, TypeInv, BeatTypes
  <2>5. holds[Peers[i - 1]] >= n BY <1>2, <2>1, <2>2, <2>4
  <2> QED BY <2>3, <2>5
<1>4. \A i, j \in Have(n) : f[i] = f[j] => i = j
  <2> SUFFICES ASSUME NEW i \in Have(n), NEW j \in Have(n), Peers[i - 1] = Peers[j - 1]
               PROVE  i = j
    OBVIOUS
  <2>1. /\ i \in Nat /\ j \in Nat /\ i - 1 \in DOMAIN Peers /\ j - 1 \in DOMAIN Peers
    BY <1>2, PeersFacts
  <2>2. i - 1 = j - 1 BY <2>1, PeersAssumption DEF IsInjective
  <2> QED BY <2>1, <2>2
<1>5. f \in Injection(Have(n), H) BY <1>3, <1>4 DEF Injection, IsInjective
<1> HIDE DEF f, H
<1>6. IsFiniteSet(Have(n)) /\ Cardinality(Have(n)) <= Cardinality(H) BY <1>1, <1>5, FS_Injection
<1> QED BY <1>1, <1>6 DEF H

LEMMA CommitStep ==
  ASSUME Aligned, MatchBacked, [Next]_vars, commit' > commit, ~shifted
  PROVE  Cardinality({p \in ToSet(Peers) : holds[p] >= commit'}) + 1 >= Majority
<1>1. UpdateCommit /\ commit' # commit
  <2>0. commit \in Nat BY DEF Aligned, TypeInv, NodeTypes
  <2>1. commit' # commit BY <2>0
  <2>2. CASE \E c \in Caller : Callers(c)
    BY <2>1, <2>2 DEF Callers, AddNode, RemoveNode, Check, Mark, ApplyAdd, ApplyRemove,
                      RemovePanics, Finish, GiveUp, node
  <2>3. CASE Others \/ UNCHANGED vars
    BY <2>1, <2>3 DEF Others, BecomeLeader, StepDown, AppendEntry, BeginHeartbeat, Send,
                      AnswerSuccess, AnswerFailure, AnswerPanics, node, vars
  <2> QED BY <2>1, <2>2, <2>3, NextSplit
<1> DEFINE new == {n \in commit + 1..Len(log) : Committable(n)}
<1>2. ls # Nil /\ new # {} /\ commit' = CHOOSE n \in new : \A m \in new : m <= n
  BY <1>1 DEF UpdateCommit
<1>3. commit \in Nat /\ log \in Seq(Nat) BY DEF Aligned, TypeInv, NodeTypes
<1>4. Len(log) \in Nat BY <1>3, LenProperties
<1>5. \E n \in new : \A m \in new : m <= n
  <2>1. commit + 1 \in Nat /\ new \in SUBSET (commit + 1..Len(log)) BY <1>3
  <2> HIDE DEF new
  <2> QED BY <1>2, <1>4, <2>1, CommitLargest
<1>6. commit' \in new
  <2> HIDE DEF new
  <2> QED BY <1>2, <1>5
<1>7. commit' \in Nat /\ Cardinality(Have(commit')) + 1 >= Majority
  BY <1>3, <1>4, <1>6 DEF Committable
<1> DEFINE n == commit'
<1>8. n \in Nat /\ Cardinality(Have(n)) + 1 >= Majority BY <1>7
<1> HIDE DEF n
<1> DEFINE H == {p \in ToSet(Peers) : holds[p] >= n}
<1>9. IsFiniteSet(H) /\ IsFiniteSet(Have(n)) /\ Cardinality(Have(n)) <= Cardinality(H)
  BY <1>2, <1>8, HaveHold
<1> HIDE DEF H
<1>10. Cardinality(H) + 1 >= Majority
  <2>1. Cardinality(H) \in Nat /\ Cardinality(Have(n)) \in Nat BY <1>9, FS_CardinalityType
  <2>2. Majority \in Int BY PeersFacts DEF Majority
  <2> QED BY <1>8, <1>9, <2>1, <2>2
<1> QED BY <1>10 DEF H, n
-----------------------------------------------------------------------------
(* The count of a round. *)

SlotsOf(S) == {c.slot : c \in S}

\* An answer task is of a slot and a round; an answer that counts for its own round is
\* of a slot that has not counted yet.
CountBacked ==
  /\ \A a \in appends : a.round <= round
  /\ \A a, b \in appends : a.idx = b.idx /\ a.round = b.round => a = b
  /\ \A c \in counted : ~c.late =>
       /\ c.round = round
       /\ \A a \in appends : ~ (a.idx = c.slot /\ a.round = round)
  /\ (\A c \in counted : ~c.late) => count <= Cardinality(SlotsOf(counted)) + 1

LEMMA SlotsFinite ==
  ASSUME NEW S, IsFiniteSet(S)
  PROVE  IsFiniteSet(SlotsOf(S)) /\ Cardinality(SlotsOf(S)) \in Nat
<1> DEFINE f == [c \in S |-> c.slot]
<1>1. f \in Surjection(S, SlotsOf(S)) BY DEF Surjection, SlotsOf
<1>2. IsFiniteSet(SlotsOf(S))
  <2> HIDE DEF f
  <2> QED BY <1>1, FS_Surjection
<1> QED BY <1>2, FS_CardinalityType

LEMMA CountInit == ASSUME Init PROVE CountBacked
<1>1. IsFiniteSet({}) BY FS_EmptySet
<1>2. Cardinality(SlotsOf({})) \in Nat BY <1>1, SlotsFinite
<1> QED BY <1>2 DEF Init, CountBacked

LEMMA CountSend ==
  ASSUME Aligned, CountBacked, Send
  PROVE  CountBacked'
<1>1. round' = round + 1 /\ round \in Nat /\ count' = 1 /\ counted' = {}
  BY DEF Send, Counted, Aligned, TypeInv, BeatTypes
<1>2. \A a \in appends : a.round \in Nat /\ a.round <= round BY AppendFacts DEF CountBacked
<1>3. \A a \in appends' \ appends :
        /\ a.round = round + 1
        /\ \E i \in DOMAIN Peers :
             a = [idx |-> i + 1, to |-> Peers[i], round |-> round + 1,
                  next |-> loop.next[i + 1], upto |-> Len(log)]
  BY SendFacts
<1>4. \A a \in appends' : a.round <= round'
  <2>1. \A a \in appends : a.round <= round + 1 BY <1>1, <1>2
  <2>2. \A a \in appends' \ appends : a.round <= round + 1 BY <1>1, <1>3
  <2> QED BY <1>1, <2>1, <2>2
<1>5. ASSUME NEW a \in appends', NEW b \in appends', a.idx = b.idx, a.round = b.round
      PROVE  a = b
  <2>1. CASE a \in appends /\ b \in appends BY <1>5, <2>1 DEF CountBacked
  <2>2. CASE a \notin appends /\ b \notin appends
    <3>1. PICK i \in DOMAIN Peers :
            a = [idx |-> i + 1, to |-> Peers[i], round |-> round + 1,
                 next |-> loop.next[i + 1], upto |-> Len(log)]
      BY <1>3, <2>2
    <3>2. PICK j \in DOMAIN Peers :
            b = [idx |-> j + 1, to |-> Peers[j], round |-> round + 1,
                 next |-> loop.next[j + 1], upto |-> Len(log)]
      BY <1>3, <2>2
    <3>3. i \in Nat /\ j \in Nat BY PeersFacts
    <3>4. i + 1 = j + 1 BY <1>5, <3>1, <3>2
    <3>5. i = j BY <3>3, <3>4
    <3> QED BY <3>1, <3>2, <3>5
  <2>3. \A x \in appends, y \in appends' \ appends : x.round # y.round
    <3>1. \A y \in appends' \ appends : y.round = round + 1 BY <1>3
    <3>2. \A x \in appends : x.round # round + 1 BY <1>1, <1>2
    <3> QED BY <3>1, <3>2
  <2> QED BY <1>5, <2>1, <2>2, <2>3
<1>6. 1 <= Cardinality(SlotsOf({})) + 1
  <2>1. Cardinality(SlotsOf({})) \in Nat BY FS_EmptySet, SlotsFinite
  <2> QED BY <2>1
<1> QED BY <1>1, <1>4, <1>5, <1>6 DEF CountBacked

\* An answer in its own round adds a slot; a late one is on record.
LEMMA CountAnswer ==
  ASSUME Aligned, CountBacked, NEW a \in appends, AnswerSuccess(a)
  PROVE  CountBacked' /\ count' \in Nat /\ IsFiniteSet(counted')
<1> DEFINE r == [slot |-> a.idx, round |-> a.round, late |-> a.round < round]
<1>1. /\ count' = count + 1 /\ counted' = counted \cup {r} /\ appends' = appends \ {a}
      /\ UNCHANGED round
  BY DEF AnswerSuccess
<1>2. /\ r.slot = a.idx /\ r.round = a.round /\ r.late = (a.round < round)
      /\ round \in Nat /\ a.round \in Nat /\ count \in Nat /\ IsFiniteSet(counted)
      /\ a.round <= round
  BY AppendFacts DEF Aligned, TypeInv, BeatTypes, CountBacked
<1> HIDE DEF r
<1>3. ~r.late => a.round = round
  <2>1. ~ (a.round < round) => a.round = round BY <1>2
  <2> QED BY <1>2, <2>1
<1>4. IsFiniteSet(counted') /\ count' \in Nat BY <1>1, <1>2, FS_AddElement
<1>5. \A b \in appends' : b.round <= round' BY <1>1 DEF CountBacked
<1>6. \A b, d \in appends' : b.idx = d.idx /\ b.round = d.round => b = d
  BY <1>1 DEF CountBacked
<1>7. ASSUME NEW c \in counted', ~c.late
      PROVE  /\ c.round = round'
             /\ \A b \in appends' : ~ (b.idx = c.slot /\ b.round = round')
  <2>1. CASE c \in counted BY <1>1, <1>7, <2>1 DEF CountBacked
  <2>2. CASE c = r
    <3>1. \A b \in appends' : b \in appends /\ b # a BY <1>1
    <3>2. \A b \in appends : b.idx = a.idx /\ b.round = a.round => b = a BY DEF CountBacked
    <3> QED BY <1>1, <1>2, <1>3, <1>7, <2>2, <3>1, <3>2
  <2> QED BY <1>1, <2>1, <2>2
<1>8. ASSUME \A c \in counted' : ~c.late
      PROVE  count' <= Cardinality(SlotsOf(counted')) + 1
  <2>1. \A c \in counted : ~c.late BY <1>1, <1>8
  <2>2. count <= Cardinality(SlotsOf(counted)) + 1 BY <2>1 DEF CountBacked
  <2>3. a.round = round BY <1>1, <1>3, <1>8
  <2>4. a.idx \notin SlotsOf(counted) BY <2>1, <2>3 DEF CountBacked, SlotsOf
  <2>5. SlotsOf(counted') = SlotsOf(counted) \cup {a.idx} BY <1>1, <1>2 DEF SlotsOf
  <2>6. IsFiniteSet(SlotsOf(counted)) /\ Cardinality(SlotsOf(counted)) \in Nat
    BY <1>2, SlotsFinite
  <2>7. Cardinality(SlotsOf(counted')) = Cardinality(SlotsOf(counted)) + 1
    BY <2>4, <2>5, <2>6, FS_AddElement
  <2> QED BY <1>1, <1>2, <2>2, <2>6, <2>7
<1>9. CountBacked' BY <1>5, <1>6, <1>7, <1>8 DEF CountBacked
<1> QED BY <1>4, <1>9

LEMMA CountNext ==
  ASSUME Aligned, CountBacked, [Next]_vars
  PROVE  CountBacked'
<1>1. ASSUME UNCHANGED <<count, counted, round>>, appends' \subseteq appends
      PROVE  CountBacked'
  BY <1>1 DEF CountBacked
<1>2. CASE UNCHANGED vars
  <2>1. UNCHANGED <<count, counted, round, appends>> BY <1>2 DEF vars, beat
  <2> QED BY <1>1, <2>1
<1>3. CASE \E c \in Caller : Callers(c)
  <2>1. UNCHANGED <<count, counted, round, appends>>
    BY <1>3 DEF Callers, AddNode, RemoveNode, Check, Mark, ApplyAdd, ApplyRemove, RemovePanics,
                Finish, GiveUp, beat
  <2> QED BY <1>1, <2>1
<1>4. CASE BecomeLeader \/ StepDown \/ AppendEntry \/ BeginHeartbeat \/ UpdateCommit
  <2>1. UNCHANGED <<count, counted, round, appends>>
    BY <1>4 DEF BecomeLeader, StepDown, AppendEntry, BeginHeartbeat, UpdateCommit, beat
  <2> QED BY <1>1, <2>1
<1>5. ASSUME NEW a \in appends, AnswerFailure(a) \/ AnswerPanics(a) PROVE CountBacked'
  <2>1. UNCHANGED <<count, counted, round>> /\ appends' \subseteq appends
    BY <1>5 DEF AnswerFailure, AnswerPanics
  <2> QED BY <1>1, <2>1
<1> QED BY <1>2, <1>3, <1>4, <1>5, NextSplit, CountSend, CountAnswer DEF Others

LEMMA LeaseNext ==
  ASSUME Aligned, CountBacked, LeaseBacked, [Next]_vars
  PROVE  LeaseBacked'
<1>1. CASE UNCHANGED lease BY <1>1 DEF LeaseBacked
<1>2. CASE lease' = Nil BY <1>2 DEF LeaseBacked
<1>3. ASSUME NEW a \in appends, AnswerSuccess(a), lease' # lease PROVE LeaseBacked'
  <2>1. /\ count' >= Majority
        /\ lease' = [nodes |-> Cardinality({c.slot : c \in counted'}) + 1,
                     late  |-> \E c \in counted' : c.late]
    BY <1>3 DEF AnswerSuccess
  <2>2. CountBacked' /\ count' \in Nat /\ IsFiniteSet(counted') BY <1>3, CountAnswer
  <2>3. lease'.nodes = Cardinality(SlotsOf(counted')) + 1
    BY <2>1 DEF SlotsOf
  <2>4. lease'.late = \E c \in counted' : c.late BY <2>1
  <2>5. CASE \A c \in counted' : ~c.late
    <3>1. count' <= lease'.nodes BY <2>2, <2>3, <2>5 DEF CountBacked
    <3>2. lease'.nodes \in Nat /\ Majority \in Int
      <4>1. Cardinality(SlotsOf(counted')) \in Nat BY <2>2, SlotsFinite
      <4>2. Majority \in Int BY PeersFacts DEF Majority
      <4> QED BY <2>3, <4>1, <4>2
    <3>3. lease'.nodes >= Majority BY <2>1, <2>2, <3>1, <3>2
    <3> QED BY <3>3 DEF LeaseBacked
  <2> QED BY <2>4, <2>5 DEF LeaseBacked
<1>4. UNCHANGED lease \/ lease' = Nil \/ \E a \in appends : AnswerSuccess(a)
  <2>1. CASE UNCHANGED vars BY <2>1 DEF vars
  <2>2. CASE \E c \in Caller : Callers(c)
    BY <2>2 DEF Callers, AddNode, RemoveNode, Check, Mark, ApplyAdd, ApplyRemove, RemovePanics,
                Finish, GiveUp
  <2>3. CASE Others
    BY <2>3 DEF Others, BecomeLeader, StepDown, AppendEntry, BeginHeartbeat, Send, UpdateCommit,
                AnswerFailure, AnswerPanics
  <2> QED BY <2>1, <2>2, <2>3, NextSplit
<1> QED BY <1>1, <1>2, <1>3, <1>4

-----------------------------------------------------------------------------
(* The theorems. *)

MembershipInv ==
  /\ Aligned /\ FlagIsTakenBack /\ CallsKnow /\ Enough /\ MatchBacked
  /\ CountBacked /\ LeaseBacked

LEMMA MembershipInvariant == Spec => []MembershipInv
<1>1. ASSUME Init PROVE MembershipInv
  <2>1. FlagIsTakenBack /\ MatchBacked /\ LeaseBacked
    BY <1>1 DEF Init, FlagIsTakenBack, MatchBacked, LeaseBacked
  <2> QED BY <1>1, <2>1, AlignedInit, CallsKnowInit, EnoughInit, CountInit DEF MembershipInv
<1>2. ASSUME MembershipInv, [Next]_vars PROVE MembershipInv'
  BY <1>2, AlignedNext, FlagNext, CallsKnowNext, EnoughNext, BackedNext, CountNext, LeaseNext
  DEF MembershipInv
<1> QED BY <1>1, <1>2, PTL DEF Spec

\* Every variable keeps its type: every slot an answer task writes is of a configured
\* peer, and no next_index gets to zero (replication.rs:299).
THEOREM MembershipTypes == Spec => []MembershipTypeOK
<1>1. ASSUME Aligned PROVE MembershipTypeOK
  <2>1. /\ role \in {"Follower", "Leader"} /\ term \in Nat /\ log \in Seq(Nat) /\ commit \in Nat
        /\ peers \in Seq(Id) /\ changing \in BOOLEAN
        /\ ls = Nil \/ (ls.next \in Seq(Nat \ {0}) /\ ls.match \in Seq(Nat))
    BY <1>1 DEF Aligned, TypeInv, NodeTypes
  <2>2. \A c \in Caller : /\ call[c].at \in {"idle", "checked", "marked", "applied"}
                          /\ call[c].op \in {"none", "add", "remove"}
                          /\ call[c].id \in Id \cup {Nil} /\ call[c].idx \in Nat
    <3>1. \A c \in Caller : call[c] \in {Idle} \cup Adding \cup Removing
      BY <1>1 DEF Aligned, TypeInv, NodeTypes
    <3> QED BY <3>1 DEF Idle, Adding, Removing, Id
  <2>3. /\ loop.at \in {"idle", "sending", "sent", "dead"}
        /\ loop.at = "sending" => loop.next \in Seq(Nat \ {0})
        /\ count \in Nat /\ round \in Nat /\ holds \in [ToSet(Peers) -> Nat]
    BY <1>1, LoopShape DEF Aligned, TypeInv, BeatTypes
  <2>4. \A a \in appends : /\ a.idx \in Slots /\ a.to = Peers[a.idx - 1]
                           /\ a.round \in Nat /\ a.next \in Nat \ {0} /\ a.upto \in Nat
    BY <1>1 DEF Aligned, TypeInv, BeatTypes, Appends
  <2> QED BY <2>1, <2>2, <2>3, <2>4 DEF MembershipTypeOK
<1> QED BY <1>1, MembershipInvariant, PTL DEF MembershipInv

\* The vectors have a slot for each peer whatever calls, elections and answers come in
\* between: no vec::remove of remove_node is beyond their end (membership.rs:170).
THEOREM MembershipVectorsAligned == Spec => []VectorsAligned
<1>1. MembershipInv => VectorsAligned BY DEF MembershipInv, Aligned
<1> QED BY <1>1, MembershipInvariant, PTL

\* The flag of add_node and remove_node (membership.rs:50) is set for a call under way,
\* or for one that broke off.
THEOREM MembershipFlagIsTakenBack == Spec => []FlagIsTakenBack
BY MembershipInvariant, PTL DEF MembershipInv

\* The peers are what was asked for, unless two changes overlapped (membership.rs:43).
THEOREM MembershipPeersAsAsked == Spec => []PeersAsAsked
<1>1. MembershipInv => PeersAsAsked BY CallsKnowIsAsAsked DEF MembershipInv
<1> QED BY <1>1, MembershipInvariant, PTL

\* The main loop does not panic over a slot while there are enough peers
\* (replication.rs:139, 338).
THEOREM MembershipLoopSurvives == Spec => []LoopSurvives
<1>1. MembershipInv => LoopSurvives BY DEF MembershipInv, Enough, LoopSurvives
<1> QED BY <1>1, MembershipInvariant, PTL

\* match_index of a peer is what it holds at most, where no slot was taken out.
THEOREM MembershipMatchBacked == Spec => []MatchBacked
BY MembershipInvariant, PTL DEF MembershipInv

\* commit_index rises to what a majority of the configured cluster holds, where no slot
\* was taken out (replication.rs:319).
THEOREM MembershipCommitNeedsMajority == Spec => CommitNeedsMajority
<1>1. ASSUME MembershipInv, [Next]_vars
      PROVE  [commit' > commit /\ ~shifted
                => Cardinality({p \in ToSet(Peers) : holds[p] >= commit'}) + 1 >= Majority]_vars
  BY <1>1, CommitStep DEF MembershipInv
<1> QED BY <1>1, MembershipInvariant, PTL DEF Spec, CommitNeedsMajority

\* A lease without late answers is of a majority of different nodes (replication.rs:282).
THEOREM MembershipLeaseBacked == Spec => []LeaseBacked
BY MembershipInvariant, PTL DEF MembershipInv
=============================================================================
