--------------------------- MODULE LogStoreProofs ---------------------------
(***************************************************************************)
(* The operations of a log yield logs.  Only Retain, which keeps a         *)
(* subsequence, needs an argument: the k-th position kept exists, as the   *)
(* least one with k positions kept up to it.                               *)
(*                                                                         *)
(* Two laws of more than types follow: where indexes are in order          *)
(* (Contiguous logs), a cut or an extension keeps them so; and a log that  *)
(* agrees with the histories its entries come from (Logs within histories) *)
(* does so still, cut, or extended with a stretch of a history that fits.  *)
(***************************************************************************)
EXTENDS LogStore, FiniteSetTheorems, SequenceTheorems, WellFoundedInduction, TLAPS

LEMMA LeastNatural ==
  ASSUME NEW S \in SUBSET Nat, S # {}
  PROVE  \E x \in S : \A y \in S : x <= y
<1>1. PICK x \in S : \A y \in S : ~ (<<y, x>> \in OpToRel(<, Nat))
  BY NatLessThanWellFounded, WFMin
<1>2. \A y \in S : ~ (y < x) BY <1>1 DEF OpToRel
<1> QED BY <1>2

LEMMA LogFields ==
  ASSUME NEW C, NEW l \in Log(C)
  PROVE  /\ l.entries \in Seq(Entry(C)) /\ l.snapIdx \in Nat /\ l.snapTerm \in Nat
         /\ Len(l.entries) \in Nat
         /\ \A k \in 1..Len(l.entries) : l.entries[k] \in Entry(C)
<1>1. l.entries \in Seq(Entry(C)) /\ l.snapIdx \in Nat /\ l.snapTerm \in Nat BY DEF Log
<1> QED BY <1>1, LenProperties, ElementOfSeq

LEMMA LastOfLog ==
  ASSUME NEW C, NEW l \in Log(C)
  PROVE  LastIndex(l) \in Nat /\ LastTerm(l) \in Nat
<1>1. LastIndex(l) \in Nat BY LogFields DEF LastIndex
<1>2. CASE l.entries = <<>> BY <1>1, <1>2, LogFields DEF LastTerm
<1>3. CASE l.entries # <<>>
  <2>1. Len(l.entries) \in 1..Len(l.entries) BY <1>3, LogFields, EmptySeq
  <2>2. l.entries[Len(l.entries)] \in Entry(C) BY <2>1, LogFields
  <2> QED BY <1>1, <1>3, <2>2 DEF LastTerm, Entry
<1> QED BY <1>1, <1>2, <1>3

LEMMA EntryInLog ==
  ASSUME NEW C, NEW l \in Log(C), NEW i \in Nat, Holds(l, i)
  PROVE  EntryAt(l, i) \in Entry(C)
<1>1. i - l.snapIdx \in 1..Len(l.entries) BY LogFields DEF Holds, LastIndex
<1> QED BY <1>1, LogFields DEF EntryAt

LEMMA TermInLog ==
  ASSUME NEW C, NEW l \in Log(C), NEW i \in Nat
  PROVE  TermAt(l, i) \in Nat
BY EntryInLog DEF TermAt, Entry

LEMMA AppendAllType ==
  ASSUME NEW C, NEW l \in Log(C), NEW es \in Seq(Entry(C))
  PROVE  AppendAll(l, es) \in Log(C)
<1>1. l.entries \o es \in Seq(Entry(C)) BY LogFields, ConcatProperties
<1> QED BY <1>1 DEF AppendAll, Log

LEMMA FirstOfType ==
  ASSUME NEW S, NEW es \in Seq(S), NEW k \in Nat
  PROVE  FirstOf(es, k) \in Seq(S)
<1>1. Smaller(k, Len(es)) \in 0..Len(es) BY LenProperties DEF Smaller
<1>2. \A j \in 1..Smaller(k, Len(es)) : es[j] \in S BY <1>1, LenProperties, ElementOfSeq
<1> QED BY <1>1, <1>2, SubSeqProperties DEF FirstOf

LEMMA TruncateType ==
  ASSUME NEW C, NEW l \in Log(C), NEW i \in Nat
  PROVE  Truncate(l, i) \in Log(C)
<1>1. CASE i <= l.snapIdx
  <2>1. <<>> \in Seq(Entry(C)) BY EmptySeq
  <2> QED BY <1>1, <2>1 DEF Truncate, Log
<1>2. CASE ~(i <= l.snapIdx)
  <2>1. i - l.snapIdx - 1 \in Nat BY <1>2, LogFields
  <2>2. FirstOf(l.entries, i - l.snapIdx - 1) \in Seq(Entry(C))
    BY <2>1, LogFields, FirstOfType
  <2> QED BY <1>2, <2>2 DEF Truncate, Log
<1> QED BY <1>1, <1>2

LEMMA EntriesFromType ==
  ASSUME NEW C, NEW l \in Log(C), NEW i \in Nat
  PROVE  EntriesFrom(l, i) \in Seq(Entry(C))
<1>1. CASE Holds(l, i)
  <2>1. i - l.snapIdx \in 1..Len(l.entries) BY <1>1, LogFields DEF Holds, LastIndex
  <2>2. \A k \in (i - l.snapIdx)..Len(l.entries) : l.entries[k] \in Entry(C)
    BY <2>1, LogFields
  <2>3. SubSeq(l.entries, i - l.snapIdx, Len(l.entries)) \in Seq(Entry(C))
    BY <2>1, <2>2, LogFields, SubSeqProperties
  <2> QED BY <1>1, <2>3 DEF EntriesFrom
<1>2. CASE ~Holds(l, i) BY <1>2, EmptySeq DEF EntriesFrom
<1> QED BY <1>1, <1>2

\* Each rank up to the size of K is the rank of one of its elements.
LEMMA RankExists ==
  ASSUME NEW n \in Nat, NEW K, K \subseteq 1..n, NEW k \in 1..Cardinality(K)
  PROVE  \E j \in K : Cardinality({h \in K : h <= j}) = k
<1> DEFINE UpTo(x) == {h \in K : h <= x}
           S == {x \in 0..n : Cardinality(UpTo(x)) >= k}
<1>1. \A h \in K : h \in Nat /\ 1 <= h /\ h <= n OBVIOUS
<1>2. IsFiniteSet(K)
  <2>1. IsFiniteSet(1..n) BY FS_Interval
  <2> QED BY <2>1, FS_Subset
<1>3. Cardinality(K) \in Nat BY <1>2, FS_CardinalityType
<1>4. k \in Nat /\ 1 <= k /\ k <= Cardinality(K) BY <1>3
<1>5. ASSUME NEW x PROVE IsFiniteSet(UpTo(x)) /\ Cardinality(UpTo(x)) \in Nat
  <2>1. UpTo(x) \in SUBSET K OBVIOUS
  <2> HIDE DEF UpTo
  <2>2. IsFiniteSet(UpTo(x)) BY <2>1, <1>2, FS_Subset
  <2> QED BY <2>2, FS_CardinalityType
<1>6. UpTo(n) = K BY <1>1
<1>7. UpTo(0) = {}
  <2>1. \A h \in K : ~(h <= 0) BY <1>1
  <2> QED BY <2>1
<1>8. ASSUME NEW x \in 1..n, x \notin K PROVE UpTo(x) = UpTo(x - 1)
  <2>1. \A h \in K : h <= x <=> h <= x - 1 BY <1>1, <1>8
  <2> QED BY <2>1
<1>9. ASSUME NEW x \in 1..n, x \in K
      PROVE  Cardinality(UpTo(x)) = Cardinality(UpTo(x - 1)) + 1
  <2>1. \A h \in K : (h <= x <=> h <= x - 1 \/ h = x) /\ ~(x <= x - 1) BY <1>1
  <2>2. UpTo(x) = UpTo(x - 1) \cup {x} /\ x \notin UpTo(x - 1) BY <1>9, <2>1
  <2> HIDE DEF UpTo
  <2> QED BY <2>2, <1>5, FS_AddElement
<1> HIDE DEF UpTo
<1>10. PICK x \in S : \A y \in S : x <= y
  <2>1. S \in SUBSET Nat /\ n \in S BY <1>4, <1>6
  <2> HIDE DEF S
  <2> QED BY <2>1, LeastNatural
<1>11. x \in 1..n BY <1>4, <1>7, <1>10, FS_EmptySet
<1>12. Cardinality(UpTo(x - 1)) < k
  <2>1. x - 1 \in 0..n /\ x - 1 \notin S BY <1>10, <1>11
  <2> QED BY <2>1, <1>4, <1>5
<1>13. Cardinality(UpTo(x)) >= k BY <1>10
<1>14. x \in K /\ Cardinality(UpTo(x)) = k
  BY <1>4, <1>5, <1>8, <1>9, <1>11, <1>12, <1>13
<1> QED BY <1>14 DEF UpTo

LEMMA RetainType ==
  ASSUME NEW S, NEW es \in Seq(S), NEW K, K \subseteq DOMAIN es
  PROVE  Retain(es, K) \in Seq(S)
<1>1. K \subseteq 1..Len(es) /\ Len(es) \in Nat BY LenProperties
<1>2. Cardinality(K) \in Nat
  <2>1. IsFiniteSet(1..Len(es)) BY <1>1, FS_Interval
  <2>2. IsFiniteSet(K) BY <2>1, <1>1, FS_Subset
  <2> QED BY <2>2, FS_CardinalityType
<1>3. ASSUME NEW k \in 1..Cardinality(K)
      PROVE  es[CHOOSE j \in K : Cardinality({h \in K : h <= j}) = k] \in S
  <2> DEFINE j == CHOOSE j \in K : Cardinality({h \in K : h <= j}) = k
  <2>1. \E i \in K : Cardinality({h \in K : h <= i}) = k BY <1>1, RankExists
  <2>2. j \in K BY <2>1
  <2>3. j \in 1..Len(es) BY <1>1, <2>2
  <2> HIDE DEF j
  <2>4. es[j] \in S BY <2>3, ElementOfSeq
  <2> QED BY <2>4 DEF j
<1>4. Retain(es, K) \in [1..Cardinality(K) -> S] BY <1>3 DEF Retain
<1> QED BY <1>2, <1>4, SeqDef

LEMMA ApplySnapshotType ==
  ASSUME NEW C, NEW l \in Log(C), NEW i \in Nat, NEW t \in Nat
  PROVE  ApplySnapshot(l, i, t) \in Log(C)
<1>1. l.entries \in Seq(Entry(C)) BY LogFields
<1>2. Retain(l.entries, {k \in DOMAIN l.entries : l.entries[k].index > i}) \in Seq(Entry(C))
  BY <1>1, RetainType
<1> QED BY <1>2 DEF ApplySnapshot, Log

-----------------------------------------------------------------------------
(* Contiguous logs.  The operations keep the index of an entry tied to its place,
   with what each needs of the place it is told. *)

\* es are entries to be put after index i.
InOrder(es, i) == \A k \in DOMAIN es : es[k].index = i + k

LEMMA ContiguousInOrder ==
  ASSUME NEW l
  PROVE  Contiguous(l) <=> InOrder(l.entries, l.snapIdx)
BY DEF Contiguous, InOrder

LEMMA AppendInOrder ==
  ASSUME NEW S, NEW a \in Seq(S), NEW b \in Seq(S), NEW i \in Nat,
         InOrder(a, i), InOrder(b, i + Len(a))
  PROVE  InOrder(a \o b, i)
<1>1. /\ a \o b \in Seq(S) /\ Len(a \o b) = Len(a) + Len(b)
      /\ \A k \in 1..(Len(a) + Len(b)) :
           (a \o b)[k] = IF k <= Len(a) THEN a[k] ELSE b[k - Len(a)]
  BY ConcatProperties
<1>2. Len(a) \in Nat /\ Len(b) \in Nat /\ DOMAIN a = 1..Len(a) /\ DOMAIN b = 1..Len(b)
      /\ DOMAIN (a \o b) = 1..(Len(a) + Len(b))
  BY <1>1, LenProperties
<1>3. ASSUME NEW k \in 1..(Len(a) + Len(b)) PROVE (a \o b)[k].index = i + k
  <2>1. CASE k <= Len(a)
    <3>1. k \in DOMAIN a /\ (a \o b)[k] = a[k] BY <1>1, <1>2, <2>1
    <3> QED BY <3>1 DEF InOrder
  <2>2. CASE ~(k <= Len(a))
    <3>1. k - Len(a) \in DOMAIN b /\ (a \o b)[k] = b[k - Len(a)] BY <1>1, <1>2, <2>2
    <3>2. b[k - Len(a)].index = i + Len(a) + (k - Len(a)) BY <3>1 DEF InOrder
    <3> QED BY <1>2, <3>1, <3>2
  <2> QED BY <2>1, <2>2
<1> QED BY <1>2, <1>3 DEF InOrder

LEMMA FirstOfShape ==
  ASSUME NEW S, NEW es \in Seq(S), NEW k \in Nat
  PROVE  /\ Len(FirstOf(es, k)) = Smaller(k, Len(es))
         /\ \A j \in 1..Smaller(k, Len(es)) : FirstOf(es, k)[j] = es[j]
<1>1. Smaller(k, Len(es)) \in 0..Len(es) BY LenProperties DEF Smaller
<1>2. \A j \in 1..Smaller(k, Len(es)) : es[j] \in S BY <1>1, LenProperties, ElementOfSeq
<1> QED BY <1>1, <1>2, SubSeqProperties DEF FirstOf

LEMMA FirstInOrder ==
  ASSUME NEW S, NEW es \in Seq(S), NEW k \in Nat, NEW i \in Nat, InOrder(es, i)
  PROVE  InOrder(FirstOf(es, k), i)
<1> DEFINE f == FirstOf(es, k)
<1>1. f \in Seq(S) /\ Len(f) = Smaller(k, Len(es)) /\ \A j \in 1..Len(f) : f[j] = es[j]
  BY FirstOfType, FirstOfShape
<1>2. Len(es) \in Nat /\ DOMAIN es = 1..Len(es) /\ DOMAIN f = 1..Len(f)
  BY <1>1, LenProperties
<1> HIDE DEF f
<1>3. 1..Len(f) \subseteq 1..Len(es) BY <1>1, <1>2 DEF Smaller
<1>4. InOrder(f, i) BY <1>1, <1>2, <1>3 DEF InOrder
<1> QED BY <1>4 DEF f

\* What is sent from index j on follows index j - 1.
LEMMA FromInOrder ==
  ASSUME NEW C, NEW l \in Log(C), NEW j \in Nat \ {0}, Contiguous(l)
  PROVE  InOrder(EntriesFrom(l, j), j - 1)
<1>1. CASE ~Holds(l, j) BY <1>1, EmptySeq DEF EntriesFrom, InOrder
<1>2. CASE Holds(l, j)
  <2> DEFINE es == l.entries
             a == j - l.snapIdx
             s == SubSeq(es, a, Len(es))
  <2>1. /\ a \in 1..Len(es) /\ l.snapIdx \in Nat /\ Len(es) \in Nat /\ es \in Seq(Entry(C))
        /\ a + l.snapIdx = j
    BY <1>2, LogFields DEF Holds, LastIndex
  <2>2. \A k \in a..Len(es) : es[k] \in Entry(C) BY <2>1, LogFields
  <2> HIDE DEF a
  <2>3. /\ s \in Seq(Entry(C)) /\ Len(s) = Len(es) - a + 1
        /\ \A k \in 1..(Len(es) - a + 1) : s[k] = es[a + k - 1]
    BY <2>1, <2>2, SubSeqProperties
  <2>4. DOMAIN s = 1..(Len(es) - a + 1) /\ DOMAIN es = 1..Len(es)
    BY <2>1, <2>3, LenProperties
  <2>5. \A k \in 1..Len(es) : es[k].index = l.snapIdx + k BY <2>4 DEF Contiguous
  <2> HIDE DEF es, s, a
  <2>6. ASSUME NEW k \in 1..(Len(es) - a + 1) PROVE s[k].index = j - 1 + k
    <3>1. a + k - 1 \in 1..Len(es) BY <2>1
    <3>2. s[k].index = l.snapIdx + (a + k - 1) BY <2>3, <2>5, <3>1
    <3> QED BY <2>1, <3>2
  <2>7. InOrder(s, j - 1) BY <2>4, <2>6 DEF InOrder
  <2> QED BY <1>2, <2>7 DEF EntriesFrom, s, es, a
<1> QED BY <1>1, <1>2

\* Ranks in an interval.
LEMMA IntervalRank ==
  ASSUME NEW a \in Nat \ {0}, NEW n \in Nat, a <= n + 1
  PROVE  /\ Cardinality(a..n) = n + 1 - a
         /\ \A j \in a..n : Cardinality({h \in a..n : h <= j}) = j - a + 1
<1>1. Cardinality(a..n) = n + 1 - a
  <2>1. CASE a > n BY <2>1, FS_Interval
  <2>2. CASE a <= n BY <2>2, FS_Interval
  <2> QED BY <2>1, <2>2
<1>2. ASSUME NEW j \in a..n PROVE Cardinality({h \in a..n : h <= j}) = j - a + 1
  <2>1. {h \in a..n : h <= j} = a..j BY <1>2
  <2>2. j \in Nat /\ a <= j BY <1>2
  <2>3. Cardinality(a..j) = j - a + 1 BY <2>2, FS_Interval
  <2> QED BY <2>1, <2>3
<1> QED BY <1>1, <1>2

\* A contiguous log, compacted no lower than it is, is contiguous.
LEMMA SnapshotContiguous ==
  ASSUME NEW C, NEW l \in Log(C), Contiguous(l), NEW i \in Nat, NEW t, i >= l.snapIdx
  PROVE  Contiguous(ApplySnapshot(l, i, t))
<1> DEFINE es == l.entries
           K == {k \in DOMAIN es : es[k].index > i}
           a == i - l.snapIdx + 1
           r == Retain(es, K)
<1>1. l.snapIdx \in Nat /\ Len(es) \in Nat /\ DOMAIN es = 1..Len(es)
  BY LogFields, LenProperties
<1>2. \A k \in 1..Len(es) : es[k].index = l.snapIdx + k BY <1>1 DEF Contiguous
<1>3. a \in Nat \ {0} /\ a + l.snapIdx = i + 1 BY <1>1
<1>4. ApplySnapshot(l, i, t).entries = r /\ ApplySnapshot(l, i, t).snapIdx = i
  BY DEF ApplySnapshot
<1>5. K = a..Len(es)
  <2> HIDE DEF es, a
  <2>1. \A k \in 1..Len(es) : es[k].index > i <=> a <= k BY <1>1, <1>2, <1>3
  <2>2. K = {k \in 1..Len(es) : a <= k} BY <1>1, <2>1
  <2> QED BY <1>1, <1>3, <2>2
<1> HIDE DEF es, K, a
<1>6. DOMAIN r = 1..Cardinality(K) BY DEF Retain
<1>7. ASSUME NEW x \in DOMAIN r PROVE r[x].index = i + x
  <2>1. r[x] = es[CHOOSE j \in K : Cardinality({h \in K : h <= j}) = x]
    BY <1>6 DEF Retain
  <2>2. CASE a <= Len(es) + 1
    <3>1. /\ Cardinality(K) = Len(es) + 1 - a
          /\ \A j \in K : Cardinality({h \in K : h <= j}) = j - a + 1
      BY <1>1, <1>3, <1>5, <2>2, IntervalRank
    <3>2. x \in 1..Cardinality(K) BY <1>6
    <3>3. r[x] = es[a + x - 1]
      <4>0. x \in Nat /\ a + x - 1 \in a..Len(es) BY <1>1, <1>3, <3>1, <3>2
      <4>1. a + x - 1 \in K /\ \A j \in K : j - a + 1 = x <=> j = a + x - 1
        BY <1>1, <1>3, <1>5, <4>0
      <4>2. \A j \in K : Cardinality({h \in K : h <= j}) = x <=> j = a + x - 1
        BY <3>1, <4>1
      <4>3. (CHOOSE j \in K : Cardinality({h \in K : h <= j}) = x) = a + x - 1
        BY <4>1, <4>2
      <4> QED BY <2>1, <4>3
    <3>4. x \in Nat /\ a + x - 1 \in 1..Len(es) BY <1>1, <1>3, <3>1, <3>2
    <3>5. es[a + x - 1].index = l.snapIdx + (a + x - 1) BY <1>2, <3>4
    <3>6. l.snapIdx + (a + x - 1) = i + x BY <1>1, <1>3, <3>4
    <3> QED BY <3>3, <3>5, <3>6
  <2>3. CASE ~(a <= Len(es) + 1)
    <3>1. K = {} BY <1>1, <1>3, <1>5, <2>3
    <3> QED BY <1>6, <3>1, FS_EmptySet
  <2> QED BY <2>2, <2>3
<1> QED BY <1>4, <1>7 DEF Contiguous

-----------------------------------------------------------------------------
(* Logs within histories: H[t] is the log of the leader of term t.  A log is within H when
   it agrees, up to each of its entries, with the history of that entry's term. *)

Agree(a, b, i) == i <= Len(a) /\ i <= Len(b) /\ \A j \in 1..i : a[j] = b[j]

Within(s, H) == \A i \in 1..Len(s) : Agree(s, H[s[i].term], i)

\* A history that each has its own entries' histories as beginnings.
Histories(C) == {H \in [Nat -> Seq(Entry(C))] : \A t \in Nat : Within(H[t], H)}

\* The entries es, to come after index k whose entry is of term u, are within H.
SentWithin(k, u, es, H) ==
  \A i \in 1..Len(es) :
    LET g == H[es[i].term] IN
    /\ k + i <= Len(g) /\ \A j \in 1..i : g[k + j] = es[j]
    /\ k > 0 => g[k].term = u

\* G is H, some of it longer.
Extends(G, H) == \A t \in Nat : Agree(H[t], G[t], Len(H[t]))

LEMMA AgreeStays ==
  ASSUME NEW H, NEW G, Extends(G, H), NEW s, NEW t \in Nat, NEW i \in Nat, Agree(s, H[t], i),
         Len(H[t]) \in Nat, Len(G[t]) \in Nat
  PROVE  Agree(s, G[t], i)
<1>1. Agree(H[t], G[t], Len(H[t])) BY DEF Extends
<1> QED BY <1>1 DEF Agree

LEMMA HistoryLengths ==
  ASSUME NEW C, NEW H \in [Nat -> Seq(Entry(C))], NEW t \in Nat
  PROVE  H[t] \in Seq(Entry(C)) /\ Len(H[t]) \in Nat
BY LenProperties

LEMMA TermsOfEntries ==
  ASSUME NEW C, NEW s \in Seq(Entry(C))
  PROVE  Len(s) \in Nat /\ \A i \in 1..Len(s) : s[i] \in Entry(C) /\ s[i].term \in Nat
<1>1. Len(s) \in Nat BY LenProperties
<1>2. \A i \in 1..Len(s) : s[i] \in Entry(C) BY ElementOfSeq
<1> QED BY <1>1, <1>2 DEF Entry

LEMMA WithinExtends ==
  ASSUME NEW C, NEW H \in [Nat -> Seq(Entry(C))], NEW G \in [Nat -> Seq(Entry(C))],
         Extends(G, H), NEW s \in Seq(Entry(C)), Within(s, H)
  PROVE  Within(s, G)
<1>1. ASSUME NEW i \in 1..Len(s) PROVE Agree(s, G[s[i].term], i)
  <2>0. Len(s) \in Nat /\ s[i].term \in Nat BY TermsOfEntries
  <2>1. s[i].term \in Nat /\ i \in Nat BY <2>0
  <2>2. Agree(s, H[s[i].term], i) BY DEF Within
  <2> QED BY <2>1, <2>2, AgreeStays, HistoryLengths
<1> QED BY <1>1 DEF Within

LEMMA SentExtends ==
  ASSUME NEW C, NEW H \in [Nat -> Seq(Entry(C))], NEW G \in [Nat -> Seq(Entry(C))],
         Extends(G, H), NEW es \in Seq(Entry(C)), NEW k \in Nat, NEW u,
         SentWithin(k, u, es, H)
  PROVE  SentWithin(k, u, es, G)
<1>1. ASSUME NEW i \in 1..Len(es)
      PROVE  LET g == G[es[i].term] IN
             /\ k + i <= Len(g) /\ \A j \in 1..i : g[k + j] = es[j]
             /\ k > 0 => g[k].term = u
  <2> DEFINE h == H[es[i].term]
             g == G[es[i].term]
  <2>0. Len(es) \in Nat /\ es[i].term \in Nat BY TermsOfEntries
  <2>1. es[i].term \in Nat /\ i \in Nat BY <2>0
  <2>2. Len(h) \in Nat /\ Len(g) \in Nat BY <2>1, HistoryLengths
  <2>3. Agree(h, g, Len(h)) BY <2>1 DEF Extends
  <2>4. /\ k + i <= Len(h) /\ \A j \in 1..i : h[k + j] = es[j]
        /\ k > 0 => h[k].term = u
    BY DEF SentWithin
  <2> HIDE DEF h, g
  <2>5. Len(h) <= Len(g) /\ \A j \in 1..Len(h) : h[j] = g[j] BY <2>3 DEF Agree
  <2>6. \A j \in 1..i : k + j \in 1..Len(h) BY <2>1, <2>2, <2>4
  <2>7. k > 0 => k \in 1..Len(h) BY <2>1, <2>2, <2>4
  <2>8. k + i <= Len(g) BY <2>1, <2>2, <2>4, <2>5
  <2>9. \A j \in 1..i : g[k + j] = es[j] BY <2>4, <2>5, <2>6
  <2>10. k > 0 => g[k].term = u BY <2>4, <2>5, <2>7
  <2> QED BY <2>8, <2>9, <2>10 DEF g
<1> QED BY <1>1 DEF SentWithin

\* The history of a term gets an entry of that term, or its first entries.
LEMMA HistoryGrows ==
  ASSUME NEW C, NEW H \in Histories(C), NEW t \in Nat, NEW s \in Seq(Entry(C)),
         Agree(H[t], s, Len(H[t])), Within(s, [H EXCEPT ![t] = s])
  PROVE  [H EXCEPT ![t] = s] \in Histories(C) /\ Extends([H EXCEPT ![t] = s], H)
<1> DEFINE G == [H EXCEPT ![t] = s]
<1>1. H \in [Nat -> Seq(Entry(C))] /\ \A v \in Nat : Within(H[v], H) BY DEF Histories
<1>2. G \in [Nat -> Seq(Entry(C))] /\ G[t] = s /\ \A v \in Nat \ {t} : G[v] = H[v]
  BY <1>1
<1>3. Within(s, G) OBVIOUS
<1> HIDE DEF G
<1>4. Extends(G, H)
  <2>1. ASSUME NEW v \in Nat, v # t PROVE Agree(H[v], G[v], Len(H[v]))
    <3>1. Len(H[v]) \in Nat /\ G[v] = H[v] BY <1>1, <1>2, <2>1, HistoryLengths
    <3> QED BY <3>1 DEF Agree
  <2> QED BY <1>2, <2>1 DEF Extends
<1>5. ASSUME NEW v \in Nat PROVE Within(G[v], G)
  <2>1. v # t => Within(H[v], G)
    BY <1>1, <1>2, <1>4, WithinExtends, HistoryLengths
  <2> QED BY <1>2, <1>3, <2>1
<1> QED BY <1>2, <1>4, <1>5 DEF Histories, G

LEMMA EntryGrows ==
  ASSUME NEW C, NEW H \in Histories(C), NEW e \in Entry(C), NEW s, s = Append(H[e.term], e)
  PROVE  /\ [H EXCEPT ![e.term] = s] \in Histories(C)
         /\ Extends([H EXCEPT ![e.term] = s], H)
<1> DEFINE t == e.term
           h == H[t]
           G == [H EXCEPT ![t] = s]
<1>1. t \in Nat /\ H \in [Nat -> Seq(Entry(C))] /\ Within(h, H) BY DEF Entry, Histories
<1>2. h \in Seq(Entry(C)) /\ Len(h) \in Nat BY <1>1, HistoryLengths
<1>3. G[t] = s /\ \A v \in Nat \ {t} : G[v] = H[v] BY <1>1
<1>4. s = Append(h, e) OBVIOUS
<1> HIDE DEF h, G
<1>5. /\ s \in Seq(Entry(C)) /\ Len(s) = Len(h) + 1 /\ s[Len(h) + 1] = e
      /\ \A k \in 1..Len(h) : s[k] = h[k]
  BY <1>2, <1>4, AppendProperties
<1> HIDE DEF t
<1>6. Agree(h, s, Len(h)) BY <1>2, <1>5 DEF Agree
<1>7. ASSUME NEW i \in 1..Len(s) PROVE Agree(s, G[s[i].term], i)
  <2>1. CASE i = Len(h) + 1
    <3>1. s[i].term = t BY <1>5, <2>1 DEF t
    <3>2. G[s[i].term] = s /\ i <= Len(s) BY <1>2, <1>3, <1>5, <2>1, <3>1
    <3> QED BY <3>2 DEF Agree
  <2>2. CASE i \in 1..Len(h)
    <3>1. s[i] = h[i] /\ h[i].term \in Nat BY <1>2, <1>5, <2>2, TermsOfEntries
    <3>2. Agree(h, H[h[i].term], i) BY <1>1, <2>2 DEF Within
    <3>3. CASE h[i].term = t
      <4>1. G[s[i].term] = s /\ i <= Len(s) BY <1>2, <1>3, <1>5, <2>2, <3>1, <3>3
      <4> QED BY <4>1 DEF Agree
    <3>4. CASE h[i].term # t
      <4>1. G[s[i].term] = H[h[i].term] BY <1>3, <3>1, <3>4
      <4>2. i <= Len(s) /\ \A j \in 1..i : s[j] = h[j] BY <1>2, <1>5, <2>2
      <4> QED BY <3>2, <4>1, <4>2 DEF Agree
    <3> QED BY <3>3, <3>4
  <2> QED BY <1>2, <1>5, <2>1, <2>2
<1>8. Within(s, G) BY <1>7 DEF Within
<1> QED BY <1>1, <1>5, <1>6, <1>8, HistoryGrows DEF G, h, t

LEMMA FirstHistory ==
  ASSUME NEW C, NEW H \in Histories(C), NEW t \in Nat, H[t] = <<>>, NEW s \in Seq(Entry(C)),
         Within(s, H)
  PROVE  [H EXCEPT ![t] = s] \in Histories(C) /\ Extends([H EXCEPT ![t] = s], H)
<1> DEFINE G == [H EXCEPT ![t] = s]
<1>1. H \in [Nat -> Seq(Entry(C))] BY DEF Histories
<1>2. Agree(H[t], s, Len(H[t])) BY TermsOfEntries DEF Agree
<1>3. ASSUME NEW i \in 1..Len(s) PROVE Agree(s, G[s[i].term], i)
  <2>1. Agree(s, H[s[i].term], i) /\ s[i].term \in Nat /\ i \in Nat /\ i > 0
    BY TermsOfEntries DEF Within
  <2>2. s[i].term # t BY <2>1 DEF Agree
  <2>3. G[s[i].term] = H[s[i].term] BY <1>1, <2>1, <2>2
  <2> QED BY <2>1, <2>3
<1>4. Within(s, G) BY <1>3 DEF Within
<1> QED BY <1>2, <1>4, HistoryGrows

\* A stretch of a log that is within H is within H, with the entry before it.
LEMMA StretchWithin ==
  ASSUME NEW C, NEW H \in [Nat -> Seq(Entry(C))], NEW s \in Seq(Entry(C)), Within(s, H),
         NEW k \in Nat, NEW u, NEW es \in Seq(Entry(C)), k + Len(es) <= Len(s),
         \A j \in 1..Len(es) : es[j] = s[k + j],
         k > 0 /\ es # <<>> => s[k].term = u
  PROVE  SentWithin(k, u, es, H)
<1>1. Len(es) \in Nat /\ Len(s) \in Nat BY TermsOfEntries
<1>2. ASSUME NEW i \in 1..Len(es)
      PROVE  LET g == H[es[i].term] IN
             /\ k + i <= Len(g) /\ \A j \in 1..i : g[k + j] = es[j]
             /\ k > 0 => g[k].term = u
  <2> DEFINE g == H[es[i].term]
  <2>1. k + i \in 1..Len(s) /\ es[i] = s[k + i] BY <1>1
  <2>2. Agree(s, g, k + i) BY <2>1 DEF Within
  <2> HIDE DEF g
  <2>3. k + i <= Len(g) /\ \A j \in 1..(k + i) : s[j] = g[j] BY <2>2 DEF Agree
  <2>4. \A j \in 1..i : g[k + j] = es[j]
    <3>1. \A j \in 1..i : k + j \in 1..(k + i) /\ j \in 1..Len(es) BY <1>1
    <3> QED BY <2>3, <3>1
  <2>5. k > 0 => g[k].term = u
    <3>1. es # <<>> BY <1>1, EmptySeq
    <3>2. k > 0 => k \in 1..(k + i) OBVIOUS
    <3> QED BY <2>3, <3>1, <3>2
  <2> QED BY <2>3, <2>4, <2>5 DEF g
<1> QED BY <1>2 DEF SentWithin

\* Entries within H put after an entry of the term they name make a log within H.
LEMMA JoinWithin ==
  ASSUME NEW C, NEW H \in Histories(C), NEW a \in Seq(Entry(C)), Within(a, H), NEW u,
         NEW es \in Seq(Entry(C)), SentWithin(Len(a), u, es, H), a # <<>> => a[Len(a)].term = u
  PROVE  Within(a \o es, H)
<1> DEFINE k == Len(a)
           s == a \o es
<1>1. H \in [Nat -> Seq(Entry(C))] /\ \A t \in Nat : Within(H[t], H) BY DEF Histories
<1>2. k \in Nat /\ Len(es) \in Nat BY TermsOfEntries
<1>3. /\ s \in Seq(Entry(C)) /\ Len(s) = k + Len(es)
      /\ \A i \in 1..(k + Len(es)) : s[i] = IF i <= k THEN a[i] ELSE es[i - k]
  BY ConcatProperties
<1> HIDE DEF s
<1>4. ASSUME NEW i \in 1..k PROVE Agree(s, H[s[i].term], i)
  <2>1. Agree(a, H[a[i].term], i) BY DEF Within
  <2>2. \A j \in 1..i : s[j] = a[j] /\ s[i] = a[i] BY <1>2, <1>3
  <2> QED BY <1>2, <1>3, <2>1, <2>2 DEF Agree
<1>5. ASSUME NEW i \in 1..Len(es) PROVE Agree(s, H[es[i].term], k + i)
  <2> DEFINE g == H[es[i].term]
  <2>1. es[i].term \in Nat BY TermsOfEntries
  <2>2. g \in Seq(Entry(C)) /\ Len(g) \in Nat /\ Within(g, H)
    BY <1>1, <2>1, HistoryLengths
  <2>3. /\ k + i <= Len(g) /\ \A j \in 1..i : g[k + j] = es[j]
        /\ k > 0 => g[k].term = u
    BY DEF SentWithin
  <2> HIDE DEF g
  <2>4. \A j \in 1..k : s[j] = g[j]
    <3>1. CASE k = 0 BY <3>1
    <3>2. CASE k > 0
      <4>1. k \in 1..k /\ k \in 1..Len(g) /\ a # <<>> BY <1>2, <2>2, <2>3, <3>2, EmptySeq
      <4>2. a[k].term = u /\ g[k].term = u BY <2>3, <3>2, <4>1
      <4>3. Agree(a, H[u], k) /\ Agree(g, H[u], k) BY <2>2, <4>1, <4>2 DEF Within
      <4>4. \A j \in 1..k : s[j] = a[j] BY <1>2, <1>3
      <4> QED BY <4>3, <4>4 DEF Agree
    <3> QED BY <1>2, <3>1, <3>2
  <2>5. ASSUME NEW j \in 1..(k + i), ~(j <= k) PROVE s[j] = g[j]
    <3>1. j - k \in 1..i /\ k + (j - k) = j /\ j \in 1..(k + Len(es)) BY <1>2, <2>5
    <3>2. s[j] = es[j - k] BY <1>3, <2>5, <3>1
    <3> QED BY <2>3, <3>1, <3>2
  <2>6. k + i <= Len(s) BY <1>2, <1>3
  <2>7. \A j \in 1..(k + i) : s[j] = g[j]
    <3>1. \A j \in 1..(k + i) : j <= k => j \in 1..k BY <1>2
    <3> QED BY <2>4, <2>5, <3>1
  <2>8. Agree(s, g, k + i) BY <2>3, <2>6, <2>7 DEF Agree
  <2> QED BY <2>8 DEF g
<1>6. ASSUME NEW i \in 1..Len(s) PROVE Agree(s, H[s[i].term], i)
  <2>1. CASE i <= k
    <3>1. i \in 1..k BY <1>2, <1>3, <2>1
    <3> QED BY <1>4, <3>1
  <2>2. CASE ~(i <= k)
    <3>1. i - k \in 1..Len(es) /\ k + (i - k) = i /\ s[i] = es[i - k]
      BY <1>2, <1>3, <2>2
    <3> QED BY <1>5, <3>1
  <2> QED BY <2>1, <2>2
<1> QED BY <1>6 DEF Within, s

LEMMA FirstWithin ==
  ASSUME NEW C, NEW H, NEW s \in Seq(Entry(C)), Within(s, H), NEW k \in Nat
  PROVE  Within(FirstOf(s, k), H)
<1> DEFINE f == FirstOf(s, k)
<1>1. Len(s) \in Nat BY TermsOfEntries
<1>2. Len(f) = Smaller(k, Len(s)) /\ \A j \in 1..Len(f) : f[j] = s[j] BY FirstOfShape
<1> HIDE DEF f
<1>3. ASSUME NEW i \in 1..Len(f) PROVE Agree(f, H[f[i].term], i)
  <2>1. i \in 1..Len(s) /\ Len(f) \in Nat BY <1>1, <1>2 DEF Smaller
  <2>2. Agree(s, H[s[i].term], i) BY <2>1 DEF Within
  <2> QED BY <1>2, <2>1, <2>2 DEF Agree
<1>4. Within(f, H) BY <1>3 DEF Within
<1> QED BY <1>4 DEF f

\* Log matching, of two logs within one H.
LEMMA WithinMatch ==
  ASSUME NEW H, NEW a, NEW b, Within(a, H), Within(b, H), NEW i \in 1..Len(a),
         i \in 1..Len(b), a[i].term = b[i].term, NEW j \in 1..i
  PROVE  a[j] = b[j]
BY DEF Within, Agree
=============================================================================
