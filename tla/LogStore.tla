------------------------------ MODULE LogStore ------------------------------
(***************************************************************************)
(* The in-memory log of a node, src/server-rust/src/raft/log.rs.           *)
(*                                                                         *)
(* A log is a record: the entries after the snapshot boundary, and the     *)
(* index and term of the last entry the snapshot covers (0 when there is   *)
(* none).  An entry carries its own index, as in the code; nothing forces  *)
(* that index to agree with the position the entry sits at, because every  *)
(* look-up is by position.                                                 *)
(***************************************************************************)
EXTENDS Naturals, Sequences, FiniteSets

Smaller(a, b) == IF a <= b THEN a ELSE b
Larger(a, b)  == IF a >= b THEN a ELSE b

Entry(C) == [term : Nat, index : Nat, cmd : C]
Log(C)   == [entries : Seq(Entry(C)), snapIdx : Nat, snapTerm : Nat]

EmptyLog == [entries |-> <<>>, snapIdx |-> 0, snapTerm |-> 0]

LastIndex(l) == l.snapIdx + Len(l.entries)
LastTerm(l)  == IF l.entries = <<>> THEN l.snapTerm
                                    ELSE l.entries[Len(l.entries)].term

\* get(i) is Some: i is past the snapshot and not past the end.
Holds(l, i)  == l.snapIdx < i /\ i <= LastIndex(l)
EntryAt(l, i) == l.entries[i - l.snapIdx]

\* The idiom log.get(i).map(|e| e.term).unwrap_or(0).
TermAt(l, i) == IF Holds(l, i) THEN EntryAt(l, i).term ELSE 0

AppendAll(l, es) == [l EXCEPT !.entries = @ \o es]

\* The first k elements, or all of them when there are fewer.
FirstOf(es, k) == SubSeq(es, 1, Smaller(k, Len(es)))

Truncate(l, from) ==
  [l EXCEPT !.entries = IF from <= l.snapIdx THEN <<>>
                                             ELSE FirstOf(@, from - l.snapIdx - 1)]

\* Mutant of EntriesFrom: off by one.
EntriesAfter(l, i) ==
  IF Holds(l, i) THEN SubSeq(l.entries, i - l.snapIdx + 1, Len(l.entries)) ELSE <<>>

EntriesFrom(l, i) ==
  IF Holds(l, i) THEN SubSeq(l.entries, i - l.snapIdx, Len(l.entries)) ELSE <<>>

\* match_entry: index 0 always matches; at the snapshot boundary the snapshot's
\* term decides, even when that term is 0.
MatchEntry(l, i, t) ==
  \/ i = 0
  \/ i = l.snapIdx /\ t = l.snapTerm
  \/ i # l.snapIdx /\ Holds(l, i) /\ EntryAt(l, i).term = t

\* The elements of es at the positions K, in order (Vec::retain).
Retain(es, K) ==
  [k \in 1..Cardinality(K) |->
     es[CHOOSE j \in K : Cardinality({h \in K : h <= j}) = k]]

\* apply_snapshot drops entries by the index they carry, not by position.
ApplySnapshot(l, i, t) ==
  [entries  |-> Retain(l.entries, {k \in DOMAIN l.entries : l.entries[k].index > i}),
   snapIdx  |-> i,
   snapTerm |-> t]

\* Mutant of UpToDate: an equally long log does not do.
Newer(lastTerm, lastIdx, l) ==
  \/ lastTerm > LastTerm(l)
  \/ lastTerm = LastTerm(l) /\ lastIdx > LastIndex(l)

\* "At least as new as mine", as handle_request_vote and handle_pre_vote ask it.
UpToDate(lastTerm, lastIdx, l) ==
  \/ lastTerm > LastTerm(l)
  \/ lastTerm = LastTerm(l) /\ lastIdx >= LastIndex(l)

\* Every entry sits at the position its index names.
Contiguous(l) == \A k \in DOMAIN l.entries : l.entries[k].index = l.snapIdx + k
=============================================================================
