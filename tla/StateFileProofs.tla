--------------------------- MODULE StateFileProofs --------------------------
(***************************************************************************)
(* What the locks and the state file promise, for any tasks, any mix of    *)
(* the handlers and any number of versions.                                *)
(*                                                                         *)
(* Everything rests on the shape of the handlers: a save is open, write    *)
(* and rename in a row.  That is shown for each handler from its parts;    *)
(* the rest never looks at a handler again.                                *)
(***************************************************************************)
EXTENDS StateFile, SequenceTheorems, TLAPS

Instruction == [op : {"take", "drop", "change", "copy", "open", "write", "rename"},
                lock : Lock \cup {"none"}, mode : Mode \cup {"none"}]

\* A save is not entered in its middle and not left before its end.
SavesInOneGo(p) ==
  \A i \in 1..Len(p) :
    /\ p[i].op = "open"   => i < Len(p) /\ p[i + 1].op = "write"
    /\ p[i].op = "write"  => i < Len(p) /\ p[i + 1].op = "rename" /\ i > 1 /\ p[i - 1].op = "open"
    /\ p[i].op = "rename" => i > 1 /\ p[i - 1].op = "write"

NamesLocks(p) ==
  \A i \in 1..Len(p) : p[i].op \in {"take", "drop"} => p[i].lock \in Lock /\ p[i].mode \in Mode

Handler == {p \in Seq(Instruction) : SavesInOneGo(p) /\ NamesLocks(p)}

\* Steps in a row are what their parts are.
LEMMA OneMore ==
  ASSUME NEW p \in Seq(Instruction), NEW q \in Seq(Instruction), NEW s \in Instruction,
         Len(q) = Len(p) + 1, \A i \in 1..Len(p) : q[i] = p[i], q[Len(p) + 1] = s
  PROVE  q = p \o <<s>>
<1>1. <<s>> \in Seq(Instruction) /\ Len(<<s>>) = 1 /\ <<s>>[1] = s OBVIOUS
<1>2. /\ p \o <<s>> \in Seq(Instruction) /\ Len(p \o <<s>>) = Len(p) + 1
      /\ \A i \in 1..Len(p) + 1 : (p \o <<s>>)[i] = IF i <= Len(p) THEN p[i] ELSE <<s>>[i - Len(p)]
  BY <1>1, ConcatProperties
<1>3. Len(p) \in Nat BY LenProperties
<1>4. \A i \in 1..Len(p) + 1 : (p \o <<s>>)[i] = q[i]
  <2> TAKE i \in 1..Len(p) + 1
  <2>1. CASE i <= Len(p) BY <1>2, <1>3, <2>1
  <2>2. CASE i = Len(p) + 1
    <3>1. i - Len(p) = 1 /\ ~ (i <= Len(p)) BY <1>3, <2>2
    <3> QED BY <1>1, <1>2, <2>2, <3>1
  <2> QED BY <1>3, <2>1, <2>2
<1> HIDE DEF Instruction
<1> QED BY <1>2, <1>4, SeqEqual

LEMMA TwoInARow ==
  ASSUME NEW a \in Instruction, NEW b \in Instruction
  PROVE  <<a, b>> = <<a>> \o <<b>>
<1>1. /\ <<a>> \in Seq(Instruction) /\ Len(<<a>>) = 1 /\ <<a>>[1] = a
      /\ <<a, b>> \in Seq(Instruction) /\ Len(<<a, b>>) = 2
      /\ <<a, b>>[1] = a /\ <<a, b>>[2] = b
  OBVIOUS
<1>2. \A i \in 1..Len(<<a>>) : <<a, b>>[i] = <<a>>[i] BY <1>1
<1>3. Len(<<a, b>>) = Len(<<a>>) + 1 /\ <<a, b>>[Len(<<a>>) + 1] = b BY <1>1
<1> HIDE DEF Instruction
<1> QED BY <1>1, <1>2, <1>3, OneMore

LEMMA ThreeInARow ==
  ASSUME NEW a \in Instruction, NEW b \in Instruction, NEW c \in Instruction
  PROVE  <<a, b, c>> = <<a>> \o <<b>> \o <<c>>
<1>1. /\ <<a, b>> \in Seq(Instruction) /\ Len(<<a, b>>) = 2
      /\ <<a, b>>[1] = a /\ <<a, b>>[2] = b
      /\ <<a, b, c>> \in Seq(Instruction) /\ Len(<<a, b, c>>) = 3
      /\ <<a, b, c>>[1] = a /\ <<a, b, c>>[2] = b /\ <<a, b, c>>[3] = c
  OBVIOUS
<1>2. \A i \in 1..Len(<<a, b>>) : <<a, b, c>>[i] = <<a, b>>[i] BY <1>1
<1>3. Len(<<a, b, c>>) = Len(<<a, b>>) + 1 /\ <<a, b, c>>[Len(<<a, b>>) + 1] = c BY <1>1
<1>4. <<a, b, c>> = <<a, b>> \o <<c>> BY <1>1, <1>2, <1>3, OneMore
<1> QED BY <1>4, TwoInARow

\* A take or a drop.
LEMMA LockInstructions ==
  \A l \in Lock, m \in Mode : Take(l, m) \in Instruction /\ Drop(l, m) \in Instruction
BY DEF Take, Drop, Instruction

LEMMA HandlerThenHandler ==
  ASSUME NEW p \in Handler, NEW q \in Handler
  PROVE  p \o q \in Handler
<1> DEFINE m == Len(p)
           n == Len(q)
           r == p \o q
<1>1. p \in Seq(Instruction) /\ q \in Seq(Instruction) BY DEF Handler
<1>2. m \in Nat /\ n \in Nat BY <1>1, LenProperties
<1>3. /\ r \in Seq(Instruction) /\ Len(r) = m + n
      /\ \A i \in 1..m + n : r[i] = IF i <= m THEN p[i] ELSE q[i - m]
  BY <1>1, ConcatProperties
<1> HIDE DEF r
<1>4. \A i \in 1..m : i \in 1..m + n /\ r[i] = p[i] BY <1>2, <1>3
<1>5. \A i \in 1..n : m + i \in 1..m + n /\ r[m + i] = q[i]
  <2> SUFFICES ASSUME NEW i \in 1..n PROVE m + i \in 1..m + n /\ r[m + i] = q[i] OBVIOUS
  <2>1. m + i \in 1..m + n /\ ~ (m + i <= m) /\ m + i - m = i BY <1>2
  <2> QED BY <1>3, <2>1
<1> HIDE DEF m, n
<1>6. SavesInOneGo(r)
  <2> SUFFICES ASSUME NEW i \in 1..Len(r)
        PROVE /\ r[i].op = "open"   => i < Len(r) /\ r[i + 1].op = "write"
              /\ r[i].op = "write"  => i < Len(r) /\ r[i + 1].op = "rename"
                                         /\ i > 1 /\ r[i - 1].op = "open"
              /\ r[i].op = "rename" => i > 1 /\ r[i - 1].op = "write"
    BY DEF SavesInOneGo
  <2>1. CASE i <= m
    <3>1. i \in 1..m /\ r[i] = p[i] BY <1>2, <1>3, <1>4, <2>1
    <3>2. /\ i < m => i + 1 \in 1..m
          /\ i > 1 => i - 1 \in 1..m
      BY <1>2, <3>1
    <3>3. /\ p[i].op = "open"   => i < m /\ p[i + 1].op = "write"
          /\ p[i].op = "write"  => i < m /\ p[i + 1].op = "rename" /\ i > 1 /\ p[i - 1].op = "open"
          /\ p[i].op = "rename" => i > 1 /\ p[i - 1].op = "write"
      BY <3>1 DEF Handler, SavesInOneGo, m
    <3>4. i < m => i < Len(r) /\ r[i + 1] = p[i + 1] BY <1>2, <1>3, <1>4, <3>1, <3>2
    <3>5. i > 1 => r[i - 1] = p[i - 1] BY <1>4, <3>2
    <3> QED BY <3>1, <3>3, <3>4, <3>5
  <2>2. CASE ~ (i <= m)
    <3> DEFINE j == i - m
    <3>1. j \in 1..n /\ i = m + j /\ i \in Nat BY <1>2, <1>3, <2>2
    <3> HIDE DEF j
    <3>2. r[i] = q[j] BY <1>5, <3>1
    <3>3. /\ q[j].op = "open"   => j < n /\ q[j + 1].op = "write"
          /\ q[j].op = "write"  => j < n /\ q[j + 1].op = "rename" /\ j > 1 /\ q[j - 1].op = "open"
          /\ q[j].op = "rename" => j > 1 /\ q[j - 1].op = "write"
      BY <3>1 DEF Handler, SavesInOneGo, n
    <3>4. j < n => i < Len(r) /\ r[i + 1] = q[j + 1]
      <4> SUFFICES ASSUME j < n PROVE i < Len(r) /\ r[i + 1] = q[j + 1] OBVIOUS
      <4>1. j + 1 \in 1..n /\ i + 1 = m + (j + 1) /\ i < m + n BY <1>2, <3>1
      <4> QED BY <1>3, <1>5, <4>1
    <3>5. j > 1 => i > 1 /\ r[i - 1] = q[j - 1]
      <4> SUFFICES ASSUME j > 1 PROVE i > 1 /\ r[i - 1] = q[j - 1] OBVIOUS
      <4>1. j - 1 \in 1..n /\ i - 1 = m + (j - 1) /\ i > 1 BY <1>2, <3>1
      <4> QED BY <1>5, <4>1
    <3> QED BY <3>2, <3>3, <3>4, <3>5
  <2> QED BY <2>1, <2>2
<1>7. NamesLocks(r)
  <2> SUFFICES ASSUME NEW i \in 1..Len(r), r[i].op \in {"take", "drop"}
               PROVE  r[i].lock \in Lock /\ r[i].mode \in Mode
    BY DEF NamesLocks
  <2>1. CASE i <= m
    <3>1. i \in 1..m /\ r[i] = p[i] BY <1>2, <1>3, <1>4, <2>1
    <3> QED BY <3>1 DEF Handler, NamesLocks, m
  <2>2. CASE ~ (i <= m)
    <3>1. i - m \in 1..n /\ r[i] = q[i - m] BY <1>2, <1>3, <2>2
    <3> QED BY <3>1 DEF Handler, NamesLocks, n
  <2> QED BY <2>1, <2>2
<1> QED BY <1>3, <1>6, <1>7 DEF Handler, r

\* One step that is not part of a save is a handler, and so is a save.
LEMMA StepIsHandler ==
  ASSUME NEW s \in Instruction, s.op \notin {"open", "write", "rename"},
         s.op \in {"take", "drop"} => s.lock \in Lock /\ s.mode \in Mode
  PROVE  <<s>> \in Handler
<1>1. <<s>> \in Seq(Instruction) /\ Len(<<s>>) = 1 /\ <<s>>[1] = s OBVIOUS
<1>2. \A i \in 1..Len(<<s>>) : <<s>>[i] = s BY <1>1
<1> QED BY <1>1, <1>2 DEF Handler, SavesInOneGo, NamesLocks

LEMMA SaveIsHandler == Save \in Handler
<1> DEFINE o == [op |-> "open", lock |-> "none", mode |-> "none"]
           w == [op |-> "write", lock |-> "none", mode |-> "none"]
           r == [op |-> "rename", lock |-> "none", mode |-> "none"]
<1>0. Do("open") = <<o>> /\ Do("write") = <<w>> /\ Do("rename") = <<r>> BY DEF Do
<1>2. o \in Instruction /\ w \in Instruction /\ r \in Instruction BY DEF Instruction
<1>1. Save = <<o, w, r>>
  <2> HIDE DEF o, w, r
  <2>1. <<o, w, r>> = <<o>> \o <<w>> \o <<r>> BY <1>2, ThreeInARow
  <2> QED BY <1>0, <2>1 DEF Save
<1>3. /\ <<o, w, r>> \in Seq(Instruction) /\ Len(<<o, w, r>>) = 3
      /\ <<o, w, r>>[1] = o /\ <<o, w, r>>[2] = w /\ <<o, w, r>>[3] = r
  BY <1>2
<1>4. o.op = "open" /\ w.op = "write" /\ r.op = "rename" OBVIOUS
<1> HIDE DEF o, w, r
<1>5. SavesInOneGo(Save)
  <2> SUFFICES ASSUME NEW i \in 1..3
        PROVE /\ Save[i].op = "open"   => i < 3 /\ Save[i + 1].op = "write"
              /\ Save[i].op = "write"  => i < 3 /\ Save[i + 1].op = "rename"
                                            /\ i > 1 /\ Save[i - 1].op = "open"
              /\ Save[i].op = "rename" => i > 1 /\ Save[i - 1].op = "write"
    BY <1>1, <1>3 DEF SavesInOneGo
  <2>1. i = 1 \/ i = 2 \/ i = 3 OBVIOUS
  <2> QED BY <1>1, <1>3, <1>4, <2>1
<1>6. NamesLocks(Save)
  <2>1. \A i \in 1..3 : Save[i].op \notin {"take", "drop"}
    <3> TAKE i \in 1..3
    <3>1. i = 1 \/ i = 2 \/ i = 3 OBVIOUS
    <3> QED BY <1>1, <1>3, <1>4, <3>1
  <2> QED BY <1>1, <1>3, <2>1 DEF NamesLocks
<1> QED BY <1>1, <1>3, <1>5, <1>6 DEF Handler

LEMMA PartsAreHandlers ==
  /\ \A l \in Lock, m \in Mode : /\ <<Take(l, m)>> \in Handler /\ <<Drop(l, m)>> \in Handler
                                 /\ Hold(l, m) \in Handler
  /\ Do("change") \in Handler /\ Do("copy") \in Handler /\ Save \in Handler
<1>1. ASSUME NEW l \in Lock, NEW m \in Mode
      PROVE  /\ <<Take(l, m)>> \in Handler /\ <<Drop(l, m)>> \in Handler
             /\ Hold(l, m) \in Handler
  <2>1. <<Take(l, m)>> \in Handler
    <3>1. Take(l, m) \in Instruction /\ Take(l, m).op = "take"
          /\ Take(l, m).lock = l /\ Take(l, m).mode = m
      BY DEF Take, Instruction
    <3> QED BY <3>1, StepIsHandler
  <2>2. <<Drop(l, m)>> \in Handler
    <3>1. Drop(l, m) \in Instruction /\ Drop(l, m).op = "drop"
          /\ Drop(l, m).lock = l /\ Drop(l, m).mode = m
      BY DEF Drop, Instruction
    <3> QED BY <3>1, StepIsHandler
  <2>3. Hold(l, m) = <<Take(l, m)>> \o <<Drop(l, m)>> BY TwoInARow, LockInstructions DEF Hold
  <2> QED BY <2>1, <2>2, <2>3, HandlerThenHandler
<1>2. ASSUME NEW op \in {"change", "copy"} PROVE Do(op) \in Handler
  <2> DEFINE s == [op |-> op, lock |-> "none", mode |-> "none"]
  <2>1. s \in Instruction /\ s.op = op BY DEF Instruction
  <2>2. <<s>> \in Handler
    <3> HIDE DEF s
    <3> QED BY <2>1, StepIsHandler
  <2> QED BY <2>2 DEF Do
<1> QED BY <1>1, <1>2, SaveIsHandler

\* Every task of the node runs a handler of that shape.
LEMMA ProgramsAreHandlers == \A kind \in Kind : Program(kind) \in Handler
<1> USE PartsAreHandlers, HandlerThenHandler DEF Lock, Mode
<1>1. ApplyCommitted \in Handler
  <2>1. /\ <<Take("log", "read"), Take("state", "write")>>
             = <<Take("log", "read")>> \o <<Take("state", "write")>>
        /\ <<Drop("state", "write"), Drop("log", "read")>>
             = <<Drop("state", "write")>> \o <<Drop("log", "read")>>
    BY TwoInARow, LockInstructions
  <2> QED BY <2>1 DEF ApplyCommitted
<1>2. AppendEntries \in Handler
  <2>1. /\ <<Take("state", "write"), Take("log", "write")>>
             = <<Take("state", "write")>> \o <<Take("log", "write")>>
        /\ <<Drop("log", "write"), Drop("state", "write")>>
             = <<Drop("log", "write")>> \o <<Drop("state", "write")>>
    BY TwoInARow, LockInstructions
  <2> QED BY <2>1 DEF AppendEntries
<1>3. PutOrDelete \in Handler
  <2>1. /\ <<Take("state", "read"), Take("log", "write")>>
             = <<Take("state", "read")>> \o <<Take("log", "write")>>
        /\ <<Drop("log", "write"), Drop("state", "read")>>
             = <<Drop("log", "write")>> \o <<Drop("state", "read")>>
    BY TwoInARow, LockInstructions
  <2> QED BY <2>1 DEF PutOrDelete
<1>4. VoteGranted \in Handler
  <2>1. <<Drop("log", "read"), Drop("state", "write")>>
          = <<Drop("log", "read")>> \o <<Drop("state", "write")>>
    BY TwoInARow, LockInstructions
  <2> QED BY <2>1 DEF VoteGranted
<1>5. RealElection \in Handler
  <2>1. <<Drop("log", "read"), Drop("state", "write")>>
          = <<Drop("log", "read")>> \o <<Drop("state", "write")>>
    BY TwoInARow, LockInstructions
  <2> QED BY <2>1 DEF RealElection
<1>6. Heartbeat \in Handler BY DEF Heartbeat
<1>7. ReceiveAnswer \in Handler BY DEF ReceiveAnswer
<1>8. TransferLeader \in Handler BY DEF TransferLeader
<1>9. CreateSnapshot \in Handler
  <2>1. /\ <<Take("state", "read"), Take("log", "read")>>
             = <<Take("state", "read")>> \o <<Take("log", "read")>>
        /\ <<Drop("log", "read"), Drop("state", "read")>>
             = <<Drop("log", "read")>> \o <<Drop("state", "read")>>
    BY TwoInARow, LockInstructions
  <2> QED BY <2>1 DEF CreateSnapshot
<1>10. CandidatePass \in Handler /\ LeaderPass \in Handler
  BY <1>5, <1>6, <1>9 DEF CandidatePass, LeaderPass
<1> QED BY <1>1, <1>2, <1>3, <1>4, <1>7, <1>8, <1>10 DEF Program, Kind

LEMMA CodeFacts ==
  ASSUME runs \in Mixes, NEW t \in Task
  PROVE  Code(t) \in Handler /\ Code(t) \in Seq(Instruction) /\ Len(Code(t)) \in Nat
<1>1. runs[t] \in Kind BY MixesAssumption
<1>2. Code(t) \in Handler BY <1>1, ProgramsAreHandlers DEF Code
<1> QED BY <1>2, LenProperties DEF Handler

-----------------------------------------------------------------------------
(* Locks. *)

Waiter == [task : Task, mode : Mode]

\* Where a[t] is in what t runs, it takes l.
AtTake(r, a, t, l) ==
  LET p == Program(r[t])
  IN  a[t] <= Len(p) /\ p[a[t]].op = "take" /\ p[a[t]].lock = l

\* Who waits is at a step that takes this lock, and waits once.
QueueInv ==
  \A l \in Lock :
    /\ \A i \in 1..Len(queue[l]) : AtTake(runs, at, queue[l][i].task, l)
    /\ \A i, j \in 1..Len(queue[l]) : queue[l][i].task = queue[l][j].task => i = j

LockInv == TypeOK /\ QueueInv

LEMMA QueueFacts ==
  ASSUME TypeOK, NEW l \in Lock
  PROVE  /\ queue[l] \in Seq(Waiter) /\ Len(queue[l]) \in Nat
         /\ \A i \in 1..Len(queue[l]) : queue[l][i] \in Waiter
         /\ DOMAIN queue[l] = 1..Len(queue[l])
<1>1. queue[l] \in Seq(Waiter) BY DEF TypeOK, Waiter
<1> QED BY <1>1, LenProperties, ElementOfSeq

LEMMA StepFacts ==
  ASSUME TypeOK, NEW t \in Task, ~Done(t)
  PROVE  /\ at[t] \in 1..Len(Code(t)) /\ at[t] \in Nat /\ Step(t) \in Instruction
         /\ Step(t).op \in {"take", "drop"} => Step(t).lock \in Lock /\ Step(t).mode \in Mode
<1>1. at[t] \in 1..Len(Code(t)) /\ at[t] \in Nat BY CodeFacts DEF TypeOK, Done
<1>2. Code(t)[at[t]] \in Instruction BY <1>1, CodeFacts, ElementOfSeq DEF TypeOK
<1>3. Code(t)[at[t]].op \in {"take", "drop"}
        => Code(t)[at[t]].lock \in Lock /\ Code(t)[at[t]].mode \in Mode
  BY <1>1, CodeFacts DEF Handler, NamesLocks, TypeOK
<1> QED BY <1>1, <1>2, <1>3 DEF Step

\* A lock that is free for m stays one writer's or many readers' when it is taken.
LEMMA TakenTypes ==
  ASSUME TypeOK, NEW t \in Task, NEW l \in Lock, NEW m \in Mode, Free(l, m), Taken(l, t, m)
  PROVE  /\ at' \in [Task -> Nat \ {0}]
         /\ held' \in [Lock -> SUBSET [task : Task, mode : Mode, by : Nat]]
         /\ \A k \in Lock : \A g, h \in held'[k] : g # h => g.mode = "read" /\ h.mode = "read"
<1> DEFINE n == [task |-> t, mode |-> m, by |-> at[t]]
<1>1. at' = [at EXCEPT ![t] = @ + 1] /\ held' = [held EXCEPT ![l] = held[l] \cup {n}]
  BY DEF Taken
<1>2. n \in [task : Task, mode : Mode, by : Nat] /\ n.mode = m BY DEF TypeOK
<1> HIDE DEF n
<1>3. at' \in [Task -> Nat \ {0}]
      /\ held' \in [Lock -> SUBSET [task : Task, mode : Mode, by : Nat]]
  BY <1>1, <1>2 DEF TypeOK
<1>4. ASSUME NEW k \in Lock, NEW g \in held'[k], NEW h \in held'[k], g # h
      PROVE  g.mode = "read" /\ h.mode = "read"
  <2>1. CASE k = l
    <3>1. held'[k] = held[l] \cup {n} BY <1>1, <2>1 DEF TypeOK
    <3>2. \A x \in held[l] : m = "read" /\ x.mode = "read" BY DEF Free
    <3> QED BY <1>2, <1>4, <3>1, <3>2
  <2>2. CASE k # l
    <3>1. held'[k] = held[k] BY <1>1, <2>2 DEF TypeOK
    <3> QED BY <1>4, <3>1 DEF TypeOK
  <2> QED BY <2>1, <2>2
<1> QED BY <1>3, <1>4

\* A step of a task that waits for nothing leaves the queues right.
LEMMA OthersWait ==
  ASSUME LockInv, NEW t \in Task, ~Waiting(t), UNCHANGED <<runs, queue>>,
         \A u \in Task \ {t} : at'[u] = at[u]
  PROVE  QueueInv'
<1>1. ASSUME NEW l \in Lock, NEW i \in 1..Len(queue[l])
      PROVE  AtTake(runs, at', queue[l][i].task, l)
  <2>1. queue[l][i].task \in Task /\ queue[l][i].task # t
    BY QueueFacts DEF LockInv, Waiting, Waiter
  <2>2. AtTake(runs, at, queue[l][i].task, l) BY DEF LockInv, QueueInv
  <2> QED BY <2>1, <2>2 DEF AtTake
<1>2. UNCHANGED <<runs, queue>> OBVIOUS
<1> QED BY <1>1, <1>2 DEF LockInv, QueueInv

\* One task steps, or one lock is handed over.
LEMMA AcquireKeeps ==
  ASSUME LockInv, NEW t \in Task, Acquire(t)
  PROVE  LockInv'
<1> DEFINE s == Step(t)
<1>1. /\ ~Done(t) /\ ~Waiting(t) /\ s.op = "take" /\ Free(s.lock, s.mode)
      /\ Taken(s.lock, t, s.mode) /\ UNCHANGED <<runs, queue>>
  BY DEF Acquire, Ready
<1>2. s.lock \in Lock /\ s.mode \in Mode BY <1>1, StepFacts DEF LockInv
<1> HIDE DEF s
<1>3. TypeOK'
  <2>1. TypeOK BY DEF LockInv
  <2>2. /\ at' \in [Task -> Nat \ {0}]
        /\ held' \in [Lock -> SUBSET [task : Task, mode : Mode, by : Nat]]
        /\ \A k \in Lock : \A g, h \in held'[k] : g # h => g.mode = "read" /\ h.mode = "read"
    BY <1>1, <1>2, <2>1, TakenTypes
  <2> QED BY <1>1, <2>1, <2>2 DEF TypeOK
<1>4. \A u \in Task \ {t} : at'[u] = at[u] BY <1>1 DEF Taken, LockInv, TypeOK
<1> QED BY <1>1, <1>3, <1>4, OthersWait DEF LockInv

LEMMA RequestKeeps ==
  ASSUME LockInv, NEW t \in Task, Request(t)
  PROVE  LockInv'
<1> DEFINE k == Step(t).lock
           w == [task |-> t, mode |-> Step(t).mode]
<1>1. /\ ~Done(t) /\ ~Waiting(t) /\ Step(t).op = "take" /\ UNCHANGED <<runs, at, held>>
      /\ queue' = [queue EXCEPT ![k] = Append(queue[k], w)]
  BY DEF Request, Ready
<1>2. k \in Lock /\ w \in Waiter BY <1>1, StepFacts DEF LockInv, Waiter
<1>3. w.task = t OBVIOUS
<1>4. AtTake(runs, at, t, k)
  BY <1>1, CodeFacts DEF AtTake, Done, Step, Code, LockInv, TypeOK
<1> HIDE DEF k, w
<1>5. /\ Append(queue[k], w) \in Seq(Waiter) /\ Len(Append(queue[k], w)) = Len(queue[k]) + 1
      /\ \A i \in 1..Len(queue[k]) : Append(queue[k], w)[i] = queue[k][i]
      /\ Append(queue[k], w)[Len(queue[k]) + 1] = w /\ Len(queue[k]) \in Nat
  BY <1>2, QueueFacts, AppendProperties DEF LockInv
<1>6. /\ queue'[k] = Append(queue[k], w)
      /\ \A l \in Lock \ {k} : queue'[l] = queue[l]
  BY <1>1, <1>2 DEF LockInv, TypeOK
<1>7. TypeOK'
  <2>1. queue' \in [Lock -> Seq(Waiter)] BY <1>1, <1>2, <1>5 DEF LockInv, TypeOK, Waiter
  <2> QED BY <1>1, <2>1 DEF LockInv, TypeOK, Waiter
<1>8. \A l \in Lock : \A i \in 1..Len(queue[l]) : queue[l][i].task # t
  BY <1>1, QueueFacts DEF Waiting, LockInv
<1>9. UNCHANGED <<runs, at>> BY <1>1
<1>10. QueueInv'
  <2>1. ASSUME NEW l \in Lock \ {k}
        PROVE  /\ \A i \in 1..Len(queue'[l]) : AtTake(runs, at, queue'[l][i].task, l)
               /\ \A i, j \in 1..Len(queue'[l]) : queue'[l][i].task = queue'[l][j].task => i = j
    BY <1>6, <1>9 DEF LockInv, QueueInv
  <2>2. \A i \in 1..Len(queue'[k]) :
          \/ i \in 1..Len(queue[k]) /\ queue'[k][i] = queue[k][i]
          \/ i = Len(queue[k]) + 1 /\ queue'[k][i] = w
    BY <1>5, <1>6
  <2>3. ASSUME NEW i \in 1..Len(queue'[k]) PROVE AtTake(runs, at, queue'[k][i].task, k)
    BY <1>2, <1>3, <1>4, <2>2 DEF LockInv, QueueInv
  <2>4. ASSUME NEW i \in 1..Len(queue'[k]), NEW j \in 1..Len(queue'[k]),
               queue'[k][i].task = queue'[k][j].task
        PROVE  i = j
    <3>1. CASE i \in 1..Len(queue[k]) /\ j \in 1..Len(queue[k])
      <4>1. queue[k][i].task = queue[k][j].task BY <1>5, <1>6, <2>4, <3>1
      <4> QED BY <1>2, <3>1, <4>1 DEF LockInv, QueueInv
    <3>2. CASE ~ (i \in 1..Len(queue[k]) /\ j \in 1..Len(queue[k]))
      BY <1>2, <1>3, <1>8, <2>2, <2>4, <3>2
    <3> QED BY <3>1, <3>2
  <2> QED BY <1>9, <2>1, <2>3, <2>4 DEF QueueInv
<1> QED BY <1>7, <1>10 DEF LockInv

LEMMA GrantKeeps ==
  ASSUME LockInv, NEW k \in Lock, Grant(k)
  PROVE  /\ LockInv'
         /\ \E t \in Task : /\ ~Done(t) /\ Step(t).op = "take" /\ UNCHANGED runs
                            /\ at' = [at EXCEPT ![t] = at[t] + 1]
<1> DEFINE h == Head(queue[k])
           t == h.task
<1>1. /\ queue[k] # <<>> /\ Free(k, h.mode) /\ Taken(k, t, h.mode) /\ UNCHANGED runs
      /\ queue' = [queue EXCEPT ![k] = Tail(queue[k])]
  BY DEF Grant
<1>2. /\ queue[k] \in Seq(Waiter) /\ Len(queue[k]) \in Nat \ {0} /\ h = queue[k][1]
      /\ Tail(queue[k]) \in Seq(Waiter) /\ Len(Tail(queue[k])) = Len(queue[k]) - 1
      /\ \A i \in 1..Len(Tail(queue[k])) : Tail(queue[k])[i] = queue[k][i + 1]
  BY <1>1, QueueFacts, EmptySeq, HeadTailProperties DEF LockInv
<1>3. h \in Waiter BY <1>2, QueueFacts DEF LockInv
<1>4. t \in Task /\ h.mode \in Mode BY <1>3 DEF Waiter
<1>5. AtTake(runs, at, t, k) /\ \A i \in 1..Len(queue[k]) : queue[k][i].task = t => i = 1
  BY <1>2 DEF LockInv, QueueInv
<1> HIDE DEF h, t
<1>6. TypeOK'
  <2>1. TypeOK BY DEF LockInv
  <2>2. /\ at' \in [Task -> Nat \ {0}]
        /\ held' \in [Lock -> SUBSET [task : Task, mode : Mode, by : Nat]]
        /\ \A l \in Lock : \A f, g \in held'[l] : f # g => f.mode = "read" /\ g.mode = "read"
    BY <1>1, <1>4, <2>1, TakenTypes
  <2>3. queue' \in [Lock -> Seq([task : Task, mode : Mode])]
    BY <1>1, <1>2, <2>1 DEF TypeOK, Waiter
  <2> QED BY <1>1, <2>1, <2>2, <2>3 DEF TypeOK
<1>7. at' = [at EXCEPT ![t] = at[t] + 1] BY <1>1 DEF Taken
<1>8. /\ queue'[k] = Tail(queue[k])
      /\ \A l \in Lock \ {k} : queue'[l] = queue[l]
  BY <1>1 DEF LockInv, TypeOK
<1>9. \A u \in Task \ {t} : \A l \in Lock : AtTake(runs, at, u, l) => AtTake(runs, at', u, l)
  BY <1>7 DEF AtTake, LockInv, TypeOK
<1>10. ASSUME NEW l \in Lock
       PROVE  /\ \A i \in 1..Len(queue'[l]) : AtTake(runs, at', queue'[l][i].task, l)
              /\ \A i, j \in 1..Len(queue'[l]) : queue'[l][i].task = queue'[l][j].task => i = j
  <2>1. CASE l = k
    <3>1. \A i \in 1..Len(queue'[k]) :
            i \in Nat /\ i + 1 \in 2..Len(queue[k]) /\ i + 1 \in 1..Len(queue[k])
              /\ i + 1 # 1 /\ queue'[k][i] = queue[k][i + 1]
      BY <1>2, <1>8
    <3>2. \A i \in 1..Len(queue'[k]) : queue'[k][i].task \in Task \ {t}
      BY <1>5, <3>1, QueueFacts DEF LockInv, Waiter
    <3>3. \A i \in 1..Len(queue'[k]) : AtTake(runs, at, queue'[k][i].task, k)
      BY <3>1 DEF LockInv, QueueInv
    <3>4. \A i \in 1..Len(queue'[k]) : AtTake(runs, at', queue'[k][i].task, k) BY <1>9, <3>2, <3>3
    <3>5. ASSUME NEW i \in 1..Len(queue'[k]), NEW j \in 1..Len(queue'[k]),
                 queue'[k][i].task = queue'[k][j].task
          PROVE  i = j
      <4>1. /\ i + 1 \in 1..Len(queue[k]) /\ j + 1 \in 1..Len(queue[k])
            /\ queue[k][i + 1].task = queue[k][j + 1].task
        BY <3>1, <3>5
      <4>2. i + 1 = j + 1 BY <4>1 DEF LockInv, QueueInv
      <4> QED BY <3>1, <4>2
    <3> QED BY <2>1, <3>4, <3>5
  <2>2. CASE l # k
    <3>1. queue'[l] = queue[l] BY <1>8, <2>2
    <3>2. \A i \in 1..Len(queue[l]) : queue[l][i].task \in Task /\ AtTake(runs, at, queue[l][i].task, l)
      BY QueueFacts DEF LockInv, QueueInv, Waiter
    <3>3. \A i \in 1..Len(queue[l]) : queue[l][i].task # t
      BY <1>5, <2>2, <3>2 DEF AtTake
    <3> QED BY <1>9, <3>1, <3>2, <3>3 DEF LockInv, QueueInv
  <2> QED BY <2>1, <2>2
<1>11. QueueInv' BY <1>1, <1>10 DEF QueueInv
<1>12. ~Done(t) /\ Step(t).op = "take"
  BY <1>4, <1>5, CodeFacts DEF AtTake, Done, Step, Code, LockInv, TypeOK
<1> QED BY <1>1, <1>4, <1>6, <1>7, <1>11, <1>12 DEF LockInv

LEMMA ReleaseKeeps ==
  ASSUME LockInv, NEW t \in Task, Release(t)
  PROVE  LockInv'
<1> DEFINE k == Step(t).lock
           mine == {h \in held[k] : h.task = t /\ h.mode = Step(t).mode}
<1>1. /\ ~Done(t) /\ ~Waiting(t) /\ Step(t).op = "drop" /\ UNCHANGED <<runs, queue>>
      /\ at' = [at EXCEPT ![t] = at[t] + 1]
      /\ \E h \in mine : held' = [held EXCEPT ![k] = held[k] \ {h}]
  BY DEF Release, Ready
<1>2. k \in Lock BY <1>1, StepFacts DEF LockInv
<1>3. PICK h \in mine : held' = [held EXCEPT ![k] = held[k] \ {h}] BY <1>1
<1> HIDE DEF k, mine
<1>6. /\ at' \in [Task -> Nat \ {0}]
      /\ held' \in [Lock -> SUBSET [task : Task, mode : Mode, by : Nat]]
      /\ \A l \in Lock : held'[l] \subseteq held[l]
  BY <1>1, <1>2, <1>3 DEF LockInv, TypeOK
<1>4. TypeOK' BY <1>1, <1>6 DEF LockInv, TypeOK
<1>5. \A u \in Task \ {t} : at'[u] = at[u] BY <1>1 DEF LockInv, TypeOK
<1> QED BY <1>1, <1>4, <1>5, OthersWait DEF LockInv

LEMMA WorkKeeps ==
  ASSUME LockInv, NEW t \in Task, NEW op, Work(t, op)
  PROVE  LockInv' /\ ~Done(t) /\ Step(t).op = op /\ UNCHANGED runs
         /\ at' = [at EXCEPT ![t] = at[t] + 1]
<1>1. /\ ~Done(t) /\ ~Waiting(t) /\ Step(t).op = op /\ UNCHANGED <<runs, held, queue>>
      /\ at' = [at EXCEPT ![t] = at[t] + 1]
  BY DEF Work, Ready
<1>4. at' \in [Task -> Nat \ {0}] BY <1>1 DEF LockInv, TypeOK
<1>2. TypeOK' BY <1>1, <1>4 DEF LockInv, TypeOK
<1>3. \A u \in Task \ {t} : at'[u] = at[u] BY <1>1 DEF LockInv, TypeOK
<1> QED BY <1>1, <1>2, <1>3, OthersWait DEF LockInv

\* What a step of the locks does to the programs: one task at most goes on, from a take
\* or a drop.
LEMMA LockStepKeeps ==
  ASSUME LockInv, LockStep
  PROVE  /\ LockInv' /\ UNCHANGED runs
         /\ \/ UNCHANGED at
            \/ \E t \in Task : /\ ~Done(t) /\ Step(t).op \in {"take", "drop"}
                               /\ at' = [at EXCEPT ![t] = at[t] + 1]
<1>1. ASSUME NEW t \in Task, Acquire(t)
      PROVE  /\ LockInv' /\ UNCHANGED runs /\ ~Done(t) /\ Step(t).op = "take"
             /\ at' = [at EXCEPT ![t] = at[t] + 1]
  BY <1>1, AcquireKeeps DEF Acquire, Ready, Taken
<1>2. ASSUME NEW t \in Task, Request(t) PROVE LockInv' /\ UNCHANGED <<runs, at>>
  BY <1>2, RequestKeeps DEF Request
<1>3. ASSUME NEW t \in Task, Release(t)
      PROVE  /\ LockInv' /\ UNCHANGED runs /\ ~Done(t) /\ Step(t).op = "drop"
             /\ at' = [at EXCEPT ![t] = at[t] + 1]
  BY <1>3, ReleaseKeeps DEF Release, Ready
<1> QED BY <1>1, <1>2, <1>3, GrantKeeps DEF LockStep

LEMMA LockInvInit == ASSUME Init PROVE LockInv
<1>1. \A l \in Lock : queue[l] = <<>> /\ Len(queue[l]) = 0 BY DEF Init
<1>2. TypeOK
  <2>1. queue \in [Lock -> Seq([task : Task, mode : Mode])] BY DEF Init
  <2> QED BY <2>1 DEF Init, TypeOK
<1>3. QueueInv BY <1>1 DEF QueueInv
<1> QED BY <1>2, <1>3 DEF LockInv

\* Whatever handlers run next to each other, a lock that is held to write is held by
\* nobody else, and no one is handed a lock that he does not wait for.
THEOREM LocksExclude == Spec => []TypeOK
<1>1. Init => LockInv BY LockInvInit
<1>2. LockInv /\ [Next]_vars => LockInv'
  <2> SUFFICES ASSUME LockInv, [Next]_vars PROVE LockInv' OBVIOUS
  <2>1. CASE UNCHANGED vars
    BY <2>1 DEF vars, LockInv, TypeOK, QueueInv
  <2> QED BY <2>1, LockStepKeeps, WorkKeeps DEF Next
<1>3. LockInv => TypeOK BY DEF LockInv
<1> QED BY <1>1, <1>2, <1>3, PTL DEF Spec

-----------------------------------------------------------------------------
(* The state file. *)

Writes(t)  == ~Done(t) /\ Step(t).op = "write"
Renames(t) == ~Done(t) /\ Step(t).op = "rename"

\* What is open goes by a name that exists.
FdInv ==
  /\ (\E t \in Task : fd[t] = "temp") => temp # Nil
  /\ (\E t \in Task : fd[t] = "file") => file # Nil

\* One task at a time is in a save, and json.tmp holds as much as it has written.
OneSave ==
  /\ \A t, u \in Task : Saving(t) /\ Saving(u) => t = u
  /\ \A t \in Task : Writes(t)  => temp = <<>>
  /\ \A t \in Task : Renames(t) => temp = Content(copy[t])
  /\ \A t \in Task : fd[t] = IF Writes(t) THEN "temp" ELSE "closed"
  /\ (\A t \in Task : ~Saving(t)) => temp = Nil
  /\ file = Nil \/ Whole(file)
  /\ file = Nil => newest = 0
  /\ file # Nil /\ ~late => file = Content(newest)

FileTypes ==
  /\ mem \in Nat /\ copy \in [Task -> Nat]
  /\ fd \in [Task -> {"closed", "temp", "file", "gone"}]
  /\ temp \in Seq(Nat) \cup {Nil} /\ file \in Seq(Nat) \cup {Nil}
  /\ newest \in Nat /\ overlap \in BOOLEAN /\ late \in BOOLEAN

FileInv == LockInv /\ FileTypes /\ FdInv /\ (~overlap => OneSave)

LEMMA ContentFacts ==
  ASSUME NEW v \in Nat
  PROVE  /\ Content(v) \in Seq(Nat) /\ Content(v) # Nil /\ Content(v) # <<>>
         /\ Content(v)[1] = v /\ Whole(Content(v)) /\ Over(v, <<>>) = Content(v)
<1>1. /\ Content(v) \in Seq(Nat) /\ Len(Content(v)) \in Nat \ {0} /\ Content(v)[1] = v
      /\ Content(v) # <<>>
  BY DEF Content
<1>2. SubSeq(<<>>, Len(Content(v)) + 1, Len(<<>>)) = <<>> BY <1>1, SubSeqEmpty
<1>3. Over(v, <<>>) = Content(v) BY <1>1, <1>2, ConcatEmptySeq DEF Over
<1> QED BY <1>1, <1>3, FileAssumption DEF Whole

LEMMA OverTypes ==
  ASSUME NEW v \in Nat, NEW c \in Seq(Nat)
  PROVE  Over(v, c) \in Seq(Nat) /\ Over(v, c) # Nil
<1> DEFINE a == Len(Content(v)) + 1
<1>0. Content(v) \in Seq(Nat) BY ContentFacts
<1>1. Content(v) \in Seq(Nat) /\ a \in Nat \ {0} BY <1>0, LenProperties
<1>2. Len(c) \in Nat /\ \A i \in a..Len(c) : c[i] \in Nat BY <1>1, LenProperties, ElementOfSeq
<1>3. SubSeq(c, a, Len(c)) \in Seq(Nat)
  <2> HIDE DEF a
  <2> QED BY <1>1, <1>2, SubSeqProperties
<1> DEFINE k == Content(v)
           r == SubSeq(c, a, Len(c))
<1>4. k \o r \in Seq(Nat)
  <2>1. k \in Seq(Nat) /\ r \in Seq(Nat) BY <1>0, <1>3
  <2> HIDE DEF k, r
  <2> QED BY <2>1, ConcatProperties
<1> QED BY <1>4, FileAssumption DEF Over

\* Where a task is after its step.
LEMMA NextStep ==
  ASSUME LockInv, LockInv', UNCHANGED runs, NEW t \in Task, ~Done(t),
         at' = [at EXCEPT ![t] = at[t] + 1]
  PROVE  /\ Step(t).op = "open"  => Writes(t)'
         /\ Step(t).op = "write" => Renames(t)'
         /\ Step(t).op \notin {"open", "write"} => ~Saving(t)'
         /\ \A u \in Task \ {t} : /\ Writes(u)' <=> Writes(u)
                                  /\ Renames(u)' <=> Renames(u)
                                  /\ Saving(u)' <=> Saving(u)
         /\ ~ (Writes(t)' /\ Renames(t)')
<1> DEFINE p == Code(t)
           i == at[t]
<1>1. i \in 1..Len(p) /\ i \in Nat /\ Len(p) \in Nat BY StepFacts, CodeFacts DEF LockInv, TypeOK
<1>2. at'[t] = i + 1 /\ \A u \in Task \ {t} : at'[u] = at[u] BY DEF LockInv, TypeOK
<1>3. Code(t)' = p BY DEF Code
<1>4. Step(t) = p[i] /\ Step(t)' = p[i + 1] BY <1>2, <1>3 DEF Step
<1>5. Done(t)' <=> i + 1 > Len(p) BY <1>2, <1>3 DEF Done
<1>6. SavesInOneGo(p) BY CodeFacts DEF Handler, LockInv, TypeOK
<1>7. \A u \in Task \ {t} : /\ Writes(u)' <=> Writes(u)
                            /\ Renames(u)' <=> Renames(u)
                            /\ Saving(u)' <=> Saving(u)
  BY <1>2 DEF Writes, Renames, Saving, Done, Step, Code
<1> HIDE DEF p, i
<1>8. /\ p[i].op = "open"  => i < Len(p) /\ p[i + 1].op = "write"
      /\ p[i].op = "write" => i < Len(p) /\ p[i + 1].op = "rename"
  BY <1>1, <1>6 DEF SavesInOneGo
<1>9. i < Len(p) => /\ p[i + 1].op = "write"  => p[i].op = "open"
                    /\ p[i + 1].op = "rename" => p[i].op = "write"
  <2> SUFFICES ASSUME NEW j \in Nat, j = i + 1, i < Len(p)
               PROVE  /\ p[j].op = "write"  => p[i].op = "open"
                      /\ p[j].op = "rename" => p[i].op = "write"
    BY <1>1
  <2>1. j \in 1..Len(p) /\ j - 1 = i BY <1>1
  <2>2. /\ p[j].op = "write"  => p[j - 1].op = "open"
        /\ p[j].op = "rename" => p[j - 1].op = "write"
    BY <1>6, <2>1 DEF SavesInOneGo
  <2> QED BY <2>1, <2>2
<1>10. ~Done(t)' <=> i < Len(p) BY <1>1, <1>5
<1> QED BY <1>4, <1>7, <1>8, <1>9, <1>10 DEF Writes, Renames, Saving

LEMMA SavingIs ==
  \A t : /\ Saving(t) <=> Writes(t) \/ Renames(t)
         /\ ~ (Writes(t) /\ Renames(t))
BY DEF Saving, Writes, Renames

\* Steps that leave the files alone, outside a save.
LEMMA FilesKept ==
  ASSUME FileInv, LockInv', UNCHANGED <<fd, temp, file, newest, overlap, late>>,
         UNCHANGED runs,
         \/ UNCHANGED at
         \/ \E t \in Task : /\ ~Done(t) /\ Step(t).op \notin {"open", "write", "rename"}
                            /\ at' = [at EXCEPT ![t] = at[t] + 1],
         FileTypes', \A t \in Task : Renames(t) => copy'[t] = copy[t]
  PROVE  FileInv'
<1>1. \A t \in Task : (Writes(t)' <=> Writes(t)) /\ (Renames(t)' <=> Renames(t))
  <2>1. CASE UNCHANGED at BY <2>1 DEF Writes, Renames, Done, Step, Code
  <2>2. ASSUME NEW t \in Task, ~Done(t), Step(t).op \notin {"open", "write", "rename"},
               at' = [at EXCEPT ![t] = at[t] + 1]
        PROVE  \A u \in Task : (Writes(u)' <=> Writes(u)) /\ (Renames(u)' <=> Renames(u))
    <3>1. ~Writes(t) /\ ~Renames(t) BY <2>2 DEF Writes, Renames
    <3>2. ~Saving(t)' BY <2>2, NextStep DEF FileInv
    <3>3. ~Writes(t)' /\ ~Renames(t)' BY <3>2 DEF Saving, Writes, Renames
    <3> QED BY <2>2, <3>1, <3>3, NextStep DEF FileInv
  <2> QED BY <2>1, <2>2
<1>2. \A t \in Task : Saving(t)' <=> Saving(t)
  BY <1>1 DEF Saving, Writes, Renames
<1>3. FdInv' BY DEF FileInv, FdInv
<1>4. ~overlap' => OneSave'
  BY <1>1, <1>2 DEF FileInv, OneSave, Whole
<1> QED BY <1>3, <1>4 DEF FileInv

LEMMA ChangeCopyKeep ==
  ASSUME FileInv, NEW t \in Task, Change(t) \/ Copy(t)
  PROVE  FileInv'
<1> USE DEF FileInv
<1>1. PICK op \in {"change", "copy"} : Work(t, op) BY DEF Change, Copy
<1>2. /\ LockInv' /\ ~Done(t) /\ Step(t).op = op /\ UNCHANGED runs
      /\ at' = [at EXCEPT ![t] = at[t] + 1]
  BY <1>1, WorkKeeps
<1>3. UNCHANGED <<fd, temp, file, newest, overlap, late>> BY DEF Change, Copy
<1>4. FileTypes' BY DEF Change, Copy, FileTypes
<1>5. ~Renames(t) BY <1>2 DEF Renames
<1>6. \A u \in Task : u # t => copy'[u] = copy[u] BY DEF Change, Copy, FileTypes
<1>7. \A u \in Task : Renames(u) => copy'[u] = copy[u] BY <1>5, <1>6
<1> QED BY <1>2, <1>3, <1>4, <1>7, FilesKept

LEMMA OpenKeeps ==
  ASSUME FileInv, NEW t \in Task, Open(t)
  PROVE  FileInv'
<1> USE DEF FileInv
<1>1. /\ LockInv' /\ ~Done(t) /\ Step(t).op = "open" /\ UNCHANGED runs
      /\ at' = [at EXCEPT ![t] = at[t] + 1]
  BY WorkKeeps DEF Open
<1>2. /\ temp' = <<>> /\ fd' = [fd EXCEPT ![t] = "temp"]
      /\ overlap' = (overlap \/ \E u \in Task \ {t} : Saving(u))
      /\ UNCHANGED <<mem, copy, file, newest, late>>
  BY DEF Open
<1>3. /\ Writes(t)' /\ ~Renames(t)'
      /\ \A u \in Task \ {t} : (Writes(u)' <=> Writes(u)) /\ (Renames(u)' <=> Renames(u))
  BY <1>1, NextStep
<1>4. <<>> \in Seq(Nat) /\ temp' # Nil BY <1>2, EmptySeq, FileAssumption
<1>5. FileTypes'
  <2>1. overlap' \in BOOLEAN BY <1>2 DEF FileTypes
  <2> QED BY <1>2, <1>4, <2>1 DEF FileTypes
<1>6. FdInv' BY <1>2, <1>4 DEF FdInv, FileTypes
<1>7. ASSUME ~overlap' PROVE OneSave'
  <2>1. ~overlap /\ \A u \in Task \ {t} : ~Saving(u) BY <1>2, <1>7
  <2>2. OneSave BY <2>1
  <2>3. \A u \in Task \ {t} : ~Writes(u)' /\ ~Renames(u)' /\ ~Saving(u)'
    BY <1>3, <2>1, SavingIs DEF Saving, Writes, Renames
  <2>4. Saving(t)' BY <1>3 DEF Saving, Writes
  <2>5. \A u \in Task : fd'[u] = IF u = t THEN "temp" ELSE fd[u] BY <1>2 DEF FileTypes
  <2>6. \A u \in Task \ {t} : fd[u] = "closed" BY <2>1, <2>2, SavingIs DEF OneSave
  <2>7. \A u, v \in Task : Saving(u)' /\ Saving(v)' => u = v BY <2>3
  <2>8. \A u \in Task : fd'[u] = IF Writes(u)' THEN "temp" ELSE "closed"
    BY <1>3, <2>3, <2>5, <2>6
  <2> QED BY <1>2, <1>3, <2>2, <2>3, <2>4, <2>7, <2>8 DEF OneSave, Whole
<1> QED BY <1>1, <1>5, <1>6, <1>7

LEMMA WriteKeeps ==
  ASSUME FileInv, NEW t \in Task, Write(t)
  PROVE  FileInv'
<1> USE DEF FileInv
<1>1. /\ LockInv' /\ ~Done(t) /\ Step(t).op = "write" /\ UNCHANGED runs
      /\ at' = [at EXCEPT ![t] = at[t] + 1]
  BY WorkKeeps DEF Write
<1>2. /\ temp' = IF fd[t] = "temp" THEN Over(copy[t], temp) ELSE temp
      /\ file' = IF fd[t] = "file" THEN Over(copy[t], file) ELSE file
      /\ fd' = [fd EXCEPT ![t] = "closed"]
      /\ UNCHANGED <<mem, copy, newest, overlap, late>>
  BY DEF Write
<1>3. /\ Renames(t)' /\ ~Writes(t)' /\ Writes(t)
      /\ \A u \in Task \ {t} : (Writes(u)' <=> Writes(u)) /\ (Renames(u)' <=> Renames(u))
  BY <1>1, NextStep DEF Writes
<1>4. /\ copy[t] \in Nat
      /\ fd[t] = "temp" => Over(copy[t], temp) \in Seq(Nat) /\ Over(copy[t], temp) # Nil
      /\ fd[t] = "file" => Over(copy[t], file) \in Seq(Nat) /\ Over(copy[t], file) # Nil
  <2>1. copy[t] \in Nat BY DEF FileTypes
  <2>2. (fd[t] = "temp" => temp \in Seq(Nat)) /\ (fd[t] = "file" => file \in Seq(Nat))
    BY DEF FileTypes, FdInv
  <2> QED BY <2>1, <2>2, OverTypes
<1>5. FileTypes' BY <1>2, <1>4 DEF FileTypes
<1>6. FdInv' BY <1>2, <1>4 DEF FdInv, FileTypes
<1>7. ASSUME ~overlap' PROVE OneSave'
  <2>1. OneSave BY <1>2, <1>7
  <2>2. Saving(t) /\ \A u \in Task \ {t} : ~Saving(u)
    BY <1>3, <2>1, SavingIs DEF OneSave
  <2>3. \A u \in Task \ {t} : ~Writes(u)' /\ ~Renames(u)' /\ ~Saving(u)'
    BY <1>3, <2>2, SavingIs DEF Saving, Writes, Renames
  <2>4. Saving(t)' BY <1>3 DEF Saving, Renames
  <2>5. fd[t] = "temp" /\ temp = <<>> BY <1>3, <2>1 DEF OneSave
  <2>6. temp' = Content(copy[t]) /\ UNCHANGED file BY <1>2, <1>4, <2>5, ContentFacts
  <2>7. \A u \in Task : fd'[u] = "closed"
    BY <1>2, <2>1, <2>2, SavingIs DEF OneSave, FileTypes
  <2>8. \A u, v \in Task : Saving(u)' /\ Saving(v)' => u = v BY <2>3
  <2>9. \A u \in Task : ~Writes(u)' BY <1>3, <2>3
  <2>10. \A u \in Task : Renames(u)' => temp' = Content(copy'[u]) BY <1>2, <2>3, <2>6
  <2> QED BY <1>2, <2>1, <2>4, <2>6, <2>7, <2>8, <2>9, <2>10 DEF OneSave, Whole
<1> QED BY <1>1, <1>5, <1>6, <1>7

LEMMA RenameKeeps ==
  ASSUME FileInv, NEW t \in Task, Rename(t)
  PROVE  FileInv'
<1> USE DEF FileInv
<1>1. /\ LockInv' /\ ~Done(t) /\ Step(t).op = "rename" /\ UNCHANGED runs
      /\ at' = [at EXCEPT ![t] = at[t] + 1]
  BY WorkKeeps DEF Rename
<1>2. /\ temp # Nil /\ file' = temp /\ temp' = Nil /\ fd' = Moved
      /\ newest' = IF copy[t] > newest THEN copy[t] ELSE newest
      /\ late' = (late \/ copy[t] < newest)
      /\ copy' = [copy EXCEPT ![t] = 0]
      /\ UNCHANGED <<mem, overlap>>
  BY DEF Rename
<1>3. /\ ~Saving(t)' /\ Renames(t)
      /\ \A u \in Task \ {t} : (Writes(u)' <=> Writes(u)) /\ (Renames(u)' <=> Renames(u))
  BY <1>1, NextStep DEF Renames
<1>4. \A u \in Task : /\ fd[u] \in {"closed", "temp", "file", "gone"}
                      /\ fd'[u] = CASE fd[u] = "temp" -> "file"
                                    [] fd[u] = "file" -> "gone"
                                    [] OTHER -> fd[u]
  BY <1>2 DEF Moved, FileTypes
<1>5. FileTypes'
  <2>1. fd' \in [Task -> {"closed", "temp", "file", "gone"}] BY <1>2, <1>4 DEF Moved
  <2>2. late' \in BOOLEAN BY <1>2 DEF FileTypes
  <2> QED BY <1>2, <2>1, <2>2 DEF FileTypes
<1>6. FdInv' BY <1>2, <1>4 DEF FdInv
<1>7. ASSUME ~overlap' PROVE OneSave'
  <2>1. OneSave BY <1>2, <1>7
  <2>2. \A u \in Task \ {t} : ~Saving(u) BY <1>3, <2>1, SavingIs DEF OneSave
  <2>3. \A u \in Task : ~Writes(u)' /\ ~Renames(u)' /\ ~Saving(u)'
    BY <1>3, <2>2, SavingIs DEF Saving, Writes, Renames
  <2>4. temp = Content(copy[t]) /\ copy[t] \in Nat /\ newest \in Nat
    BY <1>3, <2>1 DEF OneSave, FileTypes
  <2>5. \A u \in Task : fd[u] = "closed"
    BY <1>3, <2>1, <2>2, SavingIs DEF OneSave
  <2>6. \A u \in Task : fd'[u] = "closed" BY <1>4, <2>5
  <2>7. file' # Nil /\ Whole(file)' /\ (~late' => file' = Content(newest'))
    <3>1. Whole(Content(copy[t])) BY <2>4, ContentFacts
    <3>3. ~late' => ~ (copy[t] < newest) BY <1>2
    <3>4. ~ (copy[t] < newest) => newest' = copy[t] BY <1>2, <2>4
    <3>2. ~late' => newest' = copy[t] BY <3>3, <3>4
    <3> QED BY <1>2, <2>4, <3>1, <3>2 DEF Whole
  <2> QED BY <1>2, <2>3, <2>6, <2>7 DEF OneSave
<1> QED BY <1>1, <1>5, <1>6, <1>7

\* A rename that fails finds json.tmp gone, and only an overlap takes it away.
LEMMA RenameFailsKeeps ==
  ASSUME FileInv, NEW t \in Task, RenameFails(t)
  PROVE  FileInv' /\ overlap
<1> USE DEF FileInv
<1>1. /\ LockInv' /\ ~Done(t) /\ Step(t).op = "rename" /\ UNCHANGED runs
      /\ at' = [at EXCEPT ![t] = at[t] + 1]
  BY WorkKeeps DEF RenameFails
<1>2. /\ temp = Nil /\ copy' = [copy EXCEPT ![t] = 0]
      /\ UNCHANGED <<mem, fd, temp, file, newest, overlap, late>>
  BY DEF RenameFails
<1>3. overlap
  <2>1. copy[t] \in Nat BY DEF FileTypes
  <2>2. ~ (temp = Content(copy[t])) BY <1>2, <2>1, ContentFacts
  <2>3. Renames(t) BY <1>1 DEF Renames
  <2> QED BY <2>2, <2>3 DEF OneSave
<1>4. FileTypes' BY <1>2 DEF FileTypes
<1>5. FdInv' BY <1>2 DEF FdInv
<1> QED BY <1>1, <1>2, <1>3, <1>4, <1>5

LEMMA FileInvInit == ASSUME FileInit PROVE FileInv
<1>1. LockInv BY LockInvInit DEF FileInit
<1>2. FileTypes /\ FdInv BY DEF FileInit, FileTypes, FdInv
<1>3. \A t \in Task : ~Saving(t)
  <2> SUFFICES ASSUME NEW t \in Task, Saving(t) PROVE FALSE OBVIOUS
  <2>1. at[t] = 1 BY DEF FileInit, Init
  <2>2. SavesInOneGo(Code(t)) /\ 1 \in 1..Len(Code(t))
    BY <1>1, <2>1, CodeFacts, StepFacts DEF Saving, LockInv, TypeOK, Handler
  <2>3. Code(t)[1].op \in {"write", "rename"} BY <2>1 DEF Saving, Step
  <2> QED BY <2>2, <2>3 DEF SavesInOneGo
<1>4. \A t \in Task : ~Writes(t) /\ ~Renames(t) BY <1>3, SavingIs
<1>5. OneSave BY <1>3, <1>4 DEF OneSave, FileInit
<1> QED BY <1>1, <1>2, <1>5 DEF FileInv

LEMMA FileInvNext == ASSUME FileInv, [FileNext]_allVars PROVE FileInv'
<1>1. CASE UNCHANGED allVars
  <2>1. UNCHANGED <<runs, at, held, queue>> /\ UNCHANGED fileVars BY <1>1 DEF allVars, vars
  <2>2. LockInv' BY <2>1 DEF FileInv, LockInv, TypeOK, QueueInv
  <2> QED BY <2>1, <2>2, FilesKept DEF FileInv, FileTypes, fileVars
<1>2. CASE LockStep /\ UNCHANGED fileVars
  <2>1. LockInv' /\ UNCHANGED runs
        /\ \/ UNCHANGED at
           \/ \E t \in Task : /\ ~Done(t) /\ Step(t).op \notin {"open", "write", "rename"}
                              /\ at' = [at EXCEPT ![t] = at[t] + 1]
    BY <1>2, LockStepKeeps DEF FileInv
  <2>2. UNCHANGED <<mem, copy, fd, temp, file, newest, overlap, late>> BY <1>2 DEF fileVars
  <2>3. FileTypes' BY <2>2 DEF FileInv, FileTypes
  <2> QED BY <2>1, <2>2, <2>3, FilesKept
<1>3. ASSUME NEW t \in Task, FileStep(t) PROVE FileInv'
  BY <1>3, ChangeCopyKeep, OpenKeeps, WriteKeeps, RenameKeeps, RenameFailsKeeps DEF FileStep
<1> QED BY <1>1, <1>2, <1>3 DEF FileNext

LEMMA FileInvAlways == FileSpec => []FileInv
<1>1. FileInit => FileInv BY FileInvInit
<1>2. FileInv /\ [FileNext]_allVars => FileInv' BY FileInvNext
<1> QED BY <1>1, <1>2, PTL DEF FileSpec

\* The locks exclude and the files stay sequences of pieces, for any tasks that meet.
THEOREM FilesTyped == FileSpec => []FileTypeOK
<1>1. FileInv => FileTypeOK BY DEF FileInv, LockInv, FileTypes, FileTypeOK
<1> QED BY <1>1, FileInvAlways, PTL

\* What PersistentStorage::save calls an atomic write is one as long as no two saves
\* overlap: a start finds no file or all of one save.
THEOREM FileWholeUnlessOverlap == FileSpec => []WholeUnlessOverlap
<1>1. FileInv => WholeUnlessOverlap BY DEF FileInv, OneSave, WholeUnlessOverlap
<1> QED BY <1>1, FileInvAlways, PTL

\* Without an overlap, and with no copy saved after a newer one, a restart loads the
\* newest version whose save has said Ok.
THEOREM FileRestartFindsNewest == FileSpec => []RestartFindsNewest
<1>1. FileInv => RestartFindsNewest
  <2> SUFFICES ASSUME FileInv, ~overlap, ~late PROVE Loaded = newest
    BY DEF RestartFindsNewest
  <2>1. OneSave /\ newest \in Nat BY DEF FileInv, FileTypes
  <2>2. CASE file = Nil BY <2>1, <2>2 DEF OneSave, Loaded, Whole
  <2>3. CASE file # Nil BY <2>1, <2>3, ContentFacts DEF OneSave, Loaded
  <2> QED BY <2>2, <2>3
<1> QED BY <1>1, FileInvAlways, PTL

\* The rename of a save fails only when another save has run into it.
THEOREM FileRenameFailsByOverlap == FileSpec => RenameFailsByOverlap
<1>1. FileInv /\ [FileNext]_allVars
        => [\A t \in Task : RenameFails(t) => overlap]_allVars
  BY RenameFailsKeeps
<1> QED BY <1>1, FileInvAlways, PTL DEF FileSpec, RenameFailsByOverlap
=============================================================================
