------------------------------ MODULE StateFile -----------------------------
(***************************************************************************)
(* raft_state.json: storage.rs as the tasks of NodeLocks use it.  A save   *)
(* writes json.tmp and renames it; all saves of a node share that one      *)
(* name, and only some of them are made under a lock.                      *)
(*                                                                         *)
(* What is saved is the version of the state, counted by its changes.  A   *)
(* file is the sequence of its pieces, each the version it comes from, so  *)
(* a write over something longer leaves a tail of it.  A task that has     *)
(* opened json.tmp holds the file and not the name: a rename moves it.     *)
(* A crash may come at any time and keeps what the kernel has been given.  *)
(***************************************************************************)
EXTENDS NodeLocks

CONSTANTS
  Long,        \* the versions that take two pieces; the others take one
  Nil          \* no such file

ASSUME FileAssumption == Long \subseteq Nat /\ Nil \notin Seq(Nat)

VARIABLES
  mem,         \* the version in memory
  copy,        \* copy[t]: the version t has taken to save
  fd,          \* fd[t]: which name the file t has open goes by now, "gone" if none
  temp, file,  \* json.tmp and raft_state.json
  newest,      \* the newest version whose save has said Ok
  overlap,     \* two saves were under way at the same time
  late         \* a copy was saved that was older than what had been saved before

fileVars == <<mem, copy, fd, temp, file, newest, overlap, late>>
allVars  == <<vars, fileVars>>

\* The content save writes for v, and what is left of c when it is written over c.
Content(v) == IF v \in Long THEN <<v, v>> ELSE <<v>>
Over(v, c) == Content(v) \o SubSeq(c, Len(Content(v)) + 1, Len(c))

\* serde_json reads back what one save has written, all of it, and nothing else.
Whole(c) == c # Nil /\ c # <<>> /\ c = Content(c[1])

\* main.rs: no file, or one that cannot be read, is a fresh start with version 0.
Loaded == IF Whole(file) THEN file[1] ELSE 0

\* t is between its open and its rename.
Saving(t) == ~Done(t) /\ Step(t).op \in {"write", "rename"}

FileInit ==
  /\ Init
  /\ mem = 0
  /\ copy = [t \in Task |-> 0]
  /\ fd = [t \in Task |-> "closed"]
  /\ temp = Nil /\ file = Nil
  /\ newest = 0 /\ overlap = FALSE /\ late = FALSE

\* A new term, vote or entry, in memory only.
Change(t) ==
  /\ Work(t, "change")
  /\ mem' = mem + 1
  /\ UNCHANGED <<copy, fd, temp, file, newest, overlap, late>>

\* PersistentData::from_state_and_log.
Copy(t) ==
  /\ Work(t, "copy")
  /\ copy' = [copy EXCEPT ![t] = mem]
  /\ UNCHANGED <<mem, fd, temp, file, newest, overlap, late>>

\* fs::write creates json.tmp or empties it, whoever else is at work on it ...
Open(t) ==
  /\ Work(t, "open")
  /\ temp' = <<>>
  /\ fd' = [fd EXCEPT ![t] = "temp"]
  /\ overlap' = (overlap \/ \E u \in Task \ {t} : Saving(u))
  /\ UNCHANGED <<mem, copy, file, newest, late>>

\* ... and writes from the beginning of the file it has opened, then closes it.
Write(t) ==
  /\ Work(t, "write")
  /\ temp' = IF fd[t] = "temp" THEN Over(copy[t], temp) ELSE temp
  /\ file' = IF fd[t] = "file" THEN Over(copy[t], file) ELSE file
  /\ fd' = [fd EXCEPT ![t] = "closed"]
  /\ UNCHANGED <<mem, copy, newest, overlap, late>>

\* What a rename does to the files that are open.
Moved == [u \in Task |-> CASE fd[u] = "temp" -> "file"
                           [] fd[u] = "file" -> "gone"
                           [] OTHER -> fd[u]]

\* fs::rename publishes whatever json.tmp holds by now.
Rename(t) ==
  /\ Work(t, "rename") /\ temp # Nil
  /\ file' = temp /\ temp' = Nil
  /\ fd' = Moved
  /\ newest' = IF copy[t] > newest THEN copy[t] ELSE newest
  /\ late' = (late \/ copy[t] < newest)
  /\ copy' = [copy EXCEPT ![t] = 0]
  /\ UNCHANGED <<mem, overlap>>

\* json.tmp has been renamed by another save: an error, which callers log.
RenameFails(t) ==
  /\ Work(t, "rename") /\ temp = Nil
  /\ copy' = [copy EXCEPT ![t] = 0]
  /\ UNCHANGED <<mem, fd, temp, file, newest, overlap, late>>

FileStep(t) == Change(t) \/ Copy(t) \/ Open(t) \/ Write(t) \/ Rename(t) \/ RenameFails(t)

FileNext ==
  \/ LockStep /\ UNCHANGED fileVars
  \/ \E t \in Task : FileStep(t)

FileSpec == FileInit /\ [][FileNext]_allVars

FairFileSpec == FileSpec /\ WF_allVars(FileNext)

-----------------------------------------------------------------------------
FileTypeOK ==
  /\ TypeOK
  /\ mem \in Nat /\ copy \in [Task -> Nat]
  /\ fd \in [Task -> {"closed", "temp", "file", "gone"}]
  /\ temp \in Seq(Nat) \cup {Nil} /\ file \in Seq(Nat) \cup {Nil}
  /\ newest \in Nat /\ overlap \in BOOLEAN /\ late \in BOOLEAN

\* storage.rs:94, "atomic write": at any moment, the next start finds no file or all of
\* one save.  Two saves at once are what breaks it, and nothing else is.
WholeUnlessOverlap == ~overlap => file = Nil \/ Whole(file)

\* A restart goes back to the newest version whose save has said Ok.  Without an
\* overlap only a copy that was taken early and saved late takes that away.
RestartFindsNewest == ~overlap /\ ~late => Loaded = newest

\* A rename fails only where another save has taken the file away.
RenameFailsByOverlap ==
  [][\A t \in Task : RenameFails(t) => overlap]_allVars

-----------------------------------------------------------------------------
(* What does not hold; see section 4 of the README. *)

\* storage.rs:94, "atomic write": a start finds no file or a whole one.
FileIsWhole == file = Nil \/ Whole(file)

\* A save that has said Ok is what a start finds, or something newer.
SavesStand == Loaded >= newest
=============================================================================
