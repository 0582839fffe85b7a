----------------------------- MODULE MCNodeLocks ----------------------------
(* Sets of tasks that meet on one node. *)
EXTENDS NodeLocks, TLC

\* Each task is named by what it runs.
Itself(S) == {[t \in S |-> t]}

\* A follower with something to apply.
Following    == {"apply", "append"}
FollowingMix == Itself(Following)

\* A leader that takes a write and an answer.
Leading      == {"put", "answer"}
LeadingMix   == Itself(Leading)
=============================================================================
