----------------------------- MODULE MCStateFile ----------------------------
(* The handlers that meet on one node, with what they write. *)
EXTENDS StateFile, TLC

Four == 1..4

\* A pass of the main loop next to handlers; a put and a pass that applies something
\* among those they stand still with.
Serving == {<<"candidate", "append", "granted", "answer">>,
            <<"leader", "append", "granted", "transfer">>,
            <<"leader", "put", "put", "answer">>,
            <<"apply", "append", "granted", "put">>,
            <<"apply", "put", "answer", "transfer">>}

\* A log that has grown, and one that has been cut or compacted.
Grown == {1, 3}
=============================================================================
