---------------------------- MODULE MCThreadPool ----------------------------
(* Workers and tasks for model-checking tpool.c. *)
EXTENDS ThreadPool

CONSTANTS w1, w2, w3, a, b, c, d

Workers3 == {w1, w2, w3}

\* Owner adds a, b and c; c adds d.
Tasks4 == {a, b, c, d}
Submits4 == [k \in Tasks4 |-> IF k = c THEN d ELSE NULL]
=============================================================================
