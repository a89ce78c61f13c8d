---------------------------- MODULE MCRobinHood -----------------------------
(* Keys and hash values for model-checking hashmap.c. *)
EXTENDS RobinHood

CONSTANTS k1, k2, k3, k4, v1, v2

Keys4 == {k1, k2, k3, k4}
Values2 == {v1, v2}

\* k1 and k2 have the same hash; with k3 they meet in the last bucket of a table
\* of 4, and wrap around to the home of k4.  A table of 8 parts k3 from them.
HashWrap == [k \in Keys4 |-> CASE k \in {k1, k2} -> 3 [] k = k3 -> 7 [] k = k4 -> 0]
=============================================================================
