---------------------------- MODULE MCKernelMap ----------------------------
(* Paths, permissions and hash values for model-checking the map of the kernel. *)
EXTENDS KernelMap

CONSTANTS k1, k2, k3, zero, read

Keys3 == {k1, k2, k3}
Permissions == {zero, read}
SentRules == {<<k1, zero>>, <<k1, read>>, <<k2, read>>, <<k3, zero>>}

\* All begin in bucket 1 of a table of 2; in one of 4 k1 and k2 in the last, and k3
\* in the first, where k2 displaces it.
HashWrap == [k \in Keys3 |-> IF k = k3 THEN 4 ELSE 3]
=============================================================================
