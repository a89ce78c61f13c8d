----------------------------- MODULE MCLruCache -----------------------------
(* Tables, lengths and hash functions for model-checking lru.c. *)
EXTENDS LruCache

CONSTANTS k1, k2, k3, k4, v1, v2, i1, i2, i3

MCBucket == {0, 1}

\* Four keys for two entries, three of them in one chain.
Keys4 == {k1, k2, k3, k4}
Hash4 == [k \in Keys4 |-> IF k = k4 THEN 1 ELSE 0]

TwoValues == {v1, v2}

Items3 == {i1, i2, i3}

\* AVG_SIZE for every entry, as ns_agent/cache.c stores them.
OneLength == {1}
=============================================================================
