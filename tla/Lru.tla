-------------------------------- MODULE Lru ---------------------------------
(***************************************************************************)
(* What the calls of ns_agent/lru.c promise: one cache value, read and     *)
(* written by lruc_get, lruc_set and lruc_delete, each taking effect at    *)
(* one point.  out is what the last lruc_get stored through its result     *)
(* pointer.  LruCache, where lruc_set walks and evicts step by step,       *)
(* implements this specification.                                          *)
(***************************************************************************)
EXTENDS LruOps

VARIABLES cache, out
vars == <<cache, out>>

Init == cache = EmptyCache /\ out = NULL

Get(k) == /\ out' = cache.value[k]
          /\ cache' = GetOp(cache, k)

Set(k, v) == /\ cache' = SetOp(cache, k, v)
             /\ UNCHANGED out

Delete(k) == /\ cache' = DeleteOp(cache, k)
             /\ UNCHANGED out

Next == \E k \in Key : \/ Get(k)
                       \/ \E v \in Value : Set(k, v)
                       \/ Delete(k)

Spec == Init /\ [][Next]_vars

-----------------------------------------------------------------------------
(* Type invariant and representation invariant of the cache. *)
TypeOK == WellFormed(cache) /\ out \in Value \cup {NULL}

Dropped == {k \in Key : Cached(cache, k) /\ ~Cached(cache', k)}

(***************************************************************************)
(* lruc_set makes room only when there is none, and only by giving up the  *)
(* least recently used key: a step that does not shrink the cache (so      *)
(* not an lruc_delete) drops nothing but the front of the order, and only  *)
(* from a full cache, which stays full.                                    *)
(***************************************************************************)
EvictsOldestWhenFull ==
  [][Len(cache'.order) >= Len(cache.order) /\ Dropped # {}
       => /\ Len(cache.order) = Capacity
          /\ Len(cache'.order) = Capacity
          /\ Dropped = {cache.order[1]}]_vars
=============================================================================
