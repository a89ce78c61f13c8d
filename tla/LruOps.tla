------------------------------- MODULE LruOps -------------------------------
(***************************************************************************)
(* The promise of the bounded cache of ns_agent/lru.c, as pure operators   *)
(* on a cache value.  A cache is a record                                  *)
(*                                                                         *)
(*   order : the keys held, least recently used first;                     *)
(*   value : what each key of Key is bound to, NULL when it is not held.   *)
(*                                                                         *)
(* ns_agent/cache.c gives every entry the same length AVG_SIZE, so the     *)
(* memory of the cache is a number of entries, Capacity = CACHE_SIZE /     *)
(* AVG_SIZE.  Module Lru turns the operators into a specification that     *)
(* LruCache (the linked lists of lru.c) implements; module Agent uses them *)
(* as the cache the intercepted calls share.                               *)
(***************************************************************************)
EXTENDS Integers, Sequences, SequencesExt

CONSTANTS Key,       \* keys: the path names looked up
          Value,     \* what a key can be bound to
          NULL,      \* no value
          Capacity   \* entries the cache has memory for

ASSUME CapacityAssumption == Capacity \in Nat \ {0}
ASSUME NullAssumption == NULL \notin Value

Caches == [order : Seq(Key), value : [Key -> Value \cup {NULL}]]

\* lruc_new: an empty table.
EmptyCache == [order |-> <<>>, value |-> [k \in Key |-> NULL]]

Cached(c, k) == c.value[k] # NULL

(***************************************************************************)
(* The representation invariant of a cache: no key twice, no more keys     *)
(* than there is memory for, and exactly the keys of order are bound.      *)
(***************************************************************************)
Distinct(s) == \A i, j \in DOMAIN s : s[i] = s[j] => i = j

WellFormed(c) ==
  /\ c \in Caches
  /\ Distinct(c.order)
  /\ Len(c.order) <= Capacity
  /\ \A k \in Key : Cached(c, k) <=> Contains(c.order, k)

PositionOf(s, k) == CHOOSE i \in DOMAIN s : s[i] = k

Without(s, k) == IF Contains(s, k)
                   THEN RemoveAt(s, PositionOf(s, k))
                   ELSE s

\* lruc_get on a held key makes it the most recently used; a miss changes nothing.
GetOp(c, k) ==
  IF Cached(c, k)
    THEN [c EXCEPT !.order = Append(Without(@, k), k)]
    ELSE c

\* The key lruc_set gives up for a new one: the least recently used, when full.
Victim(c, k) ==
  IF ~Cached(c, k) /\ Len(c.order) = Capacity THEN {Head(c.order)} ELSE {}

\* lruc_set: bind k and make it the most recently used, evicting if it must.
SetOp(c, k, v) ==
  LET kept == IF Victim(c, k) = {} THEN Without(c.order, k) ELSE Tail(c.order)
  IN  [order |-> Append(kept, k),
       value |-> [j \in Key |-> IF j = k THEN v
                                ELSE IF j \in Victim(c, k) THEN NULL
                                ELSE c.value[j]]]

\* lruc_delete: unbind k.
DeleteOp(c, k) ==
  [order |-> Without(c.order, k), value |-> [c.value EXCEPT ![k] = NULL]]
=============================================================================
