------------------------------ MODULE LruCache ------------------------------
(***************************************************************************)
(* ns_agent/lru.c with its data structure: a hash table of singly linked   *)
(* chains of lruc_item records, a free queue of records to use again, and  *)
(* counters of free memory and of accesses.  The next field of a record    *)
(* links it in a chain or in the free queue, so a wrong link can put a     *)
(* record in both.                                                         *)
(*                                                                         *)
(* Every call holds cache->mutex from its first to its last statement, so  *)
(* a call is one step, but for lruc_set: its eviction loop takes a step    *)
(* per evicted item, pc = "evict" meaning that the mutex is still held.    *)
(***************************************************************************)
EXTENDS Integers, FiniteSets, FiniteSetsExt, Sequences

CONSTANTS Key, Value, NULL,
          Item,          \* lruc_item records: the addresses calloc can return
          Bucket,        \* indices of cache->items: 0 .. hash_table_size - 1
          Hash,          \* lruc_hash, for the seed of this run
          TotalMemory,   \* cache->total_memory
          Lengths,       \* the value lengths the program passes
          Wrap,          \* 2^32: lengths and required are uint32_t
          MaxAccess,     \* bound: calls of lruc_get and lruc_set
          MaxFree        \* bound: lruc_delete is called with fewer free records

ASSUME MemoryAssumption ==
  /\ TotalMemory \in Nat \ {0}
  /\ Lengths \subseteq 1 .. TotalMemory     \* test_for_missing_value, _too_large
  /\ Wrap \in Nat /\ Wrap > TotalMemory
ASSUME TableAssumption ==
  /\ Hash \in [Key -> Bucket]
  /\ NULL \notin Key \cup Value \cup Item
ASSUME BoundAssumption == MaxAccess \in Nat /\ MaxFree \in Nat

VARIABLES items,         \* cache->items: the first item of every chain
          item,          \* the records
          allocated,     \* the records calloc has returned
          free_items,    \* cache->free_items: the first record to use again
          free_memory, access_count,
          pc, required,  \* where the caller of lruc_set is, and its local
          out            \* *value of the last lruc_get

vars == <<items, item, allocated, free_items, free_memory, access_count,
          pc, required, out>>

Record == [key : Key \cup {NULL}, value : Value \cup {NULL},
           value_length : Lengths \cup {0}, access_count : 0 .. MaxAccess,
           next : Item \cup {NULL}]

\* memset(item, 0, sizeof(lruc_item)), and what calloc returns.
Zeroed == [key |-> NULL, value |-> NULL, value_length |-> 0,
           access_count |-> 0, next |-> NULL]

Init == /\ items = [b \in Bucket |-> NULL]
        /\ item = [i \in Item |-> Zeroed]
        /\ allocated = {}
        /\ free_items = NULL
        /\ free_memory = TotalMemory
        /\ access_count = 0
        /\ pc = "idle" /\ required = 0
        /\ out = NULL

-----------------------------------------------------------------------------
\* The records met by following next from p, in as many steps as there are records.
Linked(p) ==
  LET within[n \in 1 .. Cardinality(Item)] ==
        IF n = 1 THEN {p} \ {NULL}
        ELSE within[n - 1] \cup ({item[j].next : j \in within[n - 1]} \ {NULL})
  IN  within[Cardinality(Item)]

Chain(b) == Linked(items[b])
FreeQueue == Linked(free_items)
Live == UNION {Chain(b) : b \in Bucket}

\* Where the search loops stop: an item with the key, or the end of the chain.
Matches(k) == {i \in Chain(Hash[k]) : item[i].key = k}
LastOf(b) == {i \in Chain(b) : item[i].next = NULL}
Predecessor(b, i) == {j \in Chain(b) : item[j].next = i}

\* *link = p, where the link is the next of an item of prev or else a chain head.
Relink(f, b, prev, p) ==
  /\ items' = IF prev = {} THEN [items EXCEPT ![b] = p] ELSE items
  /\ item' = [i \in Item |-> IF i \in prev THEN [f[i] EXCEPT !.next = p] ELSE f[i]]

\* Faulty variant of RemoveItem: forgets to return the memory.
RemoveUncredited(b, i) ==
  /\ Relink([item EXCEPT ![i] = [Zeroed EXCEPT !.next = free_items]],
            b, Predecessor(b, i), item[i].next)
  /\ free_items' = i
  /\ UNCHANGED <<allocated, free_memory>>

\* lruc_remove_item: unlink i, return its memory, push it on the free queue.
RemoveItem(b, i) ==
  /\ Relink([item EXCEPT ![i] = [Zeroed EXCEPT !.next = free_items]],
            b, Predecessor(b, i), item[i].next)
  /\ free_memory' = free_memory + item[i].value_length
  /\ free_items' = i
  /\ UNCHANGED allocated

-----------------------------------------------------------------------------
\* Faulty variant of Get: a hit does not count as a use.
GetUncounted(k) ==
  /\ pc = "idle"
  /\ out' = IF Matches(k) = {} THEN NULL ELSE item[CHOOSE i \in Matches(k) : TRUE].value
  /\ UNCHANGED <<items, item, allocated, free_items, free_memory, access_count,
                 pc, required>>

\* lruc_get.  A miss leaves the order of use alone.
Get(k) ==
  /\ pc = "idle"
  /\ IF Matches(k) = {}
       THEN /\ out' = NULL
            /\ UNCHANGED <<item, access_count>>
       ELSE \E i \in Matches(k) :
              /\ access_count < MaxAccess
              /\ out' = item[i].value
              /\ access_count' = access_count + 1
              /\ item' = [item EXCEPT ![i].access_count = access_count + 1]
  /\ UNCHANGED <<items, allocated, free_items, free_memory, pc, required>>

\* Faulty variant of Update: charges the whole new length.
UpdateCharged(k, v, len) ==
  \E i \in Matches(k) :
    /\ required' = len
    /\ item' = [item EXCEPT ![i].value = v, ![i].value_length = len,
                            ![i].access_count = access_count + 1]
    /\ UNCHANGED <<items, allocated, free_items>>

\* lruc_set on a key that is held: the difference of the lengths is a uint32_t.
Update(k, v, len) ==
  \E i \in Matches(k) :
    /\ required' = (len - item[i].value_length) % Wrap
    /\ item' = [item EXCEPT ![i].value = v, ![i].value_length = len,
                            ![i].access_count = access_count + 1]
    /\ UNCHANGED <<items, allocated, free_items>>

\* The record calloc returns next; which of the unused addresses makes no difference.
Fresh == CHOOSE i \in Item : i \notin allocated

\* Faulty variant of PopOrCreate: leaves the popped record in the free queue.
PopKept(i) == /\ i = IF free_items = NULL THEN Fresh ELSE free_items
              /\ allocated' = allocated \cup {i}
              /\ UNCHANGED free_items

\* lruc_pop_or_create_item: i is the first free record, or a new one.
\* The next field of a popped record stays what it was.
PopOrCreate(i) ==
  \/ /\ free_items = i
     /\ free_items' = item[i].next
     /\ UNCHANGED allocated
  \/ /\ free_items = NULL
     /\ i = Fresh
     /\ allocated' = allocated \cup {i}
     /\ UNCHANGED free_items

\* lruc_set on a new key: link a record at the end of its chain.
Insert(k, v, len) ==
  /\ Matches(k) = {}
  /\ Chain(Hash[k]) = {} \/ LastOf(Hash[k]) # {}   \* else the search never ends
  /\ \E i \in Item :
       /\ PopOrCreate(i)
       /\ Relink([item EXCEPT ![i].key = k, ![i].value = v,
                              ![i].value_length = len,
                              ![i].access_count = access_count + 1],
                 Hash[k], LastOf(Hash[k]), i)
  /\ required' = len

\* lruc_set up to the test before the eviction loop.
Set(k, v, len) ==
  /\ pc = "idle" /\ access_count < MaxAccess
  /\ Update(k, v, len) \/ Insert(k, v, len)
  /\ access_count' = access_count + 1
  /\ pc' = "evict"
  /\ UNCHANGED <<free_memory, out>>

Oldest == {i \in Live : \A j \in Live : item[i].access_count <= item[j].access_count}

\* One round of the eviction loop: lruc_remove_lru_item, if there is an item.
Evict ==
  /\ pc = "evict" /\ free_memory < required
  /\ IF Live = {}
       THEN UNCHANGED <<items, item, allocated, free_items, free_memory>>
       ELSE \E b \in Bucket : \E i \in Oldest \cap Chain(b) : RemoveItem(b, i)
  /\ UNCHANGED <<access_count, pc, required, out>>

\* The end of lruc_set: account for the new length and release the mutex.
FinishSet ==
  /\ pc = "evict" /\ free_memory >= required
  /\ free_memory' = free_memory - required
  /\ required' = 0
  /\ pc' = "idle"
  /\ UNCHANGED <<items, item, allocated, free_items, access_count, out>>

\* lruc_delete.
Delete(k) ==
  /\ pc = "idle"
  /\ Cardinality(FreeQueue) < MaxFree
  /\ \E i \in Matches(k) : RemoveItem(Hash[k], i)
  /\ UNCHANGED <<access_count, pc, required, out>>

Next == \/ \E k \in Key : \/ Get(k)
                          \/ \E v \in Value, len \in Lengths : Set(k, v, len)
                          \/ Delete(k)
        \/ Evict
        \/ FinishSet

\* The thread in lruc_set runs on while it holds the mutex.
Fairness == WF_vars(Evict) /\ WF_vars(FinishSet)
Spec == Init /\ [][Next]_vars /\ Fairness
-----------------------------------------------------------------------------
(* Type invariant: the fields of the table and of the records. *)
TypeOK ==
  /\ items \in [Bucket -> Item \cup {NULL}]
  /\ item \in [Item -> Record]
  /\ allocated \subseteq Item
  /\ free_items \in Item \cup {NULL}
  /\ free_memory \in 0 .. TotalMemory
  /\ access_count \in 0 .. MaxAccess
  /\ pc \in {"idle", "evict"}
  /\ required \in 0 .. (Wrap - 1)
  /\ out \in Value \cup {NULL}

(***************************************************************************)
(* "pop an existing item off the free queue" (lru.c:98): a record waiting  *)
(* in the free queue is linked in no chain, so that lruc_pop_or_create_    *)
(* item never hands out one that a key still uses.                         *)
(***************************************************************************)
FreeQueueSeparate == Live \cap FreeQueue = {}

(***************************************************************************)
(* No record is lost or shared: whatever calloc returned is in one chain   *)
(* or in the free queue, and a record in a chain holds a key that hashes   *)
(* there and that no other record holds.                                   *)
(***************************************************************************)
TableConsistent ==
  /\ Live \cup FreeQueue = allocated
  /\ \A b \in Bucket : \A i \in Chain(b) :
       /\ item[i].key # NULL
       /\ Hash[item[i].key] = b
       /\ \A j \in Live : item[j].key = item[i].key => j = i

(* Together: what lruc_get walks, and lruc_set pops, are the right records. *)
RecordsSound == TypeOK /\ FreeQueueSeparate /\ TableConsistent

(***************************************************************************)
(* The free memory counter agrees with the lengths of what is stored, also *)
(* in the middle of an lruc_set, whose new length is not yet paid for.     *)
(***************************************************************************)
MemoryAccounted ==
  free_memory + MapThenSumSet(LAMBDA i : item[i].value_length, Live)
    = TotalMemory + required

(***************************************************************************)
(* "remove as many items as necessary to free enough space" (lru.c:244):   *)
(* lruc_set returns, releasing the mutex.                                  *)
(***************************************************************************)
SetReturns == pc = "evict" ~> pc = "idle"

-----------------------------------------------------------------------------
(***************************************************************************)
(* With one length for all entries, as ns_agent/cache.c uses the cache,    *)
(* the table implements Lru: the abstract cache holds the Entries most     *)
(* recently used live items, so the item about to be evicted is already    *)
(* gone from it, and the eviction steps are invisible.                     *)
(***************************************************************************)
Entries == TotalMemory \div (CHOOSE len \in Lengths : TRUE)

AbstractCache ==
  LET live == Live
      younger == [i \in live |-> {j \in live : item[j].access_count > item[i].access_count}]
      kept == {i \in live : Cardinality(younger[i]) < Entries}
      byAge == [n \in 1 .. Cardinality(kept) |->
                  CHOOSE i \in kept : Cardinality(younger[i]) = Cardinality(kept) - n]
      holder == [k \in Key |-> {i \in kept : item[i].key = k}]
  IN  [order |-> [n \in DOMAIN byAge |-> item[byAge[n]].key],
       value |-> [k \in Key |-> IF holder[k] = {} THEN NULL
                                ELSE item[CHOOSE i \in holder[k] : TRUE].value]]

Abstract == INSTANCE Lru WITH Capacity <- Entries, cache <- AbstractCache

(***************************************************************************)
(* The linked lists of lru.c implement the abstract LRU cache: whatever is *)
(* looked up or evicted is what a list ordered by last use gives.          *)
(***************************************************************************)
ImplementsLru == Abstract!Spec
=============================================================================
