----------------------------- MODULE RobinHood ------------------------------
(***************************************************************************)
(* ns_agent/src/hashmap.c: open addressing in which every item remembers   *)
(* its dib, 1 + the distance from the bucket it hashes to, and an item     *)
(* that is inserted takes the bucket of one that is closer to its own and  *)
(* goes on with that one in hand.  A deletion moves the items behind back  *)
(* by one.  The table is rebuilt, twice as large before it would be more   *)
(* than three quarters full, half as large when it is nearly empty.        *)
(*                                                                         *)
(* A step is one round of a loop of the code; op says which loop the call  *)
(* is in.  Buckets are numbered from 0, as in the code.                    *)
(***************************************************************************)
EXTENDS Integers, FiniteSets

CONSTANTS Key, Value, NULL,
          Hash,            \* get_hash: for the seeds of this map
          InitialCap,      \* 16
          ShrinkDivisor    \* 10

ASSUME HashAssumption == Hash \in [Key -> Nat]
ASSUME SizeAssumption == /\ InitialCap \in Nat \ {0, 1}
                         /\ ShrinkDivisor \in Nat \ {0, 1, 2}
ASSUME NullAssumption == NULL \notin Key \cup Value

VARIABLES cap, nbuckets, count, buckets,   \* of struct hashmap
          oom,
          op,         \* the loop that the caller is in, or "idle"
          arg,        \* the item of the call
          entry,      \* the item in hand
          i,          \* the bucket looked at
          new, src,   \* resize: the buckets of map2, and its index in the old ones
          spare,      \* the item to return
          out,        \* the last call, and the value it returned
          before      \* history: the contents when the call began

table == <<cap, nbuckets, count, buckets>>
locals == <<arg, entry, i, new, src, spare>>
vars == <<table, oom, op, locals, out, before>>

Item == [key : Key, value : Value \cup {NULL}]
None == [key |-> NULL, value |-> NULL]
Empty == [dib |-> 0, item |-> None]

\* The buckets that hashmap_new allocates.
Fresh(n) == [b \in 0 .. (n - 1) |-> Empty]
Size(t) == Cardinality(DOMAIN t)

\* Faulty variant of GrowAt: lets the table fill up.
GrowFull(n) == n
GrowAt(n) == (n * 3) \div 4
ShrinkAt(n) == n \div ShrinkDivisor

Home(k, n) == Hash[k] % n
After(b, n) == (b + 1) % n

\* The items in a table.
Contents(t) ==
  [k \in Key |-> LET at == {b \in DOMAIN t : t[b].dib # 0 /\ t[b].item.key = k}
                 IN  IF at = {} THEN NULL ELSE t[CHOOSE b \in at : TRUE].item.value]

Returned(call, key, value) == [call |-> call, key |-> key, value |-> value]

\* hashmap_new(elsize, 0, ...).
Init ==
  /\ cap = InitialCap /\ nbuckets = InitialCap /\ count = 0
  /\ buckets = Fresh(InitialCap)
  /\ oom = FALSE
  /\ op = "idle"
  /\ arg = None /\ entry = Empty /\ i = 0 /\ new = <<>> /\ src = 0 /\ spare = NULL
  /\ out = Returned("new", NULL, NULL)
  /\ before = [k \in Key |-> NULL]

Return(call, key, value) ==
  /\ op' = "idle"
  /\ out' = Returned(call, key, value)
  /\ arg' = None /\ entry' = Empty /\ i' = 0 /\ new' = <<>> /\ src' = 0 /\ spare' = NULL
  /\ before' = [k \in Key |-> NULL]

\* A call with this item begins.
Call(item) == /\ op = "idle"
              /\ arg' = item
              /\ before' = Contents(buckets)
              /\ oom' = FALSE
              /\ UNCHANGED <<table, spare, out>>

\* The loop of hashmap_set begins, in a table of n buckets.
StartSet(item, n) == /\ op' = "set"
                     /\ entry' = [dib |-> 1, item |-> item]
                     /\ i' = Home(item.key, n)
                     /\ new' = <<>> /\ src' = 0

\* resize(map, n) begins, having got the memory.
StartResize(n) == /\ op' = "resize"
                  /\ new' = Fresh(n)
                  /\ src' = 0
                  /\ UNCHANGED <<entry, i>>

-----------------------------------------------------------------------------
(* hashmap_set. *)

SetCall(k, v) ==
  LET item == [key |-> k, value |-> v] IN
  /\ Call(item)
  /\ IF count = GrowAt(nbuckets) THEN StartResize(nbuckets * 2)
                                 ELSE StartSet(item, nbuckets)

\* The resize that hashmap_set needs gets no memory.
SetFails(k) ==
  /\ op = "idle" /\ count = GrowAt(nbuckets)
  /\ oom' = TRUE
  /\ Return("failed", k, NULL)
  /\ UNCHANGED table

\* Faulty variant of Swapped: the displaced item keeps the distance of the other.
SwappedDib(b, e) == [b EXCEPT !.dib = e.dib + 1]

\* The item in hand after it took the bucket b: the one that was there.
Swapped(b, e) == [b EXCEPT !.dib = @ + 1]

\* At a bucket of t that holds another item: leave there the one that is further
\* from its home, and go on with the other.
PassBy(t, n) ==
  /\ t[i].dib # 0
  /\ IF t[i].dib < entry.dib
       THEN /\ t' = [t EXCEPT ![i] = entry]
            /\ entry' = Swapped(t[i], entry)
       ELSE /\ entry' = [entry EXCEPT !.dib = @ + 1]
            /\ UNCHANGED t
  /\ i' = After(i, n)

Insert == /\ op = "set" /\ buckets[i].dib = 0
          /\ buckets' = [buckets EXCEPT ![i] = entry]
          /\ count' = count + 1
          /\ Return("set", arg.key, NULL)
          /\ UNCHANGED <<cap, nbuckets, oom>>

\* Faulty variant of Replace: counts the item again.
ReplaceCounted == /\ op = "set" /\ buckets[i].dib # 0
                  /\ buckets[i].item.key = entry.item.key
                  /\ buckets' = [buckets EXCEPT ![i].item = entry.item]
                  /\ count' = count + 1
                  /\ Return("set", arg.key, buckets[i].item.value)
                  /\ UNCHANGED <<cap, nbuckets, oom>>

Replace == /\ op = "set" /\ buckets[i].dib # 0
           /\ buckets[i].item.key = entry.item.key
           /\ buckets' = [buckets EXCEPT ![i].item = entry.item]
           /\ Return("set", arg.key, buckets[i].item.value)
           /\ UNCHANGED <<cap, nbuckets, count, oom>>

SetPass == /\ op = "set"
           /\ buckets[i].item.key # entry.item.key
           /\ PassBy(buckets, nbuckets)
           /\ UNCHANGED <<cap, nbuckets, count, oom, op, arg, new, src, spare, out, before>>

-----------------------------------------------------------------------------
(* resize: the outer loop runs over the old buckets, the inner one (op     *)
(* "move") places one item.                                                *)

\* The next old bucket, with an item to move or without.
ResizeScan ==
  /\ op = "resize" /\ src < nbuckets
  /\ IF buckets[src].dib = 0
       THEN /\ src' = src + 1
            /\ UNCHANGED <<op, entry, i>>
       ELSE /\ op' = "move"
            /\ entry' = [buckets[src] EXCEPT !.dib = 1]
            /\ i' = Home(buckets[src].item.key, Size(new))
            /\ UNCHANGED src
  /\ UNCHANGED <<table, oom, arg, new, spare, out, before>>

MovePass == /\ op = "move"
            /\ PassBy(new, Size(new))
            /\ UNCHANGED <<table, oom, op, arg, src, spare, out, before>>

MoveEnd == /\ op = "move" /\ new[i].dib = 0
           /\ new' = [new EXCEPT ![i] = entry]
           /\ src' = src + 1
           /\ op' = "resize"
           /\ UNCHANGED <<table, oom, arg, entry, i, spare, out, before>>

\* The new buckets replace the old; then hashmap_set goes on, hashmap_delete returns.
ResizeEnd ==
  /\ op = "resize" /\ src = nbuckets
  /\ buckets' = new
  /\ nbuckets' = Size(new)
  /\ IF arg.value # NULL
       THEN StartSet(arg, nbuckets') /\ UNCHANGED <<arg, spare, out, before>>
       ELSE Return("delete", arg.key, spare)
  /\ UNCHANGED <<cap, count, oom>>

-----------------------------------------------------------------------------
(* hashmap_get and hashmap_delete: search, and close the gap. *)

Search(label, k) == /\ op' = label
                    /\ i' = Home(k, nbuckets)
                    /\ UNCHANGED <<entry, new, src>>

\* hashmap_get leaves map->oom alone, hashmap_delete clears it.
GetCall(k) == /\ op = "idle"
              /\ arg' = [None EXCEPT !.key = k]
              /\ before' = Contents(buckets)
              /\ Search("get", k)
              /\ UNCHANGED <<table, oom, spare, out>>

DeleteCall(k) == Call([None EXCEPT !.key = k]) /\ Search("delete", k)

Found == buckets[i].dib # 0 /\ buckets[i].item.key = arg.key

NotFound == /\ op \in {"get", "delete"} /\ buckets[i].dib = 0
            /\ Return(op, arg.key, NULL)
            /\ UNCHANGED <<table, oom>>

SearchPass == /\ op \in {"get", "delete"} /\ buckets[i].dib # 0 /\ ~Found
              /\ i' = After(i, nbuckets)
              /\ UNCHANGED <<table, oom, op, arg, entry, new, src, spare, out, before>>

GetFound == /\ op = "get" /\ Found
            /\ Return("get", arg.key, buckets[i].item.value)
            /\ UNCHANGED <<table, oom>>

DeleteFound == /\ op = "delete" /\ Found
               /\ spare' = buckets[i].item.value
               /\ buckets' = [buckets EXCEPT ![i] = Empty]
               /\ op' = "shift"
               /\ UNCHANGED <<cap, nbuckets, count, oom, arg, entry, i, new, src, out, before>>

\* The item of the next bucket, moved back by one.
Shifted(b) == [b EXCEPT !.dib = @ - 1]

Shift == LET next == buckets[After(i, nbuckets)] IN
         /\ op = "shift" /\ next.dib > 1
         /\ buckets' = [buckets EXCEPT ![i] = Shifted(next)]
         /\ i' = After(i, nbuckets)
         /\ UNCHANGED <<cap, nbuckets, count, oom, op, arg, entry, new, src, spare, out, before>>

\* Faulty variant of ShiftEnd: leaves the last item moved where it was, too.
ShiftEndKept ==
  /\ op = "shift" /\ buckets[After(i, nbuckets)].dib <= 1
  /\ count' = count - 1
  /\ Return("delete", arg.key, spare)
  /\ UNCHANGED <<cap, nbuckets, oom, buckets>>

\* Without memory for it the table does not shrink.
ShiftEnd ==
  /\ op = "shift" /\ buckets[After(i, nbuckets)].dib <= 1
  /\ buckets' = [buckets EXCEPT ![i] = Empty]
  /\ count' = count - 1
  /\ \/ /\ nbuckets > cap /\ count' <= ShrinkAt(nbuckets)
        /\ StartResize(nbuckets \div 2)
        /\ UNCHANGED <<arg, spare, out, before>>
     \/ Return("delete", arg.key, spare)
  /\ UNCHANGED <<cap, nbuckets, oom>>

\* hashmap_clear.  Without memory it keeps the larger array, and uses a part of it.
Clear(update_cap) ==
  /\ op = "idle"
  /\ cap' = IF update_cap THEN nbuckets ELSE cap
  /\ nbuckets' = cap'
  /\ buckets' = Fresh(cap')
  /\ count' = 0
  /\ UNCHANGED <<oom, op, locals, out, before>>

-----------------------------------------------------------------------------
Round == \/ Insert \/ Replace \/ SetPass
         \/ ResizeScan \/ MovePass \/ MoveEnd \/ ResizeEnd
         \/ NotFound \/ SearchPass \/ GetFound
         \/ DeleteFound \/ Shift \/ ShiftEnd

Next == \/ \E k \in Key : \/ GetCall(k) \/ DeleteCall(k) \/ SetFails(k)
                          \/ \E v \in Value : SetCall(k, v)
        \/ \E update_cap \in BOOLEAN : Clear(update_cap)
        \/ Round

Spec == Init /\ [][Next]_vars /\ WF_vars(Round)
-----------------------------------------------------------------------------
Filled(n) == [dib : 1 .. n, item : Item]
Table(n) == [0 .. (n - 1) -> {Empty} \cup Filled(n)]

(***************************************************************************)
(* Type invariant: the table, and the locals of the call.  A distance is   *)
(* at most the number of buckets, whence its 16 bits are enough for every  *)
(* table of less than 2^16.                                                *)
(***************************************************************************)
TypeOK ==
  /\ cap \in Nat /\ nbuckets \in Nat /\ nbuckets >= cap /\ count \in Nat
  /\ buckets \in Table(nbuckets)
  /\ oom \in BOOLEAN
  /\ op \in {"idle", "set", "resize", "move", "get", "delete", "shift"}
  /\ arg \in [key : Key \cup {NULL}, value : Value \cup {NULL}]
  /\ op = "set" => entry \in Filled(nbuckets)
  /\ op = "move" => entry \in Filled(Size(new))
  /\ op \in {"set", "get", "delete", "shift"} => i \in DOMAIN buckets
  /\ op = "move" => i \in DOMAIN new
  /\ new = <<>> \/ new \in Table(Size(new))
  /\ src \in 0 .. nbuckets
  /\ spare \in Value \cup {NULL} /\ out.value \in Value \cup {NULL}
  /\ before \in [Key -> Value \cup {NULL}]

\* A bucket may hold an item with this distance only if that is where it is, and if
\* the bucket before it, between its home and it, holds one no closer to its own.
Reached(t, b, e) ==
  LET n == Size(t) IN
  /\ (Home(e.item.key, n) + e.dib - 1) % n = b
  /\ e.dib > 1 => t[(b + n - 1) % n].dib >= e.dib - 1

(***************************************************************************)
(* The order that hashmap_get relies on when it stops at the first free    *)
(* bucket: from the home of an item to its bucket none is free.  It holds  *)
(* for the item in hand too, but not in the middle of a deletion.          *)
(***************************************************************************)
TableOrdered ==
  /\ op # "shift" => \A b \in DOMAIN buckets :
                       buckets[b].dib # 0 => Reached(buckets, b, buckets[b])
  /\ \A b \in DOMAIN new : new[b].dib # 0 => Reached(new, b, new[b])
  /\ op = "set" => Reached(buckets, i, entry)
  /\ op = "move" => Reached(new, i, entry)

(* Together: distances fit their type, and lead from the home of an item to it. *)
TableSound == TypeOK /\ TableOrdered

Used(t) == {b \in DOMAIN t : t[b].dib # 0}

(***************************************************************************)
(* The counter that decides when to rebuild is the number of items, which  *)
(* are of different keys, and leaves a free bucket for the loops to end at. *)
(***************************************************************************)
CountExact ==
  op = "idle" => /\ count = Cardinality(Used(buckets))
                 /\ count = Cardinality({buckets[b].item.key : b \in Used(buckets)})
                 /\ count <= GrowAt(nbuckets) /\ count < nbuckets

(* Every call of the map returns: its loops meet a free bucket or the key. *)
CallReturns == op # "idle" ~> op = "idle"

-----------------------------------------------------------------------------
(***************************************************************************)
(* The table implements a map: a call takes effect when it returns, and    *)
(* returns what a map would, whatever was displaced, moved back or rebuilt. *)
(***************************************************************************)
Promise == INSTANCE Dictionary WITH
  contents <- IF op = "idle" THEN Contents(buckets) ELSE before, result <- out

ImplementsDictionary == Promise!Spec
=============================================================================
