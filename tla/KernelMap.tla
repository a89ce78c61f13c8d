------------------------------ MODULE KernelMap ------------------------------
(***************************************************************************)
(* kernel_module/map.c under check_permission of check.c.  The handler of  *)
(* netlink messages calls hashmap_set and hashmap_clear while a process in *)
(* a hook is in hashmap_get, or reads through the pointer it returned.     *)
(* Nothing is locked.                                                      *)
(*                                                                         *)
(* A step of the lookup is one read of the map or of a bucket; one of an   *)
(* update is a round of its loop, or an assignment that a lookup can tell  *)
(* from the next.  While a bucket is copied or zeroed each part of it may  *)
(* be read as it was or as it will be; memory that was freed, is not the   *)
(* map's or was never written may be read as anything.  The compiler may   *)
(* load map->buckets and map->mask in each round of the lookup, or keep    *)
(* them; the assignments of an update are seen in their order.             *)
(*                                                                         *)
(* There is one update at a time, and one lookup, since lookups share      *)
(* nothing.  Only a set that must grow the table can fail, which does      *)
(* nothing.                                                                *)
(***************************************************************************)
EXTENDS Integers, FiniteSets

CONSTANTS Key,          \* the paths
          Permission, Zero, NULL,
          Sent,         \* the pairs of a path and a permission that messages bring
          Hash,         \* user_hash
          Cap           \* map->cap, which no call changes

ASSUME HashAssumption == Hash \in [Key -> Nat]
ASSUME CapAssumption == Cap \in Nat \ {0, 1}
ASSUME PermissionAssumption == /\ Zero \in Permission
                               /\ Sent \subseteq Key \X Permission
                               /\ NULL \notin Key \cup Permission

VARIABLES buckets,               \* what map->buckets points to
          nbuckets, mask, count,
          op,                    \* where the update is, or "idle"
          arg, entry, i,         \* its item, the item in hand, and the bucket it is at
          new, src,              \* resize: map2->buckets, and the index in the old ones
          rules,                 \* history: the permissions stored since the last clear
          look,                  \* the lookup
          met,                   \* history: what updates did during the lookup
          had                    \* history: the permissions its path had meanwhile

table == <<buckets, nbuckets, mask, count>>
update == <<op, arg, entry, i, new, src>>
history == <<met, had>>
vars == <<table, update, rules, look, history>>

Bucket(dib, key, permission) == [dib |-> dib, key |-> key, permission |-> permission]
Empty == Bucket(0, NULL, Zero)
NoRules == [k \in Key |-> NULL]
NoLookup == [at |-> "idle", key |-> NULL, i |-> 0, mask |-> 0, base |-> "none",
             answer |-> NULL]

Zeroed(n) == [b \in 0 .. (n - 1) |-> Empty]
Size(t) == Cardinality(DOMAIN t)

\* Faulty variant of GrowAt: lets the table fill up.
GrowFull(n) == n
GrowAt(n) == (n * 3) \div 4

Home(k, m) == Hash[k] % (m + 1)
After(b, m) == (b + 1) % (m + 1)

Init ==
  /\ buckets = Zeroed(Cap) /\ nbuckets = Cap /\ mask = Cap - 1 /\ count = 0
  /\ op = "idle" /\ arg = Empty /\ entry = Empty /\ i = 0 /\ new = <<>> /\ src = 0
  /\ rules = NoRules
  /\ look = NoLookup /\ met = "nothing" /\ had = {}

-----------------------------------------------------------------------------
(* hashmap_set. *)

\* The loop begins, under this mask.
StartSet(item, m) == /\ op' = "set" /\ arg' = item /\ entry' = item
                     /\ i' = Home(item.key, m)
                     /\ new' = <<>> /\ src' = 0

Return == /\ op' = "idle" /\ arg' = Empty /\ entry' = Empty /\ i' = 0 /\ new' = <<>> /\ src' = 0

SetCall(k, permission) ==
  /\ op = "idle"
  /\ IF count = GrowAt(nbuckets)
       THEN /\ op' = "resize" /\ arg' = Bucket(1, k, permission)
            /\ new' = Zeroed(2 * nbuckets) /\ src' = 0
            /\ UNCHANGED <<entry, i>>
       ELSE StartSet(Bucket(1, k, permission), mask)
  /\ UNCHANGED <<table, rules, look>>

Insert ==
  /\ op = "set" /\ buckets[i].dib = 0
  /\ buckets' = [buckets EXCEPT ![i] = entry]
  /\ count' = count + 1
  /\ rules' = [rules EXCEPT ![arg.key] = arg.permission]
  /\ Return
  /\ UNCHANGED <<nbuckets, mask, look>>

Replaces == buckets[i].dib # 0 /\ buckets[i].key = entry.key
Displaces == buckets[i].dib \in 1 .. (entry.dib - 1) /\ buckets[i].key # entry.key

Replace ==
  /\ op = "set" /\ Replaces
  /\ buckets' = [buckets EXCEPT ![i].permission = entry.permission]
  /\ rules' = [rules EXCEPT ![arg.key] = arg.permission]
  /\ Return
  /\ UNCHANGED <<nbuckets, mask, count, look>>

SetPass ==
  /\ op = "set" /\ buckets[i].dib # 0 /\ ~Replaces
  /\ IF Displaces
       THEN /\ buckets' = [buckets EXCEPT ![i] = entry]
            /\ entry' = [buckets[i] EXCEPT !.dib = @ + 1]
       ELSE entry' = [entry EXCEPT !.dib = @ + 1] /\ UNCHANGED buckets
  /\ i' = After(i, mask)
  /\ UNCHANGED <<nbuckets, mask, count, op, arg, new, src, rules, look>>

-----------------------------------------------------------------------------
(* resize.  The item in hand is in the old bucket it was found in. *)

ResizeScan ==
  /\ op = "resize" /\ src < nbuckets
  /\ IF buckets[src].dib = 0
       THEN src' = src + 1 /\ UNCHANGED <<buckets, op, i>>
       ELSE /\ buckets' = [buckets EXCEPT ![src].dib = 1]
            /\ op' = "move"
            /\ i' = Home(buckets[src].key, Size(new) - 1)
            /\ UNCHANGED src
  /\ UNCHANGED <<nbuckets, mask, count, arg, entry, new, rules, look>>

MoveDisplaces == new[i].dib \in 1 .. (buckets[src].dib - 1)

MovePass ==
  /\ op = "move" /\ new[i].dib # 0
  /\ IF MoveDisplaces
       THEN /\ new' = [new EXCEPT ![i] = buckets[src]]
            /\ buckets' = [buckets EXCEPT ![src] = [new[i] EXCEPT !.dib = @ + 1]]
       ELSE /\ buckets' = [buckets EXCEPT ![src].dib = @ + 1]
            /\ UNCHANGED new
  /\ i' = After(i, Size(new) - 1)
  /\ UNCHANGED <<nbuckets, mask, count, op, arg, entry, src, rules, look>>

MoveEnd ==
  /\ op = "move" /\ new[i].dib = 0
  /\ new' = [new EXCEPT ![i] = buckets[src]]
  /\ src' = src + 1 /\ op' = "resize"
  /\ UNCHANGED <<table, arg, entry, i, rules, look>>

\* kfree(map->buckets): a pointer that a lookup has is that of freed memory from now on.
FreeBuckets == look' = [look EXCEPT !.base = IF @ = "none" THEN @ ELSE "freed"]

ResizeFree ==
  /\ op = "resize" /\ src = nbuckets
  /\ FreeBuckets
  /\ op' = "swap"
  /\ UNCHANGED <<table, arg, entry, i, new, src, rules>>

ResizeSwap ==
  /\ op = "swap"
  /\ buckets' = new /\ nbuckets' = Size(new)
  /\ op' = "mask"
  /\ UNCHANGED <<mask, count, arg, entry, i, new, src, rules, look>>

\* hashmap_set goes on.
ResizeMask ==
  /\ op = "mask"
  /\ mask' = nbuckets - 1
  /\ StartSet(arg, mask')
  /\ UNCHANGED <<buckets, nbuckets, count, rules, look>>

-----------------------------------------------------------------------------
(* hashmap_clear(map, 0).  A table that has grown gets a new array, or     *)
(* without memory for one is used in part.                                 *)

ClearCall ==
  /\ op = "idle"
  /\ count' = 0
  /\ \/ nbuckets = Cap /\ op' = "zero" /\ UNCHANGED nbuckets
     \/ nbuckets # Cap /\ op' = "clear" /\ UNCHANGED nbuckets
     \/ nbuckets # Cap /\ op' = "zero" /\ nbuckets' = Cap
  /\ UNCHANGED <<buckets, mask, arg, entry, i, new, src, rules, look>>

ClearFree ==
  /\ op = "clear"
  /\ FreeBuckets
  /\ op' = "renew"
  /\ UNCHANGED <<table, arg, entry, i, new, src, rules>>

\* The new array is in place, and not zero yet.
Renew ==
  /\ op = "renew"
  /\ buckets' = Zeroed(Cap) /\ nbuckets' = Cap
  /\ op' = "raw"
  /\ UNCHANGED <<mask, count, arg, entry, i, new, src, rules, look>>

\* Faulty variant of ZeroBuckets: only the first.
ZeroOne ==
  /\ op \in {"zero", "raw"}
  /\ buckets' = [buckets EXCEPT ![0] = Empty]
  /\ op' = "remask"
  /\ UNCHANGED <<nbuckets, mask, count, arg, entry, i, new, src, rules, look>>

\* memset
ZeroBuckets ==
  /\ op \in {"zero", "raw"}
  /\ buckets' = [b \in DOMAIN buckets |-> IF b < nbuckets THEN Empty ELSE buckets[b]]
  /\ op' = "remask"
  /\ UNCHANGED <<nbuckets, mask, count, arg, entry, i, new, src, rules, look>>

Remask == /\ op = "remask"
          /\ mask' = nbuckets - 1
          /\ rules' = NoRules
          /\ Return
          /\ UNCHANGED <<buckets, nbuckets, count, look>>

-----------------------------------------------------------------------------
(* hashmap_get, and check_permission behind it. *)

\* What a bucket may be read as that is b, and is being made one of Other.
Mixed(b, Other) ==
  LET all == {b} \cup Other
      keys == {x.key : x \in all}
  IN  [dib : {x.dib : x \in all},
       key : keys \cup (IF Cardinality(keys) > 1 THEN {NULL} ELSE {}),
       permission : {x.permission : x \in all}]

\* What a bucket of the map is being overwritten with.
Incoming(b) ==
  CASE op = "set" /\ b = i /\ (buckets[i].dib = 0 \/ Replaces \/ Displaces) -> {entry}
    [] op = "move" /\ b = src /\ MoveDisplaces -> {new[i]}
    [] op = "zero" /\ b < nbuckets -> {Empty}
    [] OTHER -> {}

Owned == look.base = "map" /\ look.i \in DOMAIN buckets

\* What the bucket may be read as: before memset anything.
Seen == IF op = "raw" THEN [dib : {0, 1}, key : {look.key, NULL}, permission : Permission]
                      ELSE Mixed(buckets[look.i], Incoming(look.i))

Step(changed) == /\ look' = changed
                 /\ UNCHANGED <<table, update, rules>>

\* Faulty variant of Begin: begins at the first bucket.
BeginFirst(k) ==
  /\ look.at = "idle"
  /\ Step([NoLookup EXCEPT !.at = "locate", !.key = k, !.i = 0, !.mask = mask])

Begin(k) ==
  /\ look.at = "idle"
  /\ Step([NoLookup EXCEPT !.at = "locate", !.key = k, !.i = Home(k, mask), !.mask = mask])

Locate ==
  /\ look.at = "locate"
  /\ \E base \in {IF op \in {"swap", "renew"} THEN "freed" ELSE "map"}
                   \cup ({look.base} \ {"none"}) :
       Step([look EXCEPT !.at = "probe", !.base = base])

\* A read of what is not the map's has any outcome; it ends the lookup here.
ReadAstray == /\ look.at \in {"probe", "compare", "permission"} /\ ~Owned
              /\ Step([look EXCEPT !.at = "astray"])

Probe ==
  /\ look.at = "probe" /\ Owned
  /\ \E seen \in Seen : Step([look EXCEPT !.at = IF seen.dib = 0 THEN "done" ELSE "compare"])

\* Faulty variant of Compare: the next bucket is not masked.
CompareOnward ==
  /\ look.at = "compare" /\ Owned
  /\ \E seen \in Seen :
       \/ seen.key = look.key /\ Step([look EXCEPT !.at = "permission"])
       \/ seen.key # look.key /\ Step([look EXCEPT !.at = "locate", !.i = @ + 1])

Compare ==
  /\ look.at = "compare" /\ Owned
  /\ \E seen \in Seen :
       \/ seen.key = look.key /\ Step([look EXCEPT !.at = "permission"])
       \/ /\ seen.key # look.key
          /\ \E m \in {mask, look.mask} :
               Step([look EXCEPT !.at = "locate", !.i = After(@, m), !.mask = m])

ReadPermission ==
  /\ look.at = "permission" /\ Owned
  /\ \E seen \in Seen : Step([look EXCEPT !.at = "done", !.answer = seen.permission])

Finish == look.at \in {"done", "astray"} /\ Step(NoLookup)

-----------------------------------------------------------------------------
\* What an update does that a lookup may notice: a "move" takes a rule from its bucket,
\* and "array" gives the buckets back.
Doing ==
  CASE op = "idle" -> "nothing"
    [] op = "set" -> IF entry.key # arg.key \/ Displaces THEN "move" ELSE "store"
    [] op \in {"zero", "remask"} -> IF mask = nbuckets - 1 THEN "clear" ELSE "array"
    [] OTHER -> "array"

\* What updates do together; "reuse" is a set and a clear.
Both(a, b) == CASE a = b \/ b = "nothing" -> a
                [] a = "nothing" -> b
                [] "array" \in {a, b} -> "array"
                [] {a, b} = {"store", "move"} -> "move"
                [] OTHER -> "reuse"

\* The permissions that the path looked for has, or is getting.
Having == {rules[look.key]}
            \cup (IF arg.key = look.key THEN {arg.permission} ELSE {})
            \cup (IF op \in {"zero", "remask"} THEN {NULL} ELSE {})

\* They matter while no rule is moved.
Watch == IF look'.at = "idle" THEN met' = "nothing" /\ had' = {}
         ELSE /\ met' = Both(met, Doing')
              /\ had' = IF met' \in {"move", "reuse", "array"} THEN {} ELSE had \cup Having'

Updating == \/ Insert \/ Replace \/ SetPass
            \/ ResizeScan \/ MovePass \/ MoveEnd \/ ResizeFree \/ ResizeSwap \/ ResizeMask
            \/ ClearFree \/ Renew \/ ZeroBuckets \/ Remask
Looking == Locate \/ ReadAstray \/ Probe \/ Compare \/ ReadPermission \/ Finish

Next == /\ \/ \E k \in Key : Begin(k)
           \/ \E rule \in Sent : SetCall(rule[1], rule[2])
           \/ ClearCall \/ Updating \/ Looking
        /\ Watch

\* Updates and lookups that have begun go on.
Spec == Init /\ [][Next]_vars /\ WF_vars(Updating /\ Watch) /\ WF_vars(Looking /\ Watch)
-----------------------------------------------------------------------------
Buckets(n) == {Empty} \cup [dib : 1 .. n, key : Key, permission : Permission]

(* Type invariant: the table, which may be part of a larger array, and the lookup. *)
TypeOK ==
  /\ nbuckets \in {Cap * n : n \in 1 .. Size(buckets)} /\ nbuckets <= Size(buckets)
  /\ \A b \in DOMAIN buckets : buckets[b] \in Buckets(2 * Size(buckets))
  /\ op \in {"idle", "set", "resize", "move", "swap", "mask",
             "clear", "renew", "raw", "zero", "remask"}
  /\ op \in {"idle", "set", "resize", "move"} => mask = nbuckets - 1
  /\ op = "set" => i \in 0 .. mask
  /\ look.at \in {"idle", "locate", "probe", "compare", "permission", "done", "astray"}
  /\ look.at = "idle" <=> look.key = NULL
  /\ look.answer \in Permission \cup {NULL}

(***************************************************************************)
(* Between updates the table is what was stored since the last clear: each *)
(* path once, with its permission, in count buckets, and with a free one   *)
(* left, whether it was grown, shrunk or left large for want of memory.    *)
(***************************************************************************)
TableIsRules ==
  op = "idle" =>
    LET used == {b \in 0 .. (nbuckets - 1) : buckets[b].dib # 0} IN
    /\ {<<buckets[b].key, buckets[b].permission>> : b \in used}
         = {<<k, rules[k]>> : k \in {x \in Key : rules[x] # NULL}}
    /\ Cardinality(used) = Cardinality({k \in Key : rules[k] # NULL})
    /\ count = Cardinality(used) /\ count < nbuckets

(* Together: the table fits its array, and between updates holds the rules. *)
TableSound == TypeOK /\ TableIsRules

(***************************************************************************)
(* When a lookup may be wrong.  It is exact while no update runs.  While   *)
(* rules are stored that displace none, or the map is cleared without a    *)
(* new array, it answers with a permission that its path had meanwhile, or *)
(* with none at all, of a rule that is half copied or half zeroed, which   *)
(* refuses.  Only a rule that is displaced, by a set or a resize, a new    *)
(* array, or a set after a clear may hide the rule or show that of another *)
(* path.                                                                   *)
(***************************************************************************)
AnswerRight ==
  (look.at = "done" /\ met \in {"nothing", "store", "clear"}) =>
    look.answer \in had \cup (IF met = "nothing" THEN {} ELSE {Zero})

(***************************************************************************)
(* A lookup reads memory that was freed, or behind the end of the array,   *)
(* only if the table is grown or its array given back meanwhile: not after *)
(* the update, and never in a map that had no more than GrowAt(cap) rules. *)
(***************************************************************************)
ReadsOwned == look.at = "astray" => met = "array"

(***************************************************************************)
(* A lookup ends, however many rules are stored meanwhile, unless the      *)
(* table is resized or cleared under it: there is always a free bucket.    *)
(***************************************************************************)
LookupEnds == look.at # "idle" ~> look.at = "idle" \/ met \in {"reuse", "array"}
=============================================================================
