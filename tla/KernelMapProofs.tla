--------------------------- MODULE KernelMapProofs ---------------------------
(***************************************************************************)
(* The map of the kernel module under lookups, for any paths, hash values  *)
(* and size of the table.                                                  *)
(*                                                                         *)
(* Where a lookup reads: the mask never reaches behind the array except in *)
(* the steps that exchange the array (Shape), and a lookup that has seen   *)
(* none of these steps is inside, in the array that is there (Inside).     *)
(*                                                                         *)
(* What the table holds: read as a table of RobinHood (Of), each round of  *)
(* an update is one of RobinHood's, whose lemmas say what it keeps (KInv). *)
(*                                                                         *)
(* What a lookup answers: while nothing is displaced and the array stays,  *)
(* the bucket of its path is ahead of it, or the path had no rule          *)
(* meanwhile (Answering).                                                  *)
(***************************************************************************)
EXTENDS KernelMap, FiniteSetTheorems, TLAPS

\* The steps between which the array or the mask is exchanged.
Exchange == {"resize", "move", "swap", "mask", "clear", "renew", "raw"}

Shape ==
  /\ nbuckets \in Nat \ {0} /\ mask \in Nat /\ Cap <= nbuckets
  /\ DOMAIN buckets \in SUBSET Nat /\ 0 .. (nbuckets - 1) \subseteq DOMAIN buckets
  /\ op \in {"idle", "set", "zero", "remask"} \cup Exchange
  /\ op \in {"idle", "set", "resize", "move", "swap", "clear", "renew"} => mask = nbuckets - 1
  /\ op \in {"resize", "move", "swap"} => DOMAIN new = 0 .. (2 * nbuckets - 1)

Lookup == look = [at |-> look.at, key |-> look.key, i |-> look.i, mask |-> look.mask,
                  base |-> look.base, answer |-> look.answer]

\* Where a lookup that has seen no exchange is.
InBounds == /\ look.i \in 0 .. mask /\ look.mask = mask
            /\ look.base \in {"none", "map"}
            /\ look.at \in {"probe", "compare", "permission"} => look.base = "map"
            /\ look.at # "astray"

Inside == look.at # "idle" => met = "array" \/ (Doing # "array" /\ InBounds)

IInv == Shape /\ Lookup /\ Inside

LEMMA ModRange == ASSUME NEW a \in Nat, NEW m \in Nat PROVE a % (m + 1) \in 0 .. m
OBVIOUS

\* The size of an array of n buckets.
LEMMA SizeOf == ASSUME NEW n \in Nat, NEW t, DOMAIN t = 0 .. (n - 1) PROVE Size(t) = n
BY FS_Interval DEF Size

LEMMA ShapeInit == Init => Shape
<1>. SUFFICES ASSUME Init PROVE Shape
  OBVIOUS
<1>1. DOMAIN buckets = 0 .. (Cap - 1)
  BY DEF Init, Zeroed
<1>2. QED BY <1>1, CapAssumption DEF Init, Shape, Exchange

LEMMA ShapeNext == Shape /\ [Next]_vars => Shape'
<1>. SUFFICES ASSUME Shape, [Next]_vars PROVE Shape'
  OBVIOUS
<1>. USE DEF Shape, Exchange
<1>1. ASSUME NEW rule \in Sent, SetCall(rule[1], rule[2]) PROVE Shape'
  BY <1>1 DEF SetCall, StartSet, table, Zeroed
<1>2. CASE ClearCall
  BY <1>2, CapAssumption DEF ClearCall
<1>3. CASE Insert
  BY <1>3 DEF Insert, Return
<1>4. CASE Replace
  BY <1>4 DEF Replace, Return
<1>5. CASE SetPass
  BY <1>5 DEF SetPass
<1>6. CASE ResizeScan
  BY <1>6 DEF ResizeScan
<1>7. CASE MovePass
  BY <1>7 DEF MovePass
<1>8. CASE MoveEnd
  BY <1>8 DEF MoveEnd, table
<1>9. CASE ResizeFree
  BY <1>9 DEF ResizeFree, table
<1>10. CASE ResizeSwap
  <2>1. DOMAIN new = 0 .. (2 * nbuckets - 1) /\ 2 * nbuckets \in Nat \ {0}
    BY <1>10 DEF ResizeSwap
  <2>2. Size(new) = 2 * nbuckets
    BY <2>1, SizeOf
  <2>3. /\ op' = "mask" /\ UNCHANGED mask
        /\ nbuckets' = 2 * nbuckets /\ DOMAIN buckets' = 0 .. (2 * nbuckets - 1)
    BY <1>10, <2>1, <2>2 DEF ResizeSwap
  <2>4. 0 .. (2 * nbuckets - 1) \in SUBSET Nat /\ Cap <= 2 * nbuckets
    BY <2>1, CapAssumption
  <2>5. QED BY <2>1, <2>3, <2>4
<1>11. CASE ResizeMask
  BY <1>11 DEF ResizeMask, StartSet
<1>12. CASE ClearFree
  BY <1>12 DEF ClearFree, table
<1>13. CASE Renew
  BY <1>13, CapAssumption DEF Renew, Zeroed
<1>14. CASE ZeroBuckets
  BY <1>14 DEF ZeroBuckets
<1>15. CASE Remask
  BY <1>15 DEF Remask, Return
<1>16. CASE UNCHANGED <<table, update>>
  BY <1>16 DEF table, update
<1>17. ASSUME NEW k \in Key, Begin(k) PROVE UNCHANGED <<table, update>>
  BY <1>17 DEF Begin, Step
<1>18. Looking => UNCHANGED <<table, update>>
  BY DEF Looking, Locate, ReadAstray, Probe, Compare, ReadPermission, Finish, Step
<1>19. QED BY <1>1, <1>2, <1>3, <1>4, <1>5, <1>6, <1>7, <1>8, <1>9, <1>10, <1>11, <1>12,
              <1>13, <1>14, <1>15, <1>16, <1>17, <1>18 DEF Next, Updating, vars

-----------------------------------------------------------------------------
\* "array" is never forgotten.
LEMMA ArrayStays ==
  ASSUME NEW a, NEW b, Both(a, b) # "array" PROVE a # "array" /\ b # "array"
BY DEF Both

\* A step leaves the lookup inside if it was, unless this is noticed.
LEMMA Noticed ==
  ASSUME Watch, look'.at # "idle", met' # "array" PROVE met # "array" /\ Doing' # "array"
BY ArrayStays DEF Watch

\* While the array is not exchanged, the mask ends at the last bucket, or before it.
LEMMA MaskInside ==
  ASSUME Shape, Doing # "array"
  PROVE /\ op \notin Exchange
        /\ mask = nbuckets - 1 /\ 0 .. mask \subseteq DOMAIN buckets
BY DEF Shape, Exchange, Doing

LEMMA InsideNext == IInv /\ [Next]_vars => Lookup' /\ Inside'
<1>. SUFFICES ASSUME IInv, [Next]_vars PROVE Lookup' /\ Inside'
  OBVIOUS
<1>. USE DEF IInv
<1>1. CASE UNCHANGED vars
  BY <1>1 DEF vars, table, update, history, Lookup, Inside, InBounds, Doing, Displaces
<1>2. ASSUME Watch, look'.at # "idle", met' # "array"
      PROVE met # "array" /\ Doing' # "array"
  BY <1>2, Noticed
<1>3. ASSUME look.at # "idle", met # "array"
      PROVE /\ InBounds /\ op \notin Exchange
            /\ mask = nbuckets - 1 /\ 0 .. mask \subseteq DOMAIN buckets
  BY <1>3, MaskInside DEF Inside
<1>4. ASSUME Watch, UNCHANGED look, look.at # "idle" /\ met # "array" => mask' = mask
      PROVE Lookup' /\ Inside'
  BY <1>2, <1>3, <1>4 DEF Lookup, Inside, InBounds
<1>5. ASSUME Watch, FreeBuckets, op' \in {"swap", "renew"} PROVE Lookup' /\ Inside'
  <2>1. Doing' = "array"
    BY <1>5 DEF Doing
  <2>2. Lookup'
    BY <1>5 DEF FreeBuckets, Lookup
  <2>3. QED BY <1>2, <1>5, <2>1, <2>2 DEF Inside
<1>6. ASSUME NEW rule \in Sent, SetCall(rule[1], rule[2]), Watch PROVE Lookup' /\ Inside'
  BY <1>4, <1>6 DEF SetCall, table
<1>7. CASE ClearCall /\ Watch
  BY <1>4, <1>7 DEF ClearCall
<1>8. CASE Updating /\ Watch
  <2>1. CASE ResizeFree
    BY <1>5, <1>8, <2>1 DEF ResizeFree
  <2>2. CASE ClearFree
    BY <1>5, <1>8, <2>2 DEF ClearFree
  <2>3. CASE ResizeMask
    BY <1>3, <1>4, <1>8, <2>3 DEF ResizeMask, Exchange
  <2>4. CASE Remask
    BY <1>3, <1>4, <1>8, <2>4 DEF Remask
  <2>5. CASE Insert \/ Replace \/ SetPass
    BY <1>4, <1>8, <2>5 DEF Insert, Replace, SetPass
  <2>6. CASE ResizeScan \/ MovePass \/ MoveEnd \/ ResizeSwap
    BY <1>4, <1>8, <2>6 DEF ResizeScan, MovePass, MoveEnd, ResizeSwap, table
  <2>7. CASE Renew \/ ZeroBuckets
    BY <1>4, <1>8, <2>7 DEF Renew, ZeroBuckets
  <2>8. QED BY <1>8, <2>1, <2>2, <2>3, <2>4, <2>5, <2>6, <2>7 DEF Updating
<1>9. ASSUME NEW k \in Key, Begin(k), Watch PROVE Lookup' /\ Inside'
  <2>1. Home(k, mask) \in 0 .. mask /\ UNCHANGED mask
    BY <1>9, ModRange, HashAssumption DEF Home, Begin, Step, table, Shape
  <2>2. look' = [NoLookup EXCEPT !.at = "locate", !.key = k, !.i = Home(k, mask), !.mask = mask]
    BY <1>9 DEF Begin, Step
  <2>3. look' = [at |-> "locate", key |-> k, i |-> Home(k, mask), mask |-> mask,
                 base |-> "none", answer |-> NULL]
    BY <2>2 DEF NoLookup
  <2>4. QED BY <1>2, <1>9, <2>1, <2>3 DEF Lookup, Inside, InBounds
<1>10. ASSUME Looking, Watch PROVE Lookup' /\ Inside'
  <2>1. UNCHANGED <<table, update>>
    BY <1>10 DEF Looking, Locate, ReadAstray, Probe, Compare, ReadPermission, Finish, Step
  <2>2. UNCHANGED mask
    BY <2>1 DEF table
  <2>3. CASE Locate
    BY <1>2, <1>3, <1>10, <2>2, <2>3
       DEF Locate, Step, Lookup, Inside, InBounds, Exchange
  <2>4. CASE ReadAstray
    BY <1>2, <1>3, <1>10, <2>2, <2>4
       DEF ReadAstray, Owned, Step, Lookup, Inside, InBounds
  <2>5. CASE Probe
    BY <1>2, <1>3, <1>10, <2>2, <2>5 DEF Probe, Step, Lookup, Inside, InBounds
  <2>6. CASE Compare
    <3>1. CASE look' = [look EXCEPT !.at = "permission"]
      BY <1>2, <1>3, <1>10, <2>2, <2>6, <3>1 DEF Compare, Lookup, Inside, InBounds
    <3>2. ASSUME NEW m \in {mask, look.mask},
                 look' = [look EXCEPT !.at = "locate", !.i = After(@, m), !.mask = m]
          PROVE Lookup' /\ Inside'
      <4>1. ASSUME met # "array" PROVE m = mask /\ After(look.i, m) \in 0 .. mask
        <5>1. InBounds /\ mask \in Nat
          BY <1>3, <2>6, <4>1 DEF Compare, Shape
        <5>2. m = mask /\ look.i + 1 \in Nat
          BY <5>1 DEF InBounds
        <5>3. QED BY <5>1, <5>2, ModRange DEF After
      <4>2. Lookup'
        BY <3>2 DEF Lookup
      <4>3. look'.at = "locate" /\ look'.i = After(look.i, m) /\ look'.mask = m
            /\ look'.base = look.base
        BY <3>2 DEF Lookup
      <4>4. QED BY <1>2, <1>3, <1>10, <2>2, <2>6, <4>1, <4>2, <4>3
                DEF Compare, Inside, InBounds
    <3>3. QED BY <2>6, <3>1, <3>2 DEF Compare, Step
  <2>7. CASE ReadPermission
    BY <1>2, <1>3, <1>10, <2>2, <2>7 DEF ReadPermission, Step, Lookup, Inside, InBounds
  <2>8. CASE Finish
    BY <2>8 DEF Finish, Step, NoLookup, Lookup, Inside
  <2>9. QED BY <1>10, <2>3, <2>4, <2>5, <2>6, <2>7, <2>8 DEF Looking
<1>11. QED BY <1>1, <1>6, <1>7, <1>8, <1>9, <1>10 DEF Next

LEMMA Invariance == Spec => []IInv
<1>1. Init => IInv
  BY ShapeInit DEF Init, NoLookup, IInv, Lookup, Inside
<1>2. IInv /\ [Next]_vars => IInv'
  BY ShapeNext, InsideNext DEF IInv
<1>3. QED BY <1>1, <1>2, PTL DEF Spec

(***************************************************************************)
(* ReadsOwned, for any paths, hash values and cap: check_permission reads  *)
(* freed memory, or behind the buckets, only if the array was exchanged    *)
(* since hashmap_get began.                                                *)
(***************************************************************************)
THEOREM OwnedReads == Spec => []ReadsOwned
<1>1. IInv => ReadsOwned
  BY DEF IInv, Inside, InBounds, ReadsOwned
<1>2. QED BY <1>1, Invariance, PTL

-----------------------------------------------------------------------------
(* The table as one of RobinHood. *)

R == INSTANCE RobinHoodProofs WITH
  Value <- Permission, InitialCap <- Cap, ShrinkDivisor <- 10,
  cap <- Cap, oom <- FALSE, spare <- NULL, out <- NULL, before <- NULL

USE HashAssumption, CapAssumption, PermissionAssumption

\* The item of a bucket, and the bucket, as RobinHood has them.
ItemOf(b) == [key |-> b.key, value |-> b.permission]
As(b) == IF b.dib = 0 THEN R!Empty ELSE [dib |-> b.dib, item |-> ItemOf(b)]

\* The table of n buckets in the array t.
Of(t, n) == [b \in 0 .. (n - 1) |-> As(t[b])]

LEMMA AsIs ==
  ASSUME NEW n \in Nat \ {0}, NEW b \in Buckets(n)
  PROVE /\ b.dib \in 0 .. n
        /\ As(b) \in {R!Empty} \cup R!Filled(n)
        /\ As(b).dib = b.dib
        /\ b.dib = 0 => b = Empty /\ As(b) = R!Empty
        /\ b.dib # 0 => /\ b \in [dib : 1 .. n, key : Key, permission : Permission]
                        /\ As(b) \in R!Filled(n) /\ As(b).item = ItemOf(b)
                        /\ ItemOf(b) \in R!Item
                        /\ ItemOf(b).key = b.key /\ ItemOf(b).value = b.permission
BY DEF Buckets, Empty, Bucket, As, ItemOf, R!Empty, R!None, R!Filled, R!Item

LEMMA Fitted ==
  ASSUME NEW n \in Nat \ {0}, NEW m \in Nat \ {0}, NEW b \in Buckets(m), b.dib # 0, As(b) \in R!Filled(n)
  PROVE b \in Buckets(n)
<1>1. b.dib \in 1 .. n
  BY AsIs DEF R!Filled
<1>2. b = [dib |-> b.dib, key |-> b.key, permission |-> b.permission] /\ b.key \in Key /\ b.permission \in Permission
  BY AsIs
<1>. QED BY <1>1, <1>2 DEF Buckets

LEMMA Larger ==
  ASSUME NEW n \in Nat, NEW m \in Nat, n <= m PROVE Buckets(n) \subseteq Buckets(m)
BY DEF Buckets

LEMMA OfIs ==
  ASSUME NEW n \in Nat \ {0}, NEW t, \A b \in 0 .. (n - 1) : t[b] \in Buckets(n)
  PROVE /\ Of(t, n) \in R!Table(n)
        /\ \A b \in 0 .. (n - 1) : Of(t, n)[b] = As(t[b]) /\ Of(t, n)[b].dib = t[b].dib
<1>1. \A b \in 0 .. (n - 1) : As(t[b]) \in {R!Empty} \cup R!Filled(n) /\ As(t[b]).dib = t[b].dib
  BY AsIs
<1>. QED BY <1>1 DEF Of, R!Table

LEMMA OfPut ==
  ASSUME NEW n \in Nat \ {0}, NEW t, 0 .. (n - 1) \subseteq DOMAIN t, NEW b \in 0 .. (n - 1), NEW e,
         NEW u, u = R!Put(t, b, e)
  PROVE Of(u, n) = R!Put(Of(t, n), b, As(e))
<1>1. /\ DOMAIN Of(u, n) = 0 .. (n - 1) /\ DOMAIN R!Put(Of(t, n), b, As(e)) = 0 .. (n - 1)
  BY DEF Of, R!Put
<1>2. \A c \in 0 .. (n - 1) : Of(u, n)[c] = IF c = b THEN As(e) ELSE As(t[c])
  BY DEF Of, R!Put
<1>3. \A c \in 0 .. (n - 1) : R!Put(Of(t, n), b, As(e))[c] = IF c = b THEN As(e) ELSE As(t[c])
  BY DEF Of, R!Put
<1>4. Of(u, n) = [c \in 0 .. (n - 1) |-> Of(u, n)[c]]
  BY DEF Of
<1>5. R!Put(Of(t, n), b, As(e)) = [c \in 0 .. (n - 1) |-> R!Put(Of(t, n), b, As(e))[c]]
  BY DEF Of, R!Put
<1>. QED BY <1>2, <1>3, <1>4, <1>5

LEMMA OfZeroed ==
  ASSUME NEW n \in Nat \ {0} PROVE Of(Zeroed(n), n) = R!Fresh(n)
BY DEF Of, Zeroed, R!Fresh, As, Empty, Bucket

LEMMA SameHome == ASSUME NEW n \in Nat, NEW k PROVE Home(k, n - 1) = R!Home(k, n)
<1>1. (n - 1) + 1 = n
  OBVIOUS
<1>. QED BY <1>1 DEF Home, R!Home

LEMMA SameAfter == ASSUME NEW n \in Nat, NEW b PROVE After(b, n - 1) = R!After(b, n)
<1>1. (n - 1) + 1 = n
  OBVIOUS
<1>. QED BY <1>1 DEF After, R!After

\* An item that has another bucket to go.
LEMMA AsFurther ==
  ASSUME NEW n \in Nat \ {0}, NEW b \in Buckets(n), b.dib # 0, NEW c, c = [b EXCEPT !.dib = @ + 1]
  PROVE /\ As(c) = R!Swapped(As(b), As(b)) /\ As(c) = [As(b) EXCEPT !.dib = @ + 1]
        /\ c.dib = b.dib + 1 /\ c.key = b.key /\ c.permission = b.permission
        /\ c \in Buckets(n + 1) /\ ItemOf(c) = ItemOf(b)
<1>1. b \in [dib : 1 .. n, key : Key, permission : Permission]
  BY AsIs
<1>. QED BY <1>1 DEF As, R!Swapped, Buckets, ItemOf

-----------------------------------------------------------------------------
(* The inductive invariant of the table. *)

Rebuilding == op \in {"resize", "move"}

\* What resize has not taken yet from the old buckets; their distances are spoilt.
RestAt(b) == IF b < src \/ buckets[b].dib = 0 THEN R!Empty
                                              ELSE [dib |-> 1, item |-> ItemOf(buckets[b])]
Rest == [b \in 0 .. (nbuckets - 1) |-> RestAt(b)]

Good(t, n) == t \in R!Table(n) /\ R!Sound(t, n, {}) /\ R!Distinct(t, {})

\* A table of n buckets with these rules.
Holds(t, n) == /\ Good(t, n)
               /\ R!MapOf(R!Items(t, {}), rules)
               /\ count = Cardinality(R!Used(t))

Here == Of(buckets, nbuckets)
There == Of(new, 2 * nbuckets)

\* An item on its way to bucket b.
Coming(e, t, n) == e \in R!Filled(n) /\ i \in 0 .. (n - 1) /\ R!Placed(e, i, n) /\ R!Path(t, n, i, e, {})

Stored == [rules EXCEPT ![arg.key] = arg.permission]

Fits ==
  /\ nbuckets \in {Cap * n : n \in Nat \ {0}} /\ nbuckets <= Size(buckets)
  /\ Size(buckets) \in Nat /\ DOMAIN buckets = 0 .. (Size(buckets) - 1)
  /\ \A b \in DOMAIN buckets : buckets[b] \in Buckets(2 * Size(buckets))
  /\ op \in {"resize", "move", "swap"} =>
       \A b \in 0 .. (2 * nbuckets - 1) : new[b] \in Buckets(2 * nbuckets)
  /\ op \in {"set", "resize", "move", "swap", "mask"} =>
       arg \in [dib : {1}, key : Key, permission : Permission]
  /\ rules \in [Key -> Permission \cup {NULL}]

Between ==
  /\ op \in {"idle", "mask"} => Holds(Here, nbuckets) /\ count <= GrowAt(nbuckets)
  /\ op = "mask" => count # GrowAt(nbuckets)
  /\ op = "swap" => Holds(There, 2 * nbuckets) /\ count < GrowAt(2 * nbuckets)
  /\ op \in {"clear", "renew", "raw", "zero", "remask"} => count = 0
  /\ op = "remask" => Here = R!Fresh(nbuckets)

Setting ==
  op = "set" =>
    /\ Good(Here, nbuckets) /\ count = Cardinality(R!Used(Here)) /\ count < GrowAt(nbuckets)
    /\ entry \in Buckets(nbuckets) /\ entry.dib # 0 /\ Coming(As(entry), Here, nbuckets)
    /\ \A b \in R!Used(Here) : Here[b].item.key = entry.key =>
         entry.key = arg.key /\ entry.dib <= Here[b].dib
    /\ IF entry.key = arg.key
         THEN entry.permission = arg.permission /\ R!MapOf(R!Items(Here, {}), rules)
         ELSE rules[arg.key] = NULL /\ R!MapOf(R!Items(Here, {}) \cup {ItemOf(entry)}, Stored)

Resizing ==
  Rebuilding =>
    /\ src \in 0 .. nbuckets
    /\ Good(There, 2 * nbuckets) /\ R!Distinct(Rest, {})
    /\ \A a \in R!Used(There), b \in R!Used(Rest) : There[a].item.key # Rest[b].item.key
    /\ R!MapOf(R!Items(There, {}) \cup R!Items(Rest, {}), rules)
    /\ count = Cardinality(R!Used(There)) + Cardinality(R!Used(Rest))
    /\ count < GrowAt(2 * nbuckets)
    /\ op = "move" => /\ src < nbuckets /\ buckets[src].dib # 0
                      /\ Coming(As(buckets[src]), There, 2 * nbuckets)

KInv == Fits /\ Between /\ Setting /\ Resizing

-----------------------------------------------------------------------------
LEMMA Multiple == ASSUME NEW n \in Nat \ {0} PROVE Cap * n \in Nat \ {0, 1} /\ Cap <= Cap * n /\ n <= Cap * n
<1>1. PICK m \in Nat : n = m + 1
  <2>1. n - 1 \in Nat /\ n = (n - 1) + 1
    OBVIOUS
  <2>. QED BY <2>1
<1>2. Cap * n = Cap * m + Cap /\ Cap * m \in Nat
  BY <1>1
<1>3. m <= Cap * m
  OBVIOUS
<1>. QED BY <1>1, <1>2, <1>3

LEMMA GrowsBelow ==
  ASSUME NEW n \in Nat \ {0, 1} PROVE GrowAt(n) \in Nat /\ GrowAt(n) < n /\ GrowAt(n) < GrowAt(2 * n)
BY DEF GrowAt

LEMMA KFacts ==
  ASSUME Fits
  PROVE /\ nbuckets \in Nat \ {0, 1} /\ 2 * nbuckets \in Nat \ {0, 1} /\ Cap <= nbuckets
        /\ Size(buckets) \in Nat \ {0} /\ nbuckets <= Size(buckets)
        /\ DOMAIN buckets = 0 .. (Size(buckets) - 1)
        /\ 0 .. (nbuckets - 1) \subseteq DOMAIN buckets
        /\ \A b \in 0 .. (nbuckets - 1) : buckets[b] \in Buckets(2 * Size(buckets))
        /\ GrowAt(nbuckets) \in Nat /\ GrowAt(nbuckets) < nbuckets
        /\ GrowAt(2 * nbuckets) \in Nat /\ GrowAt(2 * nbuckets) < 2 * nbuckets
        /\ GrowAt(nbuckets) < GrowAt(2 * nbuckets)
<1>1. PICK n \in Nat \ {0} : nbuckets = Cap * n
  BY DEF Fits
<1>2. nbuckets \in Nat \ {0, 1} /\ 2 * nbuckets \in Nat \ {0, 1} /\ Cap <= nbuckets
  BY <1>1, Multiple
<1>3. /\ nbuckets <= Size(buckets) /\ Size(buckets) \in Nat
      /\ DOMAIN buckets = 0 .. (Size(buckets) - 1)
      /\ \A b \in DOMAIN buckets : buckets[b] \in Buckets(2 * Size(buckets))
  BY DEF Fits
<1>4. /\ GrowAt(nbuckets) \in Nat /\ GrowAt(nbuckets) < nbuckets
      /\ GrowAt(nbuckets) < GrowAt(2 * nbuckets)
  BY <1>2, GrowsBelow
<1>5. GrowAt(2 * nbuckets) \in Nat /\ GrowAt(2 * nbuckets) < 2 * nbuckets
  BY <1>2, GrowsBelow
<1>6. /\ Size(buckets) # 0 /\ 0 .. (nbuckets - 1) \subseteq DOMAIN buckets
      /\ \A b \in 0 .. (nbuckets - 1) : buckets[b] \in Buckets(2 * Size(buckets))
  BY <1>2, <1>3
<1>. QED BY <1>2, <1>3, <1>4, <1>5, <1>6

\* Tables.
LEMMA GoodIs ==
  ASSUME NEW n \in Nat \ {0, 1}, NEW t, Good(t, n)
  PROVE /\ t \in R!Table(n) /\ R!Sound(t, n, {}) /\ R!Distinct(t, {}) /\ DOMAIN t = 0 .. (n - 1)
        /\ R!Used(t) = {b \in 0 .. (n - 1) : t[b].dib # 0}
        /\ IsFiniteSet(R!Used(t)) /\ Cardinality(R!Used(t)) \in Nat
        /\ R!Items(t, {}) \in SUBSET R!Item
        /\ \A b \in 0 .. (n - 1) : t[b].dib \in 0 .. n /\ (t[b].dib # 0 => t[b] \in R!Filled(n))
<1>1. t \in R!Table(n) /\ R!Sound(t, n, {}) /\ R!Distinct(t, {})
  BY DEF Good
<1>2. DOMAIN t = 0 .. (n - 1)
  BY <1>1 DEF R!Table
<1>3. IsFiniteSet(R!Used(t)) /\ Cardinality(R!Used(t)) \in Nat
  <2>1. R!Used(t) \subseteq 0 .. (n - 1) /\ IsFiniteSet(0 .. (n - 1))
    BY <1>2, FS_Interval DEF R!Used
  <2>. QED BY <2>1, FS_Subset, FS_CardinalityType
<1>4. R!Items(t, {}) \in SUBSET R!Item
  BY <1>1, R!ItemsIn
<1>5. \A b \in 0 .. (n - 1) : t[b].dib \in 0 .. n /\ (t[b].dib # 0 => t[b] \in R!Filled(n))
  BY <1>1, R!TableEntry
<1>. QED BY <1>1, <1>2, <1>3, <1>4, <1>5 DEF R!Used

LEMMA FreeLeft ==
  ASSUME NEW n \in Nat \ {0, 1}, NEW t, Good(t, n), Cardinality(R!Used(t)) < n
  PROVE \E c \in 0 .. (n - 1) : t[c].dib = 0
<1>. SUFFICES ASSUME \A c \in 0 .. (n - 1) : t[c].dib # 0 PROVE FALSE
  OBVIOUS
<1>1. R!Used(t) = 0 .. (n - 1)
  BY GoodIs
<1>2. Cardinality(0 .. (n - 1)) = n
  BY FS_Interval
<1>. QED BY <1>1, <1>2

LEMMA SetFacts ==
  ASSUME KInv, op = "set"
  PROVE /\ Good(Here, nbuckets) /\ count = Cardinality(R!Used(Here)) /\ count < GrowAt(nbuckets)
        /\ nbuckets \in Nat \ {0, 1} /\ i \in 0 .. (nbuckets - 1) /\ ~Rebuilding
        /\ entry \in Buckets(nbuckets) /\ entry.dib # 0 /\ entry.dib \in 1 .. nbuckets
        /\ As(entry) \in R!Filled(nbuckets) /\ As(entry).dib = entry.dib
        /\ As(entry).item = ItemOf(entry) /\ As(entry).item.key = entry.key /\ ItemOf(entry) \in R!Item
        /\ R!Placed(As(entry), i, nbuckets) /\ R!Path(Here, nbuckets, i, As(entry), {})
        /\ Here[i] = As(buckets[i]) /\ Here[i].dib = buckets[i].dib
        /\ buckets[i].dib # 0 => /\ buckets[i] \in Buckets(nbuckets)
                                 /\ Here[i].item = ItemOf(buckets[i]) /\ Here[i].item.key = buckets[i].key
        /\ \E c \in 0 .. (nbuckets - 1) : Here[c].dib = 0
        /\ arg.key \in Key /\ arg.permission \in Permission /\ arg.permission # NULL
<1>1. /\ Good(Here, nbuckets) /\ count = Cardinality(R!Used(Here)) /\ count < GrowAt(nbuckets)
      /\ entry \in Buckets(nbuckets) /\ entry.dib # 0 /\ Coming(As(entry), Here, nbuckets)
  BY DEF KInv, Setting
<1>2. /\ nbuckets \in Nat \ {0, 1} /\ GrowAt(nbuckets) < nbuckets /\ GrowAt(nbuckets) \in Nat
      /\ \A b \in 0 .. (nbuckets - 1) : buckets[b] \in Buckets(2 * Size(buckets))
      /\ 2 * Size(buckets) \in Nat \ {0}
  BY KFacts DEF KInv
<1>3. /\ i \in 0 .. (nbuckets - 1) /\ As(entry) \in R!Filled(nbuckets)
      /\ R!Placed(As(entry), i, nbuckets) /\ R!Path(Here, nbuckets, i, As(entry), {})
  BY <1>1 DEF Coming
<1>4. /\ entry.dib \in 1 .. nbuckets /\ As(entry).dib = entry.dib
      /\ As(entry).item = ItemOf(entry) /\ As(entry).item.key = entry.key /\ ItemOf(entry) \in R!Item
  BY <1>1, <1>2, AsIs
<1>5. /\ Here[i] = As(buckets[i]) /\ Here[i].dib = buckets[i].dib
      /\ buckets[i].dib # 0 => /\ Here[i].item = ItemOf(buckets[i]) /\ Here[i].item.key = buckets[i].key
  BY <1>2, <1>3, AsIs DEF Here, Of
<1>6. buckets[i].dib # 0 => buckets[i] \in Buckets(nbuckets)
  <2>. SUFFICES ASSUME buckets[i].dib # 0 PROVE buckets[i] \in Buckets(nbuckets)
    OBVIOUS
  <2>1. As(buckets[i]) \in R!Filled(nbuckets)
    BY <1>1, <1>2, <1>3, <1>5, GoodIs
  <2>. QED BY <1>2, <1>3, <2>1, Fitted
<1>7. \E c \in 0 .. (nbuckets - 1) : Here[c].dib = 0
  <2>1. Cardinality(R!Used(Here)) < nbuckets
    BY <1>1, <1>2, GoodIs
  <2>. QED BY <1>1, <1>2, <2>1, FreeLeft
<1>8. arg.key \in Key /\ arg.permission \in Permission /\ arg.permission # NULL /\ ~Rebuilding
  BY DEF KInv, Fits, Rebuilding
<1>. QED BY <1>1, <1>2, <1>3, <1>4, <1>5, <1>6, <1>7, <1>8

\* The item in hand may displace one here, since its key is in no other bucket.
LEMMA NotBehind ==
  ASSUME KInv, op = "set", buckets[i].dib < entry.dib, NEW b \in R!Used(Here) \ {i}
  PROVE Here[b].item.key # entry.key
<1>. SUFFICES ASSUME Here[b].item.key = entry.key PROVE FALSE
  OBVIOUS
<1>1. /\ nbuckets \in Nat \ {0, 1} /\ Here \in R!Table(nbuckets) /\ R!Sound(Here, nbuckets, {})
      /\ i \in 0 .. (nbuckets - 1) /\ b \in 0 .. (nbuckets - 1) /\ Here[b].dib # 0
      /\ Here[b].dib \in 0 .. nbuckets /\ Here[i].dib \in 0 .. nbuckets
  BY SetFacts, GoodIs
<1>2. /\ As(entry) \in R!Filled(nbuckets) /\ R!Placed(As(entry), i, nbuckets)
      /\ As(entry).dib = entry.dib /\ entry.dib \in Nat
      /\ Here[b].item.key = As(entry).item.key /\ Here[i].dib = buckets[i].dib
  BY SetFacts
<1>3. As(entry).dib <= Here[b].dib
  BY <1>2 DEF KInv, Setting
<1>4. IF As(entry).dib = Here[b].dib THEN b = i ELSE b # i /\ Here[i].dib >= As(entry).dib
  BY <1>1, <1>2, <1>3, R!Ahead
<1>. QED BY <1>1, <1>2, <1>4

\* A call that returns.
LEMMA ReturnInv ==
  ASSUME Fits', op' = "idle", Holds(Here, nbuckets)', (count <= GrowAt(nbuckets))' PROVE KInv'
<1>1. Between' /\ Setting' /\ Resizing'
  BY DEF Between, Setting, Resizing, Rebuilding
<1>. QED BY <1>1 DEF KInv

LEMMA InsertInv == ASSUME KInv, Insert PROVE KInv'
<1>1. /\ op = "set" /\ buckets[i].dib = 0 /\ buckets' = R!Put(buckets, i, entry)
      /\ count' = count + 1 /\ rules' = Stored /\ op' = "idle" /\ UNCHANGED nbuckets
  BY DEF Insert, Return, Stored, R!Put
<1>. DEFINE e == As(entry)
<1>2. /\ nbuckets \in Nat \ {0, 1} /\ Here \in R!Table(nbuckets) /\ R!Sound(Here, nbuckets, {}) /\ R!Distinct(Here, {})
      /\ i \in 0 .. (nbuckets - 1) /\ e \in R!Filled(nbuckets) /\ e.dib = entry.dib /\ entry.dib \in 1 .. nbuckets
      /\ R!Placed(e, i, nbuckets) /\ R!Path(Here, nbuckets, i, e, {}) /\ Here[i].dib = 0
      /\ e.item = ItemOf(entry) /\ e.item.key = entry.key /\ ItemOf(entry) \in R!Item
      /\ R!Items(Here, {}) \in SUBSET R!Item
  BY <1>1, SetFacts, GoodIs
<1>3. Here' = R!Put(Here, i, e)
  <2>1. Here' = Of(buckets', nbuckets)
    BY <1>1 DEF Here
  <2>2. 0 .. (nbuckets - 1) \subseteq DOMAIN buckets
    BY KFacts DEF KInv
  <2>3. Of(buckets', nbuckets) = R!Put(Of(buckets, nbuckets), i, e)
    BY <1>1, <1>2, <2>2, OfPut
  <2>. QED BY <2>1, <2>3 DEF Here
<1>4. \A b \in R!Used(Here) : Here[b].item.key # entry.key
  <2>1. buckets[i].dib < entry.dib
    BY <1>1, <1>2
  <2>2. i \notin R!Used(Here)
    BY <1>2 DEF R!Used
  <2>. QED BY <1>1, <2>1, <2>2, NotBehind
<1>. HIDE DEF e
<1>5. Here' \in R!Table(nbuckets) /\ R!Sound(Here', nbuckets, {})
  <2>1. Here[i].dib < e.dib
    BY <1>2
  <2>. QED BY <1>2, <1>3, <2>1, R!Raised
<1>6. /\ R!Used(Here') = R!Used(Here) \cup {i} /\ i \notin R!Used(Here)
      /\ R!Items(Here', {}) = R!Items(Here, {}) \cup {e.item}
  BY <1>2, <1>3, R!PutItems
<1>10. Cardinality(R!Used(Here')) = Cardinality(R!Used(Here)) + 1
  <2>1. IsFiniteSet(R!Used(Here))
    BY <1>1, SetFacts, GoodIs
  <2>. QED BY <1>6, <2>1, FS_AddElement
<1>7. R!Distinct(Here', {})
  <2>1. \A b \in R!Used(Here) \ {i} : Here[b].item.key # e.item.key
    BY <1>2, <1>4
  <2>. QED BY <1>2, <1>3, <2>1, R!StaysDistinct
<1>8. R!MapOf(R!Items(Here', {}), Stored)
  <2>1. CASE entry.key = arg.key
    <3>1. entry.permission = arg.permission /\ R!MapOf(R!Items(Here, {}), rules)
      BY <1>1, <2>1 DEF KInv, Setting
    <3>2. \A y \in R!Items(Here, {}) : y.key # e.item.key
      BY <1>2, <1>4 DEF R!Items
    <3>3. /\ Stored[e.item.key] = e.item.value
          /\ \A k \in Key : k # e.item.key => Stored[k] = rules[k]
      <4>1. arg.key \in Key /\ rules \in [Key -> Permission \cup {NULL}]
        BY <1>1, SetFacts DEF KInv, Fits
      <4>2. e.item.key = arg.key /\ e.item.value = arg.permission
        BY <1>2, <2>1, <3>1 DEF ItemOf
      <4>. QED BY <4>1, <4>2 DEF Stored
    <3>4. e.item \in R!Item /\ R!Items(Here, {}) \in SUBSET R!Item
      BY <1>2
    <3>5. R!MapOf(R!Items(Here, {}) \cup {e.item}, Stored)
      BY <3>1, <3>2, <3>3, <3>4 DEF R!MapOf, R!Item
    <3>. QED BY <1>6, <3>5
  <2>2. CASE entry.key # arg.key
    BY <1>1, <1>2, <1>6, <2>2 DEF KInv, Setting
  <2>. QED BY <2>1, <2>2
<1>9. Good(Here', nbuckets) /\ count' = Cardinality(R!Used(Here')) /\ count' <= GrowAt(nbuckets)
  <2>1. count \in Nat /\ count < GrowAt(nbuckets) /\ GrowAt(nbuckets) \in Nat /\ count = Cardinality(R!Used(Here))
    BY <1>1, SetFacts, GoodIs, KFacts DEF KInv
  <2>. QED BY <1>1, <1>5, <1>7, <1>10, <2>1 DEF Good
<1>11. Fits'
  <2>1. entry \in Buckets(2 * Size(buckets))
    <3>1. entry \in Buckets(nbuckets) /\ nbuckets \in Nat /\ 2 * Size(buckets) \in Nat
          /\ nbuckets <= 2 * Size(buckets)
      BY <1>1, SetFacts, KFacts DEF KInv
    <3>. QED BY <3>1, Larger
  <2>2. /\ DOMAIN buckets' = DOMAIN buckets /\ Size(buckets') = Size(buckets)
        /\ \A b \in DOMAIN buckets : buckets'[b] \in {buckets[b], entry}
    BY <1>1 DEF R!Put, Size
  <2>3. rules' \in [Key -> Permission \cup {NULL}]
    BY <1>1, SetFacts DEF KInv, Fits, Stored
  <2>. QED BY <1>1, <2>1, <2>2, <2>3 DEF KInv, Fits
<1>. QED
  <2>1. Holds(Here, nbuckets)'
    BY <1>1, <1>8, <1>9 DEF Holds, Good
  <2>. QED BY <1>1, <1>9, <1>11, <2>1, ReturnInv

LEMMA ReplaceInv == ASSUME KInv, Replace PROVE KInv'
<1>1. /\ op = "set" /\ buckets[i].dib # 0 /\ buckets[i].key = entry.key
      /\ buckets' = [buckets EXCEPT ![i].permission = entry.permission]
      /\ rules' = Stored /\ op' = "idle" /\ UNCHANGED <<nbuckets, count>>
  BY DEF Replace, Replaces, Return, Stored
<1>. DEFINE e == As(entry)
<1>2. /\ nbuckets \in Nat \ {0, 1} /\ Here \in R!Table(nbuckets) /\ R!Sound(Here, nbuckets, {})
      /\ R!Distinct(Here, {}) /\ i \in 0 .. (nbuckets - 1) /\ e \in R!Filled(nbuckets)
      /\ e.item = ItemOf(entry) /\ e.item.key = entry.key /\ Here[i].dib # 0
      /\ Here[i].item.key = e.item.key /\ ItemOf(entry) \in R!Item
      /\ R!Items(Here, {}) \in SUBSET R!Item /\ i \in R!Used(Here)
      /\ Here[i] = As(buckets[i]) /\ buckets[i] \in Buckets(nbuckets) /\ entry \in Buckets(nbuckets)
      /\ entry.dib # 0
  BY <1>1, SetFacts, GoodIs
<1>3. buckets[i] \in [dib : 1 .. nbuckets, key : Key, permission : Permission] /\ entry.permission \in Permission
  BY <1>1, <1>2, AsIs
<1>4. Here' = R!Rewrite(Here, i, e)
  <2>1. /\ DOMAIN buckets' = DOMAIN buckets /\ i \in DOMAIN buckets
        /\ buckets'[i] = [buckets[i] EXCEPT !.permission = entry.permission]
        /\ \A b \in DOMAIN buckets : b # i => buckets'[b] = buckets[b]
        /\ 0 .. (nbuckets - 1) \subseteq DOMAIN buckets
    BY <1>1, <1>2, KFacts DEF KInv
  <2>2. As(buckets'[i]) = [Here[i] EXCEPT !.item = e.item]
    BY <1>1, <1>2, <1>3, <2>1 DEF As, ItemOf
  <2>3. Here' = [b \in 0 .. (nbuckets - 1) |-> As(buckets'[b])]
    BY <1>1 DEF Here, Of
  <2>4. \A b \in 0 .. (nbuckets - 1) : As(buckets'[b]) = IF b = i THEN [Here[i] EXCEPT !.item = e.item] ELSE Here[b]
    BY <1>2, <2>1, <2>2 DEF Here, Of
  <2>5. Here = [b \in 0 .. (nbuckets - 1) |-> Here[b]]
    BY DEF Here, Of
  <2>. QED BY <1>2, <2>3, <2>4, <2>5 DEF R!Rewrite
<1>. HIDE DEF e
<1>5. /\ Here' \in R!Table(nbuckets) /\ R!Sound(Here', nbuckets, {}) /\ R!Distinct(Here', {})
      /\ R!Used(Here') = R!Used(Here)
      /\ \A x : x \in R!Items(Here', {}) <=>
                  x = e.item \/ (x \in R!Items(Here, {}) /\ x.key # e.item.key)
  BY <1>2, <1>4, R!Rewritten
<1>6. R!MapOf(R!Items(Here', {}), Stored)
  <2>1. entry.key = arg.key
    BY <1>1, <1>2 DEF KInv, Setting
  <2>2. entry.permission = arg.permission /\ R!MapOf(R!Items(Here, {}), rules)
    BY <1>1, <2>1 DEF KInv, Setting
  <2>3. arg.key \in Key /\ rules \in [Key -> Permission \cup {NULL}]
    BY <1>1, SetFacts DEF KInv, Fits
  <2>4. e.item.key = arg.key /\ e.item.value = arg.permission
    BY <1>2, <2>1, <2>2 DEF ItemOf
  <2>5. Stored[arg.key] = arg.permission /\ \A k \in Key : k # arg.key => Stored[k] = rules[k]
    BY <2>3 DEF Stored
  <2>6. \A y \in R!Items(Here, {}) : y.key \in Key
    BY <1>2 DEF R!Item
  <2>7. \A x \in R!Items(Here', {}) : Stored[x.key] = x.value
    BY <1>5, <2>2, <2>4, <2>5, <2>6 DEF R!MapOf
  <2>8. ASSUME NEW k \in Key, \A x \in R!Items(Here', {}) : x.key # k PROVE Stored[k] = NULL
    <3>1. k # arg.key
      BY <1>5, <2>4, <2>8
    <3>2. \A y \in R!Items(Here, {}) : y.key # k
      BY <1>5, <2>4, <2>8, <3>1
    <3>. QED BY <2>2, <2>5, <3>1, <3>2 DEF R!MapOf
  <2>. QED BY <2>7, <2>8 DEF R!MapOf
<1>7. count' = Cardinality(R!Used(Here')) /\ count' <= GrowAt(nbuckets)
  <2>1. count \in Nat /\ count < GrowAt(nbuckets) /\ GrowAt(nbuckets) \in Nat /\ count = Cardinality(R!Used(Here))
    BY <1>1, SetFacts, GoodIs, KFacts DEF KInv
  <2>. QED BY <1>1, <1>5, <2>1
<1>8. Fits'
  <2>1. /\ DOMAIN buckets' = DOMAIN buckets /\ Size(buckets') = Size(buckets)
        /\ \A b \in DOMAIN buckets : b # i => buckets'[b] = buckets[b]
        /\ i \in DOMAIN buckets /\ buckets'[i] = [buckets[i] EXCEPT !.permission = entry.permission]
    BY <1>1, <1>2, KFacts DEF KInv, Size
  <2>2. buckets'[i] \in Buckets(nbuckets)
    BY <1>3, <2>1 DEF Buckets
  <2>3. nbuckets \in Nat /\ 2 * Size(buckets) \in Nat /\ nbuckets <= 2 * Size(buckets)
    BY KFacts DEF KInv
  <2>4. buckets'[i] \in Buckets(2 * Size(buckets))
    BY <2>2, <2>3, Larger
  <2>5. rules' \in [Key -> Permission \cup {NULL}]
    BY <1>1, SetFacts DEF KInv, Fits, Stored
  <2>. QED BY <1>1, <2>1, <2>4, <2>5 DEF KInv, Fits
<1>. QED
  <2>1. Holds(Here, nbuckets)'
    BY <1>1, <1>5, <1>6, <1>7 DEF Holds, Good
  <2>. QED BY <1>1, <1>7, <1>8, <2>1, ReturnInv

\* The loop goes on, with an item in hand.
LEMMA GoesOn ==
  ASSUME KInv, Fits', op = "set", UNCHANGED <<nbuckets, count, op, arg, rules>>,
         Good(Here, nbuckets)', R!Used(Here)' = R!Used(Here),
         entry' \in Buckets(nbuckets), entry'.dib # 0, Coming(As(entry), Here, nbuckets)',
         \A b \in R!Used(Here)' : Here'[b].item.key = entry'.key =>
           entry'.key = arg.key /\ entry'.dib <= Here'[b].dib,
         IF entry'.key = arg.key
           THEN entry'.permission = arg.permission /\ R!MapOf(R!Items(Here, {})', rules)
           ELSE rules[arg.key] = NULL /\ R!MapOf(R!Items(Here, {})' \cup {ItemOf(entry')}, Stored)
  PROVE KInv'
<1>1. Between' /\ Resizing'
  BY DEF Between, Resizing, Rebuilding
<1>2. Setting'
  <2>1. count = Cardinality(R!Used(Here)) /\ count < GrowAt(nbuckets)
    BY SetFacts
  <2>2. Stored' = Stored
    BY DEF Stored
  <2>. QED BY <2>1, <2>2 DEF Setting
<1>. QED BY <1>1, <1>2 DEF KInv

\* The bucket that the item in hand goes on to.
LEMMA NextBucket ==
  ASSUME Shape, KInv, op = "set", i' = After(i, mask)
  PROVE i' = R!After(i, nbuckets) /\ i' \in 0 .. (nbuckets - 1)
<1>1. mask = nbuckets - 1 /\ nbuckets \in Nat \ {0, 1} /\ i \in 0 .. (nbuckets - 1)
  BY SetFacts DEF Shape
<1>2. i' = R!After(i, nbuckets)
  BY <1>1, SameAfter
<1>. QED BY <1>1, <1>2, R!AfterIs

LEMMA SetPassOn == ASSUME Shape, KInv, SetPass, ~Displaces PROVE KInv'
<1>1. /\ op = "set" /\ buckets[i].dib # 0 /\ buckets[i].key # entry.key
      /\ entry' = [entry EXCEPT !.dib = @ + 1] /\ i' = After(i, mask)
      /\ UNCHANGED <<buckets, nbuckets, count, op, arg, new, rules>>
  BY DEF SetPass, Replaces
<1>2. Here' = Here
  BY <1>1 DEF Here
<1>3. /\ nbuckets \in Nat \ {0, 1} /\ Here \in R!Table(nbuckets) /\ Here[i].dib # 0
      /\ R!Sound(Here, nbuckets, {}) /\ Good(Here, nbuckets)
      /\ i \in 0 .. (nbuckets - 1) /\ As(entry) \in R!Filled(nbuckets)
      /\ R!Placed(As(entry), i, nbuckets) /\ R!Path(Here, nbuckets, i, As(entry), {})
      /\ As(entry).dib = entry.dib /\ entry.dib \in 1 .. nbuckets /\ entry \in Buckets(nbuckets)
      /\ entry.dib # 0 /\ As(entry).item.key = entry.key /\ Here[i].item.key = buckets[i].key
      /\ Here[i].dib = buckets[i].dib /\ Here[i].dib \in 0 .. nbuckets
  BY <1>1, SetFacts, GoodIs
<1>4. ~ (Here[i].dib < As(entry).dib)
  BY <1>1, <1>3 DEF Displaces
<1>5. PICK c \in 0 .. (nbuckets - 1) : Here[c].dib = 0
  BY <1>1, SetFacts
<1>6. /\ As(entry') = [As(entry) EXCEPT !.dib = @ + 1] /\ entry'.dib = entry.dib + 1
      /\ entry'.key = entry.key /\ entry'.permission = entry.permission
      /\ entry' \in Buckets(nbuckets + 1) /\ ItemOf(entry') = ItemOf(entry)
  BY <1>1, <1>3, AsFurther
<1>7. i' = R!After(i, nbuckets) /\ i' \in 0 .. (nbuckets - 1)
  BY <1>1, NextBucket
<1>8. /\ As(entry') \in R!Filled(nbuckets) /\ R!Placed(As(entry'), i', nbuckets)
      /\ R!Path(Here, nbuckets, i', As(entry'), {})
  BY <1>3, <1>4, <1>5, <1>6, <1>7, R!PassOn
<1>9. entry' \in Buckets(nbuckets) /\ entry'.dib # 0
  <2>1. nbuckets + 1 \in Nat \ {0} /\ entry'.dib # 0 /\ nbuckets \in Nat \ {0}
    BY <1>3, <1>6
  <2>. QED BY <1>6, <1>8, <2>1, Fitted
<1>10. Coming(As(entry), Here, nbuckets)'
  BY <1>1, <1>2, <1>7, <1>8 DEF Coming
<1>11. ASSUME NEW b \in R!Used(Here), Here[b].item.key = entry.key
       PROVE entry.key = arg.key /\ entry.dib + 1 <= Here[b].dib
  <2>1. entry.key = arg.key /\ entry.dib <= Here[b].dib
    BY <1>1, <1>11 DEF KInv, Setting
  <2>2. b \in 0 .. (nbuckets - 1) /\ Here[b].dib # 0 /\ Here[b].dib \in Nat
    BY <1>3, GoodIs
  <2>3. As(entry).dib <= Here[b].dib /\ Here[b].item.key = As(entry).item.key
    BY <1>3, <1>11, <2>1
  <2>4. IF As(entry).dib = Here[b].dib THEN b = i ELSE b # i /\ Here[i].dib >= As(entry).dib
    BY <1>3, <2>2, <2>3, R!Ahead
  <2>5. entry.dib # Here[b].dib
    BY <1>1, <1>3, <1>11, <2>4
  <2>. QED BY <1>3, <2>1, <2>2, <2>5
<1>12. IF entry.key = arg.key
         THEN entry.permission = arg.permission /\ R!MapOf(R!Items(Here, {}), rules)
         ELSE rules[arg.key] = NULL /\ R!MapOf(R!Items(Here, {}) \cup {ItemOf(entry)}, Stored)
  BY <1>1 DEF KInv, Setting
<1>13. Fits'
  BY <1>1 DEF KInv, Fits, Size
<1>14. Good(Here, nbuckets)' /\ R!Used(Here)' = R!Used(Here) /\ R!Items(Here, {})' = R!Items(Here, {})
  BY <1>1, <1>2, <1>3 DEF Good
<1>15. \A b \in R!Used(Here)' : Here'[b].item.key = entry'.key =>
           entry'.key = arg.key /\ entry'.dib <= Here'[b].dib
  BY <1>2, <1>6, <1>11, <1>14
<1>16. IF entry'.key = arg.key
         THEN entry'.permission = arg.permission /\ R!MapOf(R!Items(Here, {})', rules)
         ELSE rules[arg.key] = NULL /\ R!MapOf(R!Items(Here, {})' \cup {ItemOf(entry')}, Stored)
  BY <1>6, <1>12, <1>14
<1>. QED BY <1>1, <1>9, <1>10, <1>13, <1>14, <1>15, <1>16, GoesOn

LEMMA SetPassSwap == ASSUME Shape, KInv, SetPass, Displaces PROVE KInv'
<1>1. /\ op = "set" /\ buckets[i].dib \in 1 .. (entry.dib - 1) /\ buckets[i].key # entry.key
      /\ buckets' = R!Put(buckets, i, entry) /\ i' = After(i, mask)
      /\ entry' = [buckets[i] EXCEPT !.dib = @ + 1]
      /\ UNCHANGED <<nbuckets, count, op, arg, new, rules>>
  BY DEF SetPass, Displaces, R!Put
<1>. DEFINE e == As(entry)
            f == As(entry')
<1>2. /\ nbuckets \in Nat \ {0, 1} /\ Here \in R!Table(nbuckets) /\ R!Distinct(Here, {})
      /\ R!Sound(Here, nbuckets, {}) /\ Good(Here, nbuckets)
      /\ i \in 0 .. (nbuckets - 1) /\ e \in R!Filled(nbuckets)
      /\ R!Placed(e, i, nbuckets) /\ R!Path(Here, nbuckets, i, e, {})
      /\ e.dib = entry.dib /\ entry.dib \in 1 .. nbuckets /\ entry \in Buckets(nbuckets)
      /\ entry.dib # 0 /\ e.item = ItemOf(entry) /\ e.item.key = entry.key /\ ItemOf(entry) \in R!Item
      /\ R!Items(Here, {}) \in SUBSET R!Item
  BY <1>1, SetFacts, GoodIs
<1>3. /\ buckets[i].dib # 0 /\ buckets[i] \in Buckets(nbuckets) /\ Here[i] = As(buckets[i])
      /\ Here[i].dib = buckets[i].dib /\ Here[i].item = ItemOf(buckets[i]) /\ Here[i].item.key = buckets[i].key
  BY <1>1, SetFacts
<1>4. Here[i].dib # 0 /\ Here[i].dib < e.dib
  BY <1>1, <1>2, <1>3
<1>5. /\ f = R!Swapped(Here[i], Here[i]) /\ entry'.dib = buckets[i].dib + 1
      /\ entry'.key = buckets[i].key /\ entry'.permission = buckets[i].permission
      /\ entry' \in Buckets(nbuckets + 1) /\ ItemOf(entry') = ItemOf(buckets[i])
  BY <1>1, <1>2, <1>3, AsFurther
<1>6. i' = R!After(i, nbuckets) /\ i' \in 0 .. (nbuckets - 1)
  BY <1>1, NextBucket
<1>7. Here' = R!Put(Here, i, e)
  <2>1. Here' = Of(buckets', nbuckets)
    BY <1>1 DEF Here
  <2>2. 0 .. (nbuckets - 1) \subseteq DOMAIN buckets
    BY KFacts DEF KInv
  <2>3. Of(buckets', nbuckets) = R!Put(Of(buckets, nbuckets), i, e)
    BY <1>1, <1>2, <2>2, OfPut
  <2>. QED BY <2>1, <2>3 DEF Here
<1>8. f = R!Swapped(Here[i], e)
  BY <1>5 DEF R!Swapped
<1>. HIDE DEF e, f
<1>9. /\ Here' \in R!Table(nbuckets) /\ f \in R!Filled(nbuckets)
      /\ R!Sound(Here', nbuckets, {}) /\ R!Placed(f, i', nbuckets) /\ R!Path(Here', nbuckets, i', f, {})
  BY <1>2, <1>4, <1>6, <1>7, <1>8, R!PassSwap
<1>10. entry' \in Buckets(nbuckets) /\ entry'.dib # 0 /\ ItemOf(entry').key = entry'.key
       /\ ItemOf(entry').value = entry'.permission /\ ItemOf(entry') \in R!Item
  <2>1. nbuckets + 1 \in Nat \ {0} /\ entry'.dib # 0 /\ nbuckets \in Nat \ {0}
    BY <1>1, <1>2, <1>5
  <2>2. entry' \in Buckets(nbuckets)
    BY <1>5, <1>9, <2>1, Fitted DEF f
  <2>. QED BY <2>1, <2>2, AsIs
<1>11. /\ R!Used(Here') = R!Used(Here)
       /\ R!Items(Here', {}) \cup {ItemOf(entry')} = R!Items(Here, {}) \cup {ItemOf(entry)}
  BY <1>2, <1>3, <1>4, <1>5, <1>7, R!SwapItems
<1>12. \A b \in R!Used(Here) \ {i} : Here[b].item.key # entry.key
  BY <1>1, <1>2, <1>3, <1>4, NotBehind
<1>13. R!Distinct(Here', {})
  BY <1>2, <1>7, <1>12, R!StaysDistinct
<1>14. Good(Here', nbuckets) /\ R!Items(Here', {}) \in SUBSET R!Item
  <2>1. Good(Here', nbuckets)
    BY <1>9, <1>13 DEF Good
  <2>. QED BY <1>2, <2>1, GoodIs
<1>15. /\ i \in R!Used(Here) /\ i \in DOMAIN Here
       /\ \A b \in R!Used(Here) : b \in DOMAIN Here /\ Here[b].dib # 0
       /\ \A b \in R!Used(Here) : b # i => Here'[b] = Here[b]
       /\ Here'[i] = e
  BY <1>2, <1>4, <1>7 DEF R!Used, R!Put, R!Table
<1>16. \A b \in R!Used(Here') : Here'[b].item.key # entry'.key
  <2>. SUFFICES ASSUME NEW b \in R!Used(Here) PROVE Here'[b].item.key # entry'.key
    BY <1>11
  <2>1. CASE b = i
    BY <1>1, <1>2, <1>5, <1>15, <2>1
  <2>2. CASE b # i
    <3>1. Here[b].item.key # Here[i].item.key
      BY <1>2, <1>15, <2>2 DEF R!Distinct
    <3>. QED BY <1>3, <1>5, <1>15, <2>2, <3>1
  <2>. QED BY <2>1, <2>2
<1>17. \A y \in R!Items(Here', {}) : y.key # entry'.key
  BY <1>16 DEF R!Items
<1>18. /\ arg.key \in Key /\ arg.permission \in Permission /\ rules \in [Key -> Permission \cup {NULL}]
       /\ Stored[arg.key] = arg.permission /\ \A k \in Key : k # arg.key => Stored[k] = rules[k]
  BY <1>1, SetFacts DEF KInv, Fits, Stored
<1>19. Fits'
  <2>1. entry \in Buckets(2 * Size(buckets))
    <3>1. nbuckets \in Nat /\ 2 * Size(buckets) \in Nat /\ nbuckets <= 2 * Size(buckets)
      BY KFacts DEF KInv
    <3>. QED BY <1>2, <3>1, Larger
  <2>2. /\ DOMAIN buckets' = DOMAIN buckets /\ Size(buckets') = Size(buckets)
        /\ \A b \in DOMAIN buckets : buckets'[b] \in {buckets[b], entry}
    BY <1>1 DEF R!Put, Size
  <2>. QED BY <1>1, <2>1, <2>2 DEF KInv, Fits
<1>20. Coming(As(entry), Here, nbuckets)'
  BY <1>1, <1>6, <1>9 DEF Coming, f
<1>21. IF entry'.key = arg.key
         THEN entry'.permission = arg.permission /\ R!MapOf(R!Items(Here', {}), rules)
         ELSE rules[arg.key] = NULL /\ R!MapOf(R!Items(Here', {}) \cup {ItemOf(entry')}, Stored)
  <2>1. CASE entry.key = arg.key
    <3>1. entry.permission = arg.permission /\ R!MapOf(R!Items(Here, {}), rules)
      BY <1>1, <2>1 DEF KInv, Setting
    <3>2. ItemOf(entry).key = arg.key /\ ItemOf(entry).value = arg.permission
      BY <2>1, <3>1 DEF ItemOf
    <3>3. entry'.key # arg.key
      BY <1>1, <1>5, <2>1
    <3>4. Here[i].item.key # arg.key /\ \A y \in R!Items(Here, {}) : y.key # arg.key /\ y.key \in Key
      <4>1. \A b \in R!Used(Here) : Here[b].item.key # arg.key
        BY <1>1, <1>3, <1>12, <2>1
      <4>. QED BY <1>2, <1>15, <4>1 DEF R!Items, R!Item
    <3>5. rules[arg.key] = NULL
      BY <1>18, <3>1, <3>4 DEF R!MapOf
    <3>6. R!MapOf(R!Items(Here, {}) \cup {ItemOf(entry)}, Stored)
      BY <1>18, <3>1, <3>2, <3>4 DEF R!MapOf
    <3>. QED BY <1>11, <3>3, <3>5, <3>6
  <2>2. CASE entry.key # arg.key
    <3>1. rules[arg.key] = NULL /\ R!MapOf(R!Items(Here', {}) \cup {ItemOf(entry')}, Stored)
      BY <1>1, <1>11, <2>2 DEF KInv, Setting
    <3>2. ASSUME entry'.key = arg.key
          PROVE entry'.permission = arg.permission /\ R!MapOf(R!Items(Here', {}), rules)
      <4>1. Stored[ItemOf(entry').key] = ItemOf(entry').value
        BY <3>1 DEF R!MapOf
      <4>2. entry'.permission = arg.permission
        BY <1>10, <1>18, <3>2, <4>1
      <4>3. \A y \in R!Items(Here', {}) : y.key \in Key /\ y.key # arg.key
        BY <1>14, <1>17, <3>2 DEF R!Item
      <4>4. \A y \in R!Items(Here', {}) : rules[y.key] = y.value
        BY <1>18, <3>1, <4>3 DEF R!MapOf
      <4>5. ASSUME NEW k \in Key, \A y \in R!Items(Here', {}) : y.key # k PROVE rules[k] = NULL
        <5>1. CASE k = arg.key
          BY <3>1, <5>1
        <5>2. CASE k # arg.key
          <6>1. \A y \in R!Items(Here', {}) \cup {ItemOf(entry')} : y.key # k
            BY <1>10, <3>2, <4>5, <5>2
          <6>. QED BY <1>18, <3>1, <5>2, <6>1 DEF R!MapOf
        <5>. QED BY <5>1, <5>2
      <4>. QED BY <4>2, <4>4, <4>5 DEF R!MapOf
    <3>. QED BY <3>1, <3>2
  <2>. QED BY <2>1, <2>2
<1>22. Good(Here, nbuckets)' /\ R!Used(Here)' = R!Used(Here)
  BY <1>1, <1>11, <1>14 DEF Good
<1>. QED BY <1>1, <1>10, <1>16, <1>19, <1>20, <1>21, <1>22, GoesOn

\* The loop of hashmap_set begins.
LEMMA SetBegins ==
  ASSUME KInv, op \in {"idle", "mask"}, count # GrowAt(nbuckets),
         UNCHANGED <<buckets, nbuckets, count, rules>>,
         NEW k \in Key, NEW permission \in Permission,
         StartSet(Bucket(1, k, permission), nbuckets - 1)
  PROVE KInv'
<1>. DEFINE e == Bucket(1, k, permission)
<1>1. /\ op' = "set" /\ arg' = e /\ entry' = e /\ i' = Home(k, nbuckets - 1)
      /\ e.dib = 1 /\ e.key = k /\ e.permission = permission
  BY DEF StartSet, Bucket
<1>2. Holds(Here, nbuckets) /\ count \in Nat /\ count < GrowAt(nbuckets) /\ nbuckets \in Nat \ {0, 1}
  <2>1. Holds(Here, nbuckets) /\ count <= GrowAt(nbuckets)
    BY DEF KInv, Between
  <2>2. nbuckets \in Nat \ {0, 1} /\ GrowAt(nbuckets) \in Nat
    BY KFacts DEF KInv
  <2>3. count \in Nat
    BY <2>1, <2>2, GoodIs DEF Holds
  <2>. QED BY <2>1, <2>2, <2>3
<1>3. /\ Good(Here, nbuckets) /\ R!MapOf(R!Items(Here, {}), rules) /\ count = Cardinality(R!Used(Here))
      /\ \A b \in R!Used(Here) : 1 <= Here[b].dib
  <2>1. Good(Here, nbuckets) /\ R!MapOf(R!Items(Here, {}), rules) /\ count = Cardinality(R!Used(Here))
    BY <1>2 DEF Holds
  <2>2. \A b \in R!Used(Here) : b \in 0 .. (nbuckets - 1) /\ Here[b].dib \in 0 .. nbuckets /\ Here[b].dib # 0
    BY <1>2, <2>1, GoodIs
  <2>. QED BY <1>2, <2>1, <2>2
<1>4. /\ e \in Buckets(nbuckets) /\ As(e) \in R!Filled(nbuckets) /\ As(e).dib = 1
      /\ As(e).item.key = k
  <2>1. e \in Buckets(nbuckets)
    BY <1>2 DEF Buckets, Bucket
  <2>2. e.dib # 0 /\ nbuckets \in Nat \ {0}
    BY <1>1, <1>2
  <2>. HIDE DEF e
  <2>. QED BY <1>1, <2>1, <2>2, AsIs
<1>5. i' = R!Home(k, nbuckets)
  BY <1>1, <1>2, SameHome
<1>. HIDE DEF e
<1>6. /\ i' \in 0 .. (nbuckets - 1) /\ R!Placed(As(e), i', nbuckets)
      /\ R!Path(Here, nbuckets, i', As(e), {})
  BY <1>2, <1>4, <1>5, R!HomeStart
<1>7. Here' = Here
  BY DEF Here
<1>8. Setting'
  <2>1. Coming(As(entry), Here, nbuckets)'
    BY <1>1, <1>4, <1>6, <1>7 DEF Coming
  <2>2. Good(Here, nbuckets)'
    BY <1>3, <1>7 DEF Good
  <2>. QED BY <1>1, <1>2, <1>3, <1>4, <1>7, <2>1, <2>2 DEF Setting
<1>9. Between' /\ Resizing'
  BY <1>1 DEF Between, Resizing, Rebuilding
<1>10. Fits'
  BY <1>1 DEF KInv, Fits, Size, e, Bucket
<1>. QED BY <1>8, <1>9, <1>10 DEF KInv

RestFacts ==
        /\ Rest \in R!Table(nbuckets) /\ DOMAIN Rest = 0 .. (nbuckets - 1)
        /\ R!Used(Rest) = {b \in src .. (nbuckets - 1) : buckets[b].dib # 0}
        /\ R!Used(Rest) \subseteq 0 .. (nbuckets - 1)
        /\ IsFiniteSet(R!Used(Rest)) /\ Cardinality(R!Used(Rest)) \in Nat
        /\ \A b \in 0 .. (nbuckets - 1) : Rest[b] = RestAt(b)
        /\ \A b \in R!Used(Rest) : Rest[b] = [dib |-> 1, item |-> ItemOf(buckets[b])]
        /\ R!Items(Rest, {}) \in SUBSET R!Item

LEMMA RestIs == ASSUME Fits, src \in 0 .. nbuckets PROVE RestFacts
<1>1. /\ nbuckets \in Nat \ {0, 1} /\ 2 * Size(buckets) \in Nat \ {0}
      /\ \A b \in 0 .. (nbuckets - 1) : buckets[b] \in Buckets(2 * Size(buckets))
  BY KFacts
<1>2. \A b \in 0 .. (nbuckets - 1) : /\ buckets[b].dib \in Nat
                                     /\ buckets[b].dib # 0 => ItemOf(buckets[b]) \in R!Item
  BY <1>1, AsIs
<1>3. DOMAIN Rest = 0 .. (nbuckets - 1) /\ \A b \in 0 .. (nbuckets - 1) : Rest[b] = RestAt(b)
  BY DEF Rest
<1>4. \A b \in 0 .. (nbuckets - 1) : RestAt(b) \in {R!Empty} \cup R!Filled(nbuckets)
  BY <1>1, <1>2 DEF RestAt, R!Filled
<1>5. Rest \in R!Table(nbuckets)
  BY <1>4 DEF Rest, R!Table
<1>6. \A b \in 0 .. (nbuckets - 1) : RestAt(b).dib # 0 <=> b >= src /\ buckets[b].dib # 0
  BY <1>1 DEF RestAt, R!Empty
<1>7. R!Used(Rest) = {b \in src .. (nbuckets - 1) : buckets[b].dib # 0}
  <2>1. R!Used(Rest) = {b \in 0 .. (nbuckets - 1) : Rest[b].dib # 0}
    BY <1>3 DEF R!Used
  <2>. QED BY <1>1, <1>3, <1>6, <2>1
<1>8. R!Used(Rest) \subseteq 0 .. (nbuckets - 1)
  BY <1>1, <1>7
<1>9. IsFiniteSet(R!Used(Rest)) /\ Cardinality(R!Used(Rest)) \in Nat
  <2>1. IsFiniteSet(0 .. (nbuckets - 1))
    BY <1>1, FS_Interval
  <2>. QED BY <1>8, <2>1, FS_Subset, FS_CardinalityType
<1>10. \A b \in R!Used(Rest) : Rest[b] = [dib |-> 1, item |-> ItemOf(buckets[b])]
  BY <1>1, <1>3, <1>7, <1>8 DEF RestAt
<1>11. R!Items(Rest, {}) \in SUBSET R!Item
  BY <1>1, <1>5, R!ItemsIn
<1>. QED BY <1>3, <1>5, <1>7, <1>8, <1>9, <1>10, <1>11 DEF RestFacts

LEMMA RestThen == ASSUME Fits', (src \in 0 .. nbuckets)' PROVE RestFacts'
BY RestIs, PTL

LEMMA RebuildInv ==
  ASSUME Fits', op' \in {"resize", "move"}, Resizing' PROVE KInv'
<1>1. Between' /\ Setting'
  BY DEF Between, Setting
<1>. QED BY <1>1 DEF KInv

\* resize begins: all items are in the old buckets.
LEMMA ResizeBegins ==
  ASSUME KInv, op = "idle", count = GrowAt(nbuckets), op' = "resize",
         UNCHANGED <<table, rules>>, new' = Zeroed(2 * nbuckets), src' = 0,
         NEW k \in Key, NEW permission \in Permission, arg' = Bucket(1, k, permission)
  PROVE KInv'
<1>0. UNCHANGED <<buckets, nbuckets, count>>
  BY DEF table
<1>1. /\ Holds(Here, nbuckets) /\ nbuckets \in Nat \ {0, 1} /\ 2 * nbuckets \in Nat \ {0, 1}
      /\ GrowAt(nbuckets) < GrowAt(2 * nbuckets) /\ GrowAt(nbuckets) \in Nat
  BY KFacts DEF KInv, Between
<1>2. /\ Good(Here, nbuckets) /\ R!MapOf(R!Items(Here, {}), rules) /\ count = Cardinality(R!Used(Here))
      /\ R!Distinct(Here, {}) /\ R!Used(Here) = {b \in 0 .. (nbuckets - 1) : Here[b].dib # 0}
      /\ DOMAIN Here = 0 .. (nbuckets - 1)
  BY <1>1, GoodIs DEF Holds
<1>3. /\ There' = R!Fresh(2 * nbuckets) /\ There' \in R!Table(2 * nbuckets) /\ R!Used(There') = {}
      /\ R!Sound(There', 2 * nbuckets, {}) /\ R!Distinct(There', {}) /\ R!Items(There', {}) = {}
  <2>1. There' = Of(Zeroed(2 * nbuckets), 2 * nbuckets)
    BY <1>0 DEF There
  <2>2. There' = R!Fresh(2 * nbuckets)
    BY <1>1, <2>1, OfZeroed
  <2>. QED BY <1>1, <2>2, R!FreshTable
<1>4. Fits'
  <2>1. \A b \in 0 .. (2 * nbuckets - 1) : Zeroed(2 * nbuckets)[b] \in Buckets(2 * nbuckets)
    BY DEF Zeroed, Buckets
  <2>2. arg' \in [dib : {1}, key : Key, permission : Permission]
    BY DEF Bucket
  <2>. QED BY <1>0, <2>1, <2>2 DEF KInv, Fits, Size
<1>5. src' \in 0 .. nbuckets'
  BY <1>0, <1>1
<1>6. /\ DOMAIN Rest' = 0 .. (nbuckets - 1)
      /\ R!Used(Rest)' = {b \in 0 .. (nbuckets - 1) : buckets[b].dib # 0}
      /\ \A b \in R!Used(Rest)' : Rest'[b] = [dib |-> 1, item |-> ItemOf(buckets[b])]
  <2>1. /\ (DOMAIN Rest)' = (0 .. (nbuckets - 1))'
        /\ R!Used(Rest)' = {b \in src' .. (nbuckets' - 1) : buckets'[b].dib # 0}
        /\ \A b \in R!Used(Rest)' : Rest'[b] = [dib |-> 1, item |-> ItemOf(buckets'[b])]
    BY <1>4, <1>5, RestThen DEF RestFacts
  <2>. QED BY <1>0, <2>1
<1>7. \A b \in 0 .. (nbuckets - 1) : /\ Here[b].dib = buckets[b].dib
                                     /\ Here[b].dib # 0 => Here[b].item = ItemOf(buckets[b])
  <2>1. /\ 2 * Size(buckets) \in Nat \ {0}
        /\ \A b \in 0 .. (nbuckets - 1) : buckets[b] \in Buckets(2 * Size(buckets))
    BY KFacts DEF KInv
  <2>. QED BY <2>1, AsIs DEF Here, Of
<1>8. /\ R!Used(Rest)' = R!Used(Here)
      /\ \A b \in R!Used(Here) : Rest'[b].item = Here[b].item /\ Rest'[b].dib = 1
  BY <1>2, <1>6, <1>7
<1>9. R!Distinct(Rest, {})'
  <2>1. \A b \in DOMAIN Rest' : Rest'[b].dib # 0 => b \in R!Used(Here)
    BY <1>8 DEF R!Used
  <2>2. \A b \in R!Used(Here) : b \in DOMAIN Here /\ Here[b].dib # 0
    BY <1>2
  <2>. QED BY <1>2, <1>8, <2>1, <2>2 DEF R!Distinct
<1>10. R!Items(Rest, {})' = R!Items(Here, {})
  BY <1>8 DEF R!Items
<1>11. count' = Cardinality(R!Used(There))' + Cardinality(R!Used(Rest))' /\ count' < GrowAt(2 * nbuckets)
  <2>1. R!Used(There)' = {} /\ Cardinality({}) = 0
    BY <1>3, FS_EmptySet
  <2>2. count = Cardinality(R!Used(Rest)') /\ count \in Nat
    BY <1>1, <1>2, <1>8
  <2>. QED BY <1>0, <1>1, <2>1, <2>2
<1>12. Resizing'
  <2>1. Good(There, 2 * nbuckets)'
    BY <1>0, <1>3 DEF Good
  <2>2. R!MapOf(R!Items(There, {}) \cup R!Items(Rest, {}), rules)'
    <3>1. R!Items(There, {})' \cup R!Items(Rest, {})' = R!Items(Here, {})
      BY <1>3, <1>10
    <3>2. R!MapOf(R!Items(There, {})' \cup R!Items(Rest, {})', rules')
      BY <1>2, <3>1
    <3>. QED BY <3>2 DEF R!MapOf
  <2>3. \A a \in R!Used(There)', b \in R!Used(Rest)' : There'[a].item.key # Rest'[b].item.key
    BY <1>3
  <2>. QED BY <1>0, <1>5, <1>9, <1>11, <2>1, <2>2, <2>3 DEF Resizing, Rebuilding
<1>. QED BY <1>4, <1>12, RebuildInv

LEMMA SetCallInv ==
  ASSUME Shape, KInv, NEW rule \in Sent, SetCall(rule[1], rule[2]) PROVE KInv'
<1>1. rule[1] \in Key /\ rule[2] \in Permission
  OBVIOUS
<1>2. CASE count = GrowAt(nbuckets)
  BY <1>1, <1>2, ResizeBegins DEF SetCall
<1>3. CASE count # GrowAt(nbuckets)
  <2>1. /\ op = "idle" /\ UNCHANGED <<buckets, nbuckets, count, rules>>
        /\ StartSet(Bucket(1, rule[1], rule[2]), mask) /\ mask = nbuckets - 1
    BY <1>3 DEF SetCall, Shape, table
  <2>. QED BY <1>1, <1>3, <2>1, SetBegins
<1>. QED BY <1>2, <1>3

-----------------------------------------------------------------------------
(* resize. *)

LEMMA RebuildFacts ==
  ASSUME Shape, KInv, Rebuilding
  PROVE /\ nbuckets \in Nat \ {0, 1} /\ 2 * nbuckets \in Nat \ {0, 1} /\ src \in 0 .. nbuckets
        /\ nbuckets <= Size(buckets) /\ Size(buckets) \in Nat \ {0}
        /\ DOMAIN buckets = 0 .. (Size(buckets) - 1)
        /\ Good(There, 2 * nbuckets) /\ R!Distinct(Rest, {}) /\ RestFacts
        /\ There \in R!Table(2 * nbuckets) /\ R!Sound(There, 2 * nbuckets, {})
        /\ R!Distinct(There, {}) /\ DOMAIN There = 0 .. (2 * nbuckets - 1)
        /\ R!Used(There) = {b \in 0 .. (2 * nbuckets - 1) : There[b].dib # 0}
        /\ IsFiniteSet(R!Used(There)) /\ Cardinality(R!Used(There)) \in Nat
        /\ \A b \in 0 .. (2 * nbuckets - 1) :
             There[b] = As(new[b]) /\ There[b].dib = new[b].dib /\ There[b].dib \in 0 .. (2 * nbuckets)
        /\ \A b \in 0 .. (nbuckets - 1) : buckets[b] \in Buckets(2 * Size(buckets))
        /\ \A b \in 0 .. (2 * nbuckets - 1) : new[b] \in Buckets(2 * nbuckets)
        /\ DOMAIN new = 0 .. (2 * nbuckets - 1) /\ Size(new) = 2 * nbuckets
        /\ \A a \in R!Used(There), b \in R!Used(Rest) : There[a].item.key # Rest[b].item.key
        /\ R!MapOf(R!Items(There, {}) \cup R!Items(Rest, {}), rules)
        /\ count = Cardinality(R!Used(There)) + Cardinality(R!Used(Rest))
        /\ count < GrowAt(2 * nbuckets) /\ GrowAt(2 * nbuckets) \in Nat
        /\ GrowAt(2 * nbuckets) < 2 * nbuckets
<1>1. /\ nbuckets \in Nat \ {0, 1} /\ 2 * nbuckets \in Nat \ {0, 1}
      /\ nbuckets <= Size(buckets) /\ Size(buckets) \in Nat \ {0}
      /\ DOMAIN buckets = 0 .. (Size(buckets) - 1)
      /\ \A b \in 0 .. (nbuckets - 1) : buckets[b] \in Buckets(2 * Size(buckets))
      /\ GrowAt(2 * nbuckets) \in Nat /\ GrowAt(2 * nbuckets) < 2 * nbuckets
  BY KFacts DEF KInv
<1>2. /\ src \in 0 .. nbuckets
      /\ Good(There, 2 * nbuckets) /\ R!Distinct(Rest, {})
      /\ \A a \in R!Used(There), b \in R!Used(Rest) : There[a].item.key # Rest[b].item.key
      /\ R!MapOf(R!Items(There, {}) \cup R!Items(Rest, {}), rules)
      /\ count = Cardinality(R!Used(There)) + Cardinality(R!Used(Rest))
      /\ count < GrowAt(2 * nbuckets)
  BY DEF KInv, Resizing
<1>3. RestFacts
  BY <1>2, RestIs DEF KInv
<1>4. DOMAIN new = 0 .. (2 * nbuckets - 1)
  BY DEF Shape, Rebuilding
<1>5. Size(new) = 2 * nbuckets
  BY <1>1, <1>4, SizeOf
<1>6. \A b \in 0 .. (2 * nbuckets - 1) : new[b] \in Buckets(2 * nbuckets)
  BY DEF KInv, Fits, Rebuilding
<1>7. /\ There \in R!Table(2 * nbuckets) /\ R!Sound(There, 2 * nbuckets, {})
      /\ R!Distinct(There, {}) /\ DOMAIN There = 0 .. (2 * nbuckets - 1)
      /\ R!Used(There) = {b \in 0 .. (2 * nbuckets - 1) : There[b].dib # 0}
      /\ IsFiniteSet(R!Used(There)) /\ Cardinality(R!Used(There)) \in Nat
      /\ \A b \in 0 .. (2 * nbuckets - 1) : There[b].dib \in 0 .. (2 * nbuckets)
  BY <1>1, <1>2, GoodIs
<1>8. \A b \in 0 .. (2 * nbuckets - 1) : There[b] = As(new[b]) /\ There[b].dib = new[b].dib
  <2>1. 2 * nbuckets \in Nat \ {0}
    BY <1>1
  <2>. QED BY <1>6, <2>1, OfIs DEF There, Of
<1>. QED BY <1>1, <1>2, <1>3, <1>4, <1>5, <1>6, <1>7, <1>8

\* One bucket of the old table is written.
LEMMA FitsWithBucket ==
  ASSUME Shape, KInv, Rebuilding, op' \in {"resize", "move"}, UNCHANGED <<nbuckets, arg, rules>>,
         NEW b \in 0 .. (nbuckets - 1), NEW e \in Buckets(2 * Size(buckets)),
         buckets' = R!Put(buckets, b, e),
         \A c \in 0 .. (2 * nbuckets - 1) : new'[c] \in Buckets(2 * nbuckets)
  PROVE Fits'
<1>1. /\ DOMAIN buckets' = DOMAIN buckets /\ Size(buckets') = Size(buckets)
      /\ \A c \in DOMAIN buckets : buckets'[c] \in {buckets[c], e}
  BY DEF R!Put, Size
<1>2. op \in {"resize", "move"}
  BY DEF Rebuilding
<1>. QED BY <1>1, <1>2 DEF KInv, Fits

LEMMA ResizeScanInv == ASSUME Shape, KInv, ResizeScan PROVE KInv'
<1>1. /\ op = "resize" /\ src < nbuckets /\ Rebuilding
      /\ UNCHANGED <<nbuckets, count, arg, new, rules>>
  BY DEF ResizeScan, Rebuilding
<1>2. /\ nbuckets \in Nat \ {0, 1} /\ 2 * nbuckets \in Nat \ {0, 1} /\ src \in 0 .. (nbuckets - 1)
      /\ Good(There, 2 * nbuckets) /\ R!Distinct(Rest, {}) /\ src + 1 \in 0 .. nbuckets
      /\ \A a \in R!Used(There), b \in R!Used(Rest) : There[a].item.key # Rest[b].item.key
      /\ R!MapOf(R!Items(There, {}) \cup R!Items(Rest, {}), rules)
      /\ count = Cardinality(R!Used(There)) + Cardinality(R!Used(Rest))
      /\ count < GrowAt(2 * nbuckets) /\ src \in DOMAIN buckets
      /\ \A b \in 0 .. (2 * nbuckets - 1) : new[b] \in Buckets(2 * nbuckets)
      /\ buckets[src] \in Buckets(2 * Size(buckets)) /\ 2 * Size(buckets) \in Nat \ {0}
      /\ Size(new) = 2 * nbuckets
  BY <1>1, RebuildFacts
<1>3. There' = There
  BY <1>1 DEF There
<1>4. ASSUME Rest' = Rest, src' \in 0 .. nbuckets, Fits', op' \in {"resize", "move"},
             op' = "move" => /\ src' < nbuckets /\ buckets'[src'].dib # 0
                             /\ Coming(As(buckets[src]), There, 2 * nbuckets)'
      PROVE KInv'
  <2>1. Good(There, 2 * nbuckets)' /\ R!Distinct(Rest, {})'
    BY <1>1, <1>2, <1>3, <1>4 DEF Good
  <2>2. R!MapOf(R!Items(There, {}) \cup R!Items(Rest, {}), rules)'
    <3>1. R!MapOf(R!Items(There', {}) \cup R!Items(Rest', {}), rules')
      BY <1>1, <1>2, <1>3, <1>4
    <3>. QED BY <3>1 DEF R!MapOf
  <2>3. Resizing'
    BY <1>1, <1>2, <1>3, <1>4, <2>1, <2>2 DEF Resizing, Rebuilding
  <2>. QED BY <1>4, <2>3, RebuildInv
<1>5. CASE buckets[src].dib = 0
  <2>1. src' = src + 1 /\ UNCHANGED buckets /\ op' = "resize"
    BY <1>1, <1>5 DEF ResizeScan
  <2>2. \A b \in 0 .. (nbuckets - 1) : RestAt(b)' = RestAt(b)
    BY <1>2, <1>5, <2>1 DEF RestAt
  <2>3. Rest' = Rest
    BY <1>1, <2>2 DEF Rest
  <2>4. Fits'
    BY <1>1, <2>1 DEF KInv, Fits, Size
  <2>. QED BY <1>2, <1>4, <2>1, <2>3, <2>4
<1>6. CASE buckets[src].dib # 0
  <2>. DEFINE e == [buckets[src] EXCEPT !.dib = 1]
  <2>1. /\ buckets' = R!Put(buckets, src, e) /\ op' = "move" /\ src' = src
        /\ i' = Home(buckets[src].key, 2 * nbuckets - 1)
    BY <1>1, <1>2, <1>6 DEF ResizeScan, R!Put
  <2>2. buckets[src] \in [dib : 1 .. (2 * Size(buckets)), key : Key, permission : Permission]
    BY <1>2, <1>6, AsIs
  <2>3. /\ e \in Buckets(2 * nbuckets) /\ e \in Buckets(2 * Size(buckets)) /\ e.dib = 1
        /\ ItemOf(e) = ItemOf(buckets[src]) /\ e.key = buckets[src].key /\ e.key \in Key
    BY <1>2, <2>2 DEF Buckets, ItemOf
  <2>. HIDE DEF e
  <2>4. Fits'
    BY <1>1, <1>2, <2>1, <2>3, FitsWithBucket
  <2>5. \A b \in 0 .. (nbuckets - 1) : RestAt(b)' = RestAt(b)
    <3>. SUFFICES ASSUME NEW b \in 0 .. (nbuckets - 1) PROVE RestAt(b)' = RestAt(b)
      OBVIOUS
    <3>1. CASE b = src
      <4>1. buckets'[b] = e
        BY <1>2, <2>1, <3>1 DEF R!Put
      <4>. QED BY <1>6, <2>1, <2>3, <3>1, <4>1 DEF RestAt
    <3>2. CASE b # src
      <4>1. buckets'[b] = buckets[b]
        BY <2>1, <3>2 DEF R!Put
      <4>. QED BY <2>1, <4>1 DEF RestAt
    <3>. QED BY <3>1, <3>2
  <2>6. Rest' = Rest
    BY <1>1, <2>5 DEF Rest
  <2>7. buckets'[src'] = e
    BY <1>2, <2>1 DEF R!Put
  <2>8. /\ As(e) \in R!Filled(2 * nbuckets) /\ As(e).dib = 1 /\ As(e).item.key = e.key
    BY <1>2, <2>3, AsIs
  <2>9. i' = R!Home(e.key, 2 * nbuckets)
    BY <1>2, <2>1, <2>3, SameHome
  <2>10. /\ i' \in 0 .. (2 * nbuckets - 1) /\ R!Placed(As(e), i', 2 * nbuckets)
         /\ R!Path(There, 2 * nbuckets, i', As(e), {})
    <3>1. 2 * nbuckets \in Nat \ {0, 1} /\ As(e).dib = 1 /\ As(e).item.key \in Key
      BY <1>2, <2>3, <2>8
    <3>2. /\ R!Home(As(e).item.key, 2 * nbuckets) \in 0 .. (2 * nbuckets - 1)
          /\ R!Placed(As(e), R!Home(As(e).item.key, 2 * nbuckets), 2 * nbuckets)
          /\ R!Path(There, 2 * nbuckets, R!Home(As(e).item.key, 2 * nbuckets), As(e), {})
      BY <3>1, R!HomeStart
    <3>. QED BY <2>8, <2>9, <3>2
  <2>11. Coming(As(buckets[src]), There, 2 * nbuckets)'
    BY <1>1, <1>3, <2>7, <2>8, <2>10 DEF Coming
  <2>12. e.dib # 0
    BY <2>3
  <2>. QED BY <1>1, <1>2, <1>4, <2>1, <2>4, <2>6, <2>7, <2>11, <2>12
<1>. QED BY <1>5, <1>6

\* The item that is moved.
LEMMA MoveFacts ==
  ASSUME Shape, KInv, op = "move"
  PROVE /\ Rebuilding /\ src \in 0 .. (nbuckets - 1) /\ src \in Nat /\ src \in DOMAIN buckets
        /\ buckets[src].dib # 0 /\ buckets[src] \in Buckets(2 * nbuckets)
        /\ As(buckets[src]) \in R!Filled(2 * nbuckets) /\ As(buckets[src]).dib = buckets[src].dib
        /\ buckets[src].dib \in 1 .. (2 * nbuckets)
        /\ As(buckets[src]).item = ItemOf(buckets[src]) /\ ItemOf(buckets[src]) \in R!Item
        /\ i \in 0 .. (2 * nbuckets - 1) /\ R!Placed(As(buckets[src]), i, 2 * nbuckets)
        /\ R!Path(There, 2 * nbuckets, i, As(buckets[src]), {})
        /\ src \in R!Used(Rest) /\ Rest[src].item = ItemOf(buckets[src])
        /\ \A a \in R!Used(There) : There[a].item.key # ItemOf(buckets[src]).key
        /\ \E c \in 0 .. (2 * nbuckets - 1) : There[c].dib = 0
<1>1. Rebuilding
  BY DEF Rebuilding
<1>2. src < nbuckets /\ buckets[src].dib # 0 /\ Coming(As(buckets[src]), There, 2 * nbuckets)
  BY <1>1 DEF KInv, Resizing
<1>3. /\ nbuckets \in Nat \ {0, 1} /\ 2 * nbuckets \in Nat \ {0, 1} /\ src \in 0 .. (nbuckets - 1)
      /\ RestFacts /\ Good(There, 2 * nbuckets) /\ src \in DOMAIN buckets
      /\ buckets[src] \in Buckets(2 * Size(buckets)) /\ 2 * Size(buckets) \in Nat \ {0}
      /\ \A a \in R!Used(There), b \in R!Used(Rest) : There[a].item.key # Rest[b].item.key
  BY <1>1, <1>2, RebuildFacts
<1>4. /\ As(buckets[src]) \in R!Filled(2 * nbuckets) /\ i \in 0 .. (2 * nbuckets - 1)
      /\ R!Placed(As(buckets[src]), i, 2 * nbuckets)
      /\ R!Path(There, 2 * nbuckets, i, As(buckets[src]), {})
  BY <1>2 DEF Coming
<1>5. buckets[src] \in Buckets(2 * nbuckets)
  BY <1>2, <1>3, <1>4, Fitted
<1>6. /\ As(buckets[src]).dib = buckets[src].dib /\ buckets[src].dib \in 0 .. (2 * nbuckets)
      /\ As(buckets[src]).item = ItemOf(buckets[src]) /\ ItemOf(buckets[src]) \in R!Item
  BY <1>2, <1>3, <1>5, AsIs
<1>7. src \in R!Used(Rest) /\ Rest[src].item = ItemOf(buckets[src])
  <2>1. src \in R!Used(Rest)
    BY <1>2, <1>3 DEF RestFacts
  <2>2. Rest[src] = [dib |-> 1, item |-> ItemOf(buckets[src])]
    BY <1>3, <2>1 DEF RestFacts
  <2>. QED BY <2>1, <2>2
<1>8. \E c \in 0 .. (2 * nbuckets - 1) : There[c].dib = 0
  <2>1. /\ count = Cardinality(R!Used(There)) + Cardinality(R!Used(Rest))
        /\ Cardinality(R!Used(There)) \in Nat /\ count < GrowAt(2 * nbuckets)
        /\ GrowAt(2 * nbuckets) < 2 * nbuckets /\ GrowAt(2 * nbuckets) \in Nat
    BY <1>1, RebuildFacts
  <2>2. Cardinality(R!Used(Rest)) \in Nat
    BY <1>3 DEF RestFacts
  <2>3. Cardinality(R!Used(There)) < 2 * nbuckets
    BY <1>3, <2>1, <2>2
  <2>. QED BY <1>3, <2>3, FreeLeft
<1>9. \A a \in R!Used(There) : There[a].item.key # ItemOf(buckets[src]).key
  BY <1>3, <1>7
<1>. QED BY <1>1, <1>2, <1>3, <1>4, <1>5, <1>6, <1>7, <1>8, <1>9

\* An item is written to the new table, or goes on.
LEMMA MovePassOn == ASSUME Shape, KInv, MovePass, ~MoveDisplaces PROVE KInv'
<1>. DEFINE f == [buckets[src] EXCEPT !.dib = @ + 1]
<1>1. /\ op = "move" /\ new[i].dib # 0 /\ Rebuilding
      /\ i' = After(i, Size(new) - 1) /\ op' = "move"
      /\ UNCHANGED <<nbuckets, count, arg, src, new, rules>>
  BY DEF MovePass, Rebuilding
<1>2. /\ nbuckets \in Nat \ {0, 1} /\ 2 * nbuckets \in Nat \ {0, 1} /\ Size(new) = 2 * nbuckets
      /\ Good(There, 2 * nbuckets) /\ There \in R!Table(2 * nbuckets)
      /\ R!Distinct(Rest, {}) /\ nbuckets <= Size(buckets) /\ Size(buckets) \in Nat \ {0}
      /\ \A b \in 0 .. (2 * nbuckets - 1) : There[b].dib = new[b].dib /\ There[b].dib \in 0 .. (2 * nbuckets)
      /\ \A b \in 0 .. (2 * nbuckets - 1) : new[b] \in Buckets(2 * nbuckets)
      /\ \A a \in R!Used(There), b \in R!Used(Rest) : There[a].item.key # Rest[b].item.key
      /\ R!MapOf(R!Items(There, {}) \cup R!Items(Rest, {}), rules)
      /\ count = Cardinality(R!Used(There)) + Cardinality(R!Used(Rest))
      /\ count < GrowAt(2 * nbuckets) /\ src \in 0 .. nbuckets
  BY <1>1, RebuildFacts
<1>3. /\ src \in 0 .. (nbuckets - 1) /\ src \in DOMAIN buckets
      /\ buckets[src].dib # 0 /\ buckets[src] \in Buckets(2 * nbuckets)
      /\ As(buckets[src]) \in R!Filled(2 * nbuckets) /\ As(buckets[src]).dib = buckets[src].dib
      /\ buckets[src].dib \in 1 .. (2 * nbuckets)
      /\ i \in 0 .. (2 * nbuckets - 1) /\ R!Placed(As(buckets[src]), i, 2 * nbuckets)
      /\ R!Path(There, 2 * nbuckets, i, As(buckets[src]), {})
  BY <1>1, MoveFacts
<1>4. PICK c \in 0 .. (2 * nbuckets - 1) : There[c].dib = 0
  BY <1>1, MoveFacts
<1>5. There[i].dib # 0 /\ ~ (There[i].dib < As(buckets[src]).dib)
  BY <1>1, <1>2, <1>3 DEF MoveDisplaces
<1>6. buckets' = R!Put(buckets, src, f)
  BY <1>1 DEF MovePass, R!Put
<1>7. /\ As(f) = [As(buckets[src]) EXCEPT !.dib = @ + 1] /\ f.dib = buckets[src].dib + 1
      /\ f \in Buckets(2 * nbuckets + 1) /\ ItemOf(f) = ItemOf(buckets[src])
  <2>1. 2 * nbuckets \in Nat \ {0}
    BY <1>2
  <2>. QED BY <1>3, <2>1, AsFurther
<1>. HIDE DEF f
<1>8. i' = R!After(i, 2 * nbuckets) /\ i' \in 0 .. (2 * nbuckets - 1)
  <2>1. i' = R!After(i, 2 * nbuckets)
    BY <1>1, <1>2, SameAfter
  <2>2. 2 * nbuckets \in Nat \ {0}
    BY <1>2
  <2>. QED BY <1>3, <2>1, <2>2, R!AfterIs
<1>9. /\ As(f) \in R!Filled(2 * nbuckets) /\ R!Placed(As(f), i', 2 * nbuckets)
      /\ R!Path(There, 2 * nbuckets, i', As(f), {})
  BY <1>2, <1>3, <1>4, <1>5, <1>7, <1>8, R!PassOn
<1>10. f \in Buckets(2 * Size(buckets)) /\ f.dib # 0
  <2>1. 2 * nbuckets \in Nat \ {0} /\ 2 * nbuckets + 1 \in Nat \ {0} /\ f.dib # 0
    BY <1>2, <1>3, <1>7
  <2>2. f \in Buckets(2 * nbuckets)
    BY <1>7, <1>9, <2>1, Fitted
  <2>3. 2 * nbuckets <= 2 * Size(buckets) /\ 2 * nbuckets \in Nat /\ 2 * Size(buckets) \in Nat
    BY <1>2
  <2>. QED BY <2>1, <2>2, <2>3, Larger
<1>11. Fits'
  BY <1>1, <1>2, <1>3, <1>6, <1>10, FitsWithBucket
<1>12. buckets'[src'] = f /\ \A b \in 0 .. (nbuckets - 1) : b # src => buckets'[b] = buckets[b]
  BY <1>1, <1>3, <1>6 DEF R!Put
<1>13. There' = There
  BY <1>1 DEF There
<1>14. Rest' = Rest
  <2>1. ASSUME NEW b \in 0 .. (nbuckets - 1) PROVE RestAt(b)' = RestAt(b)
    <3>1. CASE b = src
      BY <1>1, <1>3, <1>7, <1>10, <1>12, <3>1 DEF RestAt
    <3>2. CASE b # src
      BY <1>1, <1>12, <3>2 DEF RestAt
    <3>. QED BY <3>1, <3>2
  <2>. QED BY <1>1, <2>1 DEF Rest
<1>15. Coming(As(buckets[src]), There, 2 * nbuckets)'
  BY <1>1, <1>8, <1>9, <1>12, <1>13 DEF Coming
<1>16. Good(There, 2 * nbuckets)' /\ R!Distinct(Rest, {})'
  BY <1>1, <1>2, <1>13, <1>14 DEF Good
<1>17. R!MapOf(R!Items(There, {}) \cup R!Items(Rest, {}), rules)'
  <2>1. R!MapOf(R!Items(There', {}) \cup R!Items(Rest', {}), rules')
    BY <1>1, <1>2, <1>13, <1>14
  <2>. QED BY <2>1 DEF R!MapOf
<1>18. Resizing'
  BY <1>1, <1>2, <1>3, <1>10, <1>12, <1>13, <1>14, <1>15, <1>16, <1>17 DEF Resizing, Rebuilding
<1>. QED BY <1>1, <1>11, <1>18, RebuildInv

LEMMA MovePassSwap == ASSUME Shape, KInv, MovePass, MoveDisplaces PROVE KInv'
<1>. DEFINE h == buckets[src]
            e == As(h)
            f == [new[i] EXCEPT !.dib = @ + 1]
<1>1. /\ op = "move" /\ new[i].dib \in 1 .. (h.dib - 1) /\ Rebuilding
      /\ i' = After(i, Size(new) - 1) /\ op' = "move"
      /\ new' = R!Put(new, i, h) /\ buckets' = R!Put(buckets, src, f)
      /\ UNCHANGED <<nbuckets, count, arg, src, rules>>
  BY DEF MovePass, MoveDisplaces, Rebuilding, R!Put
<1>2. /\ nbuckets \in Nat \ {0, 1} /\ 2 * nbuckets \in Nat \ {0, 1} /\ Size(new) = 2 * nbuckets /\ DOMAIN new = 0 .. (2 * nbuckets - 1)
      /\ There \in R!Table(2 * nbuckets) /\ R!Sound(There, 2 * nbuckets, {}) /\ R!Distinct(There, {})
      /\ R!Distinct(Rest, {}) /\ nbuckets <= Size(buckets) /\ Size(buckets) \in Nat \ {0}
      /\ R!Used(There) = {b \in 0 .. (2 * nbuckets - 1) : There[b].dib # 0} /\ DOMAIN There = 0 .. (2 * nbuckets - 1)
      /\ \A b \in 0 .. (2 * nbuckets - 1) : There[b] = As(new[b]) /\ There[b].dib = new[b].dib
      /\ \A b \in 0 .. (2 * nbuckets - 1) : new[b] \in Buckets(2 * nbuckets)
      /\ \A a \in R!Used(There), b \in R!Used(Rest) : There[a].item.key # Rest[b].item.key
      /\ R!MapOf(R!Items(There, {}) \cup R!Items(Rest, {}), rules)
      /\ count = Cardinality(R!Used(There)) + Cardinality(R!Used(Rest))
      /\ count < GrowAt(2 * nbuckets) /\ src \in 0 .. nbuckets /\ RestFacts
  BY <1>1, RebuildFacts
<1>3. /\ src \in 0 .. (nbuckets - 1) /\ src \in DOMAIN buckets
      /\ h.dib # 0 /\ h \in Buckets(2 * nbuckets) /\ e \in R!Filled(2 * nbuckets) /\ e.dib = h.dib /\ h.dib \in 1 .. 2 * nbuckets
      /\ e.item = ItemOf(h) /\ i \in 0 .. (2 * nbuckets - 1) /\ R!Placed(e, i, 2 * nbuckets) /\ R!Path(There, 2 * nbuckets, i, e, {})
      /\ src \in R!Used(Rest) /\ Rest[src].item = ItemOf(h)
      /\ \A a \in R!Used(There) : There[a].item.key # ItemOf(h).key
  BY <1>1, MoveFacts
<1>4. /\ There[i].dib # 0 /\ There[i].dib < e.dib /\ new[i].dib # 0 /\ new[i] \in Buckets(2 * nbuckets)
      /\ There[i] = As(new[i]) /\ i \in R!Used(There)
  BY <1>1, <1>2, <1>3
<1>5. /\ There[i].item = ItemOf(new[i])
      /\ As(f) = R!Swapped(There[i], There[i]) /\ f.dib = new[i].dib + 1
      /\ f \in Buckets(2 * nbuckets + 1) /\ ItemOf(f) = ItemOf(new[i])
  <2>1. 2 * nbuckets \in Nat \ {0}
    BY <1>2
  <2>2. There[i].item = ItemOf(new[i])
    BY <1>4, <2>1, AsIs
  <2>3. /\ As(f) = R!Swapped(As(new[i]), As(new[i])) /\ f.dib = new[i].dib + 1
        /\ f \in Buckets(2 * nbuckets + 1) /\ ItemOf(f) = ItemOf(new[i])
    BY <1>4, <2>1, AsFurther
  <2>. QED BY <1>4, <2>2, <2>3
<1>6. As(f) = R!Swapped(There[i], e)
  BY <1>5 DEF R!Swapped
<1>7. There' = R!Put(There, i, e)
  <2>1. There' = Of(new', 2 * nbuckets)
    BY <1>1 DEF There
  <2>2. Of(new', 2 * nbuckets) = R!Put(Of(new, 2 * nbuckets), i, e)
    <3>1. 2 * nbuckets \in Nat \ {0} /\ 0 .. (2 * nbuckets - 1) \subseteq DOMAIN new
      BY <1>2
    <3>. HIDE DEF h
    <3>. QED BY <1>1, <1>3, <3>1, OfPut
  <2>. QED BY <2>1, <2>2 DEF There
<1>8. i' = R!After(i, 2 * nbuckets) /\ i' \in 0 .. (2 * nbuckets - 1)
  <2>1. i' = R!After(i, 2 * nbuckets)
    BY <1>1, <1>2, SameAfter
  <2>2. 2 * nbuckets \in Nat \ {0}
    BY <1>2
  <2>. QED BY <1>3, <2>1, <2>2, R!AfterIs
<1>. DEFINE g == As(f)
<1>. HIDE DEF e, f, g, h
<1>9. /\ There' \in R!Table(2 * nbuckets) /\ g \in R!Filled(2 * nbuckets)
      /\ R!Sound(There', 2 * nbuckets, {}) /\ R!Placed(g, i', 2 * nbuckets) /\ R!Path(There', 2 * nbuckets, i', g, {})
  <2>1. g = R!Swapped(There[i], e)
    BY <1>6 DEF g
  <2>2. /\ 2 * nbuckets \in Nat \ {0, 1} /\ There \in R!Table(2 * nbuckets)
        /\ e \in R!Filled(2 * nbuckets) /\ i \in 0 .. (2 * nbuckets - 1)
        /\ R!Sound(There, 2 * nbuckets, {}) /\ R!Placed(e, i, 2 * nbuckets)
        /\ R!Path(There, 2 * nbuckets, i, e, {}) /\ There[i].dib # 0 /\ There[i].dib < e.dib
    BY <1>2, <1>3, <1>4
  <2>3. /\ There' \in R!Table(2 * nbuckets) /\ g \in R!Filled(2 * nbuckets)
        /\ R!Sound(There', 2 * nbuckets, {}) /\ R!Placed(g, R!After(i, 2 * nbuckets), 2 * nbuckets)
        /\ R!Path(There', 2 * nbuckets, R!After(i, 2 * nbuckets), g, {})
    BY <1>7, <2>1, <2>2, R!PassSwap
  <2>. QED BY <1>8, <2>3
<1>10. f \in Buckets(2 * Size(buckets)) /\ f.dib # 0
  <2>1. 2 * nbuckets \in Nat \ {0} /\ 2 * nbuckets + 1 \in Nat \ {0} /\ f.dib # 0
    <3>1. 2 * nbuckets \in Nat \ {0}
      BY <1>2
    <3>2. h.dib \in Nat
      BY <1>2, <1>3
    <3>3. new[i].dib \in Nat
      BY <1>1, <3>2
    <3>. QED BY <1>5, <3>1, <3>3
  <2>2. f \in Buckets(2 * nbuckets)
    BY <1>5, <1>9, <2>1, Fitted DEF g
  <2>3. 2 * nbuckets <= 2 * Size(buckets) /\ 2 * nbuckets \in Nat /\ 2 * Size(buckets) \in Nat
    BY <1>2
  <2>. QED BY <2>1, <2>2, <2>3, Larger
<1>11. Fits'
  <2>1. \A c \in 0 .. (2 * nbuckets - 1) : new'[c] \in Buckets(2 * nbuckets)
    BY <1>1, <1>2, <1>3 DEF R!Put
  <2>. QED BY <1>1, <1>3, <1>10, <2>1, FitsWithBucket
<1>12. buckets'[src] = f /\ \A b \in 0 .. (nbuckets - 1) : b # src => buckets'[b] = buckets[b]
  BY <1>1, <1>3 DEF R!Put
<1>13. R!Used(There') = R!Used(There)
  <2>1. /\ 2 * nbuckets \in Nat \ {0, 1} /\ There \in R!Table(2 * nbuckets)
        /\ e \in R!Filled(2 * nbuckets) /\ i \in 0 .. (2 * nbuckets - 1) /\ There[i].dib # 0
    BY <1>2, <1>3, <1>4
  <2>. QED BY <1>7, <2>1, R!SwapItems
<1>14. /\ There'[i] = e /\ \A a \in R!Used(There) : a # i => There'[a] = There[a]
  BY <1>2, <1>3, <1>7 DEF R!Put
<1>15. R!Distinct(There', {})
  <2>1. \A a \in R!Used(There) \ {i} : There[a].item.key # e.item.key
    BY <1>3
  <2>. QED BY <1>2, <1>3, <1>7, <2>1, R!StaysDistinct, SMTT(30)
<1>16. /\ R!Used(Rest)' = R!Used(Rest) /\ DOMAIN Rest' = DOMAIN Rest
       /\ Rest'[src].item = There[i].item
       /\ \A b \in R!Used(Rest) : b # src => Rest'[b] = Rest[b]
  <2>1. RestFacts'
    BY <1>1, <1>2, <1>11, RestThen
  <2>2. \A b \in src .. (nbuckets - 1) : buckets'[b].dib # 0 <=> buckets[b].dib # 0
    BY <1>2, <1>3, <1>10, <1>12 DEF h
  <2>3. R!Used(Rest)' = R!Used(Rest) /\ DOMAIN Rest' = DOMAIN Rest
    BY <1>1, <1>2, <2>1, <2>2, SMTT(30) DEF RestFacts
  <2>4. \A b \in R!Used(Rest) : /\ Rest'[b] = [dib |-> 1, item |-> ItemOf(buckets'[b])]
                                /\ Rest[b] = [dib |-> 1, item |-> ItemOf(buckets[b])]
                                /\ b \in 0 .. (nbuckets - 1)
    BY <1>2, <2>1, <2>3 DEF RestFacts
  <2>5. Rest'[src].item = There[i].item
    <3>1. Rest'[src] = [dib |-> 1, item |-> ItemOf(f)]
      BY <1>3, <1>12, <2>4
    <3>. QED BY <1>5, <3>1
  <2>. QED BY <1>12, <2>3, <2>4, <2>5
<1>17. \A a \in R!Used(There) : a # i => There[a].item.key # There[i].item.key
  BY <1>2, <1>4 DEF R!Distinct
<1>18. \A b \in R!Used(Rest) : b # src => Rest[b].item.key # Rest[src].item.key
  <2>1. \A b \in R!Used(Rest) : b \in DOMAIN Rest /\ Rest[b].dib # 0
    BY DEF R!Used
  <2>. QED BY <1>2, <1>3, <2>1 DEF R!Distinct
<1>19. R!Distinct(Rest', {})
  <2>. SUFFICES ASSUME NEW a \in DOMAIN Rest', NEW b \in DOMAIN Rest', Rest'[a].dib # 0, Rest'[b].dib # 0,
                       Rest'[a].item.key = Rest'[b].item.key
                PROVE a = b
    BY DEF R!Distinct
  <2>1. a \in R!Used(Rest) /\ b \in R!Used(Rest)
    BY <1>16 DEF R!Used
  <2>2. Rest[a].dib # 0 /\ Rest[b].dib # 0 /\ a \in DOMAIN Rest /\ b \in DOMAIN Rest
    BY <2>1 DEF R!Used
  <2>3. CASE a # src /\ b # src
    BY <1>2, <1>16, <2>1, <2>2, <2>3 DEF R!Distinct
  <2>4. CASE a = src /\ b # src
    BY <1>2, <1>4, <1>16, <2>1, <2>4
  <2>5. CASE a # src /\ b = src
    BY <1>2, <1>4, <1>16, <2>1, <2>5
  <2>. QED BY <2>3, <2>4, <2>5
<1>20. \A a \in R!Used(There'), b \in R!Used(Rest') : There'[a].item.key # Rest'[b].item.key
  <2>. SUFFICES ASSUME NEW a \in R!Used(There), NEW b \in R!Used(Rest)
                PROVE There'[a].item.key # Rest'[b].item.key
    BY <1>13, <1>16
  <2>1. CASE a = i /\ b = src
    BY <1>3, <1>4, <1>14, <1>16, <2>1
  <2>2. CASE a = i /\ b # src
    BY <1>3, <1>14, <1>16, <1>18, <2>2
  <2>3. CASE a # i /\ b = src
    BY <1>14, <1>16, <1>17, <2>3
  <2>4. CASE a # i /\ b # src
    BY <1>2, <1>14, <1>16, <2>4
  <2>. QED BY <2>1, <2>2, <2>3, <2>4
<1>21. R!Items(There', {}) \cup R!Items(Rest', {}) = R!Items(There, {}) \cup R!Items(Rest, {})
  <2>. DEFINE U == R!Used(There)
              V == R!Used(Rest)
  <2>1. /\ R!Items(There, {}) = {There[a].item : a \in U} /\ R!Items(Rest, {}) = {Rest[b].item : b \in V}
        /\ R!Items(There', {}) = {There'[a].item : a \in U}
        /\ R!Items(Rest', {}) = {Rest'[b].item : b \in V}
    BY <1>13, <1>16 DEF R!Items
  <2>2. /\ i \in U /\ src \in V
        /\ There'[i].item = Rest[src].item /\ Rest'[src].item = There[i].item
        /\ \A a \in U : a # i => There'[a].item = There[a].item
        /\ \A b \in V : b # src => Rest'[b].item = Rest[b].item
    BY <1>3, <1>4, <1>14, <1>16
  <2>. HIDE DEF U, V
  <2>3. \A x : x \in {There'[a].item : a \in U} \cup {Rest'[b].item : b \in V} =>
                x \in {There[a].item : a \in U} \cup {Rest[b].item : b \in V}
    BY <2>2
  <2>4. \A x : x \in {There[a].item : a \in U} \cup {Rest[b].item : b \in V} =>
                x \in {There'[a].item : a \in U} \cup {Rest'[b].item : b \in V}
    BY <2>2
  <2>. QED BY <2>1, <2>3, <2>4
<1>22. Coming(As(buckets[src]), There, 2 * nbuckets)'
  BY <1>1, <1>8, <1>9, <1>12 DEF Coming, g
<1>23. Good(There, 2 * nbuckets)' /\ R!Distinct(Rest, {})'
  BY <1>1, <1>9, <1>15, <1>19 DEF Good
<1>24. R!MapOf(R!Items(There, {}) \cup R!Items(Rest, {}), rules)'
  <2>1. R!MapOf(R!Items(There', {}) \cup R!Items(Rest', {}), rules')
    BY <1>1, <1>2, <1>21
  <2>. QED BY <2>1 DEF R!MapOf
<1>25. count' = Cardinality(R!Used(There))' + Cardinality(R!Used(Rest))' /\ count' < GrowAt(2 * nbuckets)
  BY <1>1, <1>2, <1>13, <1>16
<1>26. Resizing'
  <2>1. src' < nbuckets' /\ buckets'[src'].dib # 0 /\ src' \in 0 .. nbuckets'
    BY <1>1, <1>2, <1>3, <1>10, <1>12
  <2>. QED BY <1>1, <1>20, <1>22, <1>23, <1>24, <1>25, <2>1 DEF Resizing, Rebuilding
<1>. QED BY <1>1, <1>11, <1>26, RebuildInv

LEMMA MovePassInv == ASSUME Shape, KInv, MovePass PROVE KInv'
BY MovePassOn, MovePassSwap

LEMMA MoveEndInv == ASSUME Shape, KInv, MoveEnd PROVE KInv'
<1>. DEFINE h == buckets[src]
            e == As(h)
<1>1. /\ op = "move" /\ new[i].dib = 0 /\ Rebuilding
      /\ new' = R!Put(new, i, h) /\ src' = src + 1 /\ op' = "resize"
      /\ UNCHANGED <<buckets, nbuckets, count, arg, rules>>
  BY DEF MoveEnd, table, Rebuilding, R!Put
<1>2. /\ nbuckets \in Nat \ {0, 1} /\ 2 * nbuckets \in Nat \ {0, 1}
      /\ DOMAIN new = 0 .. (2 * nbuckets - 1)
      /\ There \in R!Table(2 * nbuckets) /\ R!Sound(There, 2 * nbuckets, {}) /\ R!Distinct(There, {})
      /\ R!Distinct(Rest, {}) /\ IsFiniteSet(R!Used(There)) /\ Cardinality(R!Used(There)) \in Nat
      /\ R!Used(There) = {b \in 0 .. (2 * nbuckets - 1) : There[b].dib # 0}
      /\ DOMAIN There = 0 .. (2 * nbuckets - 1)
      /\ \A b \in 0 .. (2 * nbuckets - 1) : There[b].dib = new[b].dib
      /\ \A b \in 0 .. (2 * nbuckets - 1) : new[b] \in Buckets(2 * nbuckets)
      /\ \A a \in R!Used(There), b \in R!Used(Rest) : There[a].item.key # Rest[b].item.key
      /\ R!MapOf(R!Items(There, {}) \cup R!Items(Rest, {}), rules)
      /\ count = Cardinality(R!Used(There)) + Cardinality(R!Used(Rest))
      /\ count < GrowAt(2 * nbuckets) /\ RestFacts
  BY <1>1, RebuildFacts
<1>3. /\ src \in 0 .. (nbuckets - 1) /\ h \in Buckets(2 * nbuckets)
      /\ e \in R!Filled(2 * nbuckets) /\ e.dib = h.dib /\ h.dib \in 1 .. (2 * nbuckets)
      /\ e.item = ItemOf(h) /\ i \in 0 .. (2 * nbuckets - 1)
      /\ R!Placed(e, i, 2 * nbuckets) /\ R!Path(There, 2 * nbuckets, i, e, {})
      /\ src \in R!Used(Rest) /\ Rest[src].item = ItemOf(h)
      /\ \A a \in R!Used(There) : There[a].item.key # ItemOf(h).key
  BY <1>1, MoveFacts
<1>. HIDE DEF e, h
<1>4. There' = R!Put(There, i, e)
  <2>1. There' = Of(new', 2 * nbuckets)
    BY <1>1 DEF There
  <2>2. 2 * nbuckets \in Nat \ {0} /\ 0 .. (2 * nbuckets - 1) \subseteq DOMAIN new
    BY <1>2
  <2>3. Of(new', 2 * nbuckets) = R!Put(Of(new, 2 * nbuckets), i, As(h))
    <3>1. i \in 0 .. (2 * nbuckets - 1) /\ new' = R!Put(new, i, h)
      BY <1>1, <1>3
    <3>. QED BY <2>2, <3>1, OfPut
  <2>. QED BY <2>1, <2>3 DEF There, e
<1>5. There' \in R!Table(2 * nbuckets) /\ R!Sound(There', 2 * nbuckets, {})
  <2>1. There[i].dib < e.dib
    BY <1>1, <1>2, <1>3, SMTT(30)
  <2>. QED BY <1>2, <1>3, <1>4, <2>1, R!Raised, SMTT(30)
<1>6. /\ R!Used(There') = R!Used(There) \cup {i} /\ i \notin R!Used(There)
      /\ R!Items(There', {}) = R!Items(There, {}) \cup {e.item}
  <2>1. There[i].dib = 0
    BY <1>1, <1>2, <1>3
  <2>. QED BY <1>2, <1>3, <1>4, <2>1, R!PutItems, SMTT(30)
<1>7. R!Distinct(There', {})
  <2>1. \A a \in R!Used(There) \ {i} : There[a].item.key # e.item.key
    BY <1>3
  <2>. QED BY <1>2, <1>3, <1>4, <2>1, R!StaysDistinct
<1>8. Fits'
  <2>1. \A b \in 0 .. (2 * nbuckets - 1) : new'[b] \in Buckets(2 * nbuckets)
    BY <1>1, <1>2, <1>3 DEF R!Put
  <2>. QED BY <1>1, <2>1 DEF KInv, Fits, Size
<1>9. src + 1 \in 0 .. nbuckets
  BY <1>2, <1>3
<1>10. /\ R!Used(Rest)' = R!Used(Rest) \ {src} /\ DOMAIN Rest' = DOMAIN Rest
       /\ \A b \in R!Used(Rest) \ {src} : Rest'[b] = Rest[b]
  <2>1. RestFacts'
    BY <1>1, <1>8, <1>9, RestThen
  <2>2. /\ R!Used(Rest)' = {b \in (src + 1) .. (nbuckets - 1) : buckets[b].dib # 0}
        /\ DOMAIN Rest' = DOMAIN Rest
        /\ \A b \in R!Used(Rest)' : Rest'[b] = [dib |-> 1, item |-> ItemOf(buckets[b])]
    BY <1>1, <1>2, <2>1 DEF RestFacts
  <2>3. /\ R!Used(Rest) = {b \in src .. (nbuckets - 1) : buckets[b].dib # 0}
        /\ \A b \in R!Used(Rest) : Rest[b] = [dib |-> 1, item |-> ItemOf(buckets[b])]
    BY <1>2 DEF RestFacts
  <2>4. (src + 1) .. (nbuckets - 1) = (src .. (nbuckets - 1)) \ {src}
    BY <1>2, <1>3
  <2>5. R!Used(Rest)' = R!Used(Rest) \ {src}
    BY <2>2, <2>3, <2>4
  <2>. QED BY <2>2, <2>3, <2>5
<1>11. R!Distinct(Rest', {})
  <2>. SUFFICES ASSUME NEW a \in DOMAIN Rest', NEW b \in DOMAIN Rest', Rest'[a].dib # 0, Rest'[b].dib # 0,
                       Rest'[a].item.key = Rest'[b].item.key
                PROVE a = b
    BY DEF R!Distinct
  <2>1. a \in R!Used(Rest) \ {src} /\ b \in R!Used(Rest) \ {src}
    BY <1>10 DEF R!Used
  <2>2. Rest[a].dib # 0 /\ Rest[b].dib # 0 /\ a \in DOMAIN Rest /\ b \in DOMAIN Rest
    BY <2>1 DEF R!Used
  <2>. QED BY <1>2, <1>10, <2>1, <2>2 DEF R!Distinct
<1>12. \A a \in R!Used(There'), b \in R!Used(Rest') : There'[a].item.key # Rest'[b].item.key
  <2>. SUFFICES ASSUME NEW a \in R!Used(There) \cup {i}, NEW b \in R!Used(Rest) \ {src}
                PROVE There'[a].item.key # Rest[b].item.key
    BY <1>6, <1>10
  <2>1. There' \in R!Table(2 * nbuckets) /\ a \in DOMAIN There /\ There'[a] = IF a = i THEN e ELSE There[a]
    BY <1>2, <1>3, <1>4, <1>5 DEF R!Put
  <2>2. CASE a = i
    <3>1. /\ b \in DOMAIN Rest /\ src \in DOMAIN Rest /\ Rest[b].dib # 0 /\ Rest[src].dib # 0
      BY <1>3 DEF R!Used
    <3>2. Rest[b].item.key # Rest[src].item.key
      BY <1>2, <3>1 DEF R!Distinct
    <3>. QED BY <1>3, <2>1, <2>2, <3>2
  <2>3. CASE a # i
    BY <1>2, <2>1, <2>3
  <2>. QED BY <2>2, <2>3
<1>13. R!Items(There', {}) \cup R!Items(Rest', {}) = R!Items(There, {}) \cup R!Items(Rest, {})
  <2>. DEFINE V == R!Used(Rest)
  <2>1. /\ R!Items(Rest, {}) = {Rest[b].item : b \in V}
        /\ R!Items(Rest', {}) = {Rest'[b].item : b \in V \ {src}}
    BY <1>10 DEF R!Items
  <2>2. src \in V /\ Rest[src].item = e.item /\ \A b \in V \ {src} : Rest'[b].item = Rest[b].item
    BY <1>3, <1>10
  <2>. HIDE DEF V
  <2>3. {Rest[b].item : b \in V} = {Rest'[b].item : b \in V \ {src}} \cup {e.item}
    BY <2>2
  <2>. QED BY <1>6, <2>1, <2>3
<1>14. count' = Cardinality(R!Used(There))' + Cardinality(R!Used(Rest))'
  <2>1. Cardinality(R!Used(There')) = Cardinality(R!Used(There)) + 1
    <3>1. IsFiniteSet(R!Used(There)) /\ i \notin R!Used(There) /\ R!Used(There') = R!Used(There) \cup {i}
      BY <1>2, <1>6
    <3>. QED BY <3>1, FS_AddElement
  <2>2. IsFiniteSet(R!Used(Rest)) /\ Cardinality(R!Used(Rest)) \in Nat
    BY <1>2 DEF RestFacts
  <2>3. Cardinality(R!Used(Rest')) = Cardinality(R!Used(Rest)) - 1
    BY <1>3, <1>10, <2>2, FS_RemoveElement
  <2>. QED BY <1>1, <1>2, <2>1, <2>2, <2>3
<1>15. Good(There, 2 * nbuckets)' /\ R!Distinct(Rest, {})'
  BY <1>1, <1>5, <1>7, <1>11 DEF Good
<1>16. R!MapOf(R!Items(There, {}) \cup R!Items(Rest, {}), rules)'
  <2>1. R!MapOf(R!Items(There', {}) \cup R!Items(Rest', {}), rules')
    BY <1>1, <1>2, <1>13
  <2>. QED BY <2>1 DEF R!MapOf
<1>17. Resizing'
  BY <1>1, <1>2, <1>9, <1>12, <1>14, <1>15, <1>16 DEF Resizing, Rebuilding
<1>. QED BY <1>1, <1>8, <1>17, RebuildInv

LEMMA ResizeFreeInv == ASSUME Shape, KInv, ResizeFree PROVE KInv'
<1>1. /\ op = "resize" /\ src = nbuckets /\ Rebuilding /\ op' = "swap"
      /\ UNCHANGED <<buckets, nbuckets, count, arg, new, rules>>
  BY DEF ResizeFree, table, Rebuilding
<1>2. /\ nbuckets \in Nat \ {0, 1} /\ Good(There, 2 * nbuckets) /\ RestFacts
      /\ R!MapOf(R!Items(There, {}) \cup R!Items(Rest, {}), rules)
      /\ count = Cardinality(R!Used(There)) + Cardinality(R!Used(Rest))
      /\ Cardinality(R!Used(There)) \in Nat /\ count < GrowAt(2 * nbuckets)
  BY <1>1, RebuildFacts
<1>3. R!Used(Rest) = {}
  <2>1. R!Used(Rest) = {b \in nbuckets .. (nbuckets - 1) : buckets[b].dib # 0}
    BY <1>1, <1>2 DEF RestFacts
  <2>2. nbuckets .. (nbuckets - 1) = {}
    BY <1>2
  <2>. QED BY <2>1, <2>2
<1>4. R!Items(Rest, {}) = {} /\ Cardinality(R!Used(Rest)) = 0
  BY <1>3, FS_EmptySet DEF R!Items
<1>5. Holds(There, 2 * nbuckets)
  <2>1. R!Items(There, {}) \cup R!Items(Rest, {}) = R!Items(There, {})
    BY <1>4
  <2>2. R!MapOf(R!Items(There, {}), rules)
    BY <1>2, <2>1
  <2>3. count = Cardinality(R!Used(There))
    BY <1>2, <1>4
  <2>. QED BY <1>2, <2>2, <2>3 DEF Holds
<1>6. There' = There /\ Here' = Here
  BY <1>1 DEF There, Here
<1>7. Holds(There, 2 * nbuckets)'
  <2>1. Good(There, 2 * nbuckets)'
    BY <1>1, <1>2, <1>6 DEF Good
  <2>. QED BY <1>1, <1>5, <1>6, <2>1 DEF Holds, R!MapOf
<1>8. Between'
  BY <1>1, <1>2, <1>7 DEF Between
<1>9. Setting' /\ Resizing'
  BY <1>1 DEF Setting, Resizing, Rebuilding
<1>10. Fits'
  BY <1>1 DEF KInv, Fits, Size
<1>. QED BY <1>8, <1>9, <1>10 DEF KInv

LEMMA ResizeSwapInv == ASSUME Shape, KInv, ResizeSwap PROVE KInv'
<1>1. /\ op = "swap" /\ buckets' = new /\ nbuckets' = Size(new) /\ op' = "mask"
      /\ UNCHANGED <<count, arg, rules>>
  BY DEF ResizeSwap
<1>2. /\ nbuckets \in Nat \ {0, 1} /\ GrowAt(2 * nbuckets) \in Nat
      /\ Holds(There, 2 * nbuckets) /\ count < GrowAt(2 * nbuckets)
  BY <1>1, KFacts DEF KInv, Between
<1>3. DOMAIN new = 0 .. (2 * nbuckets - 1)
  BY <1>1 DEF Shape
<1>4. nbuckets' = 2 * nbuckets
  <2>1. 2 * nbuckets \in Nat
    BY <1>2
  <2>. QED BY <1>1, <1>3, <2>1, SizeOf
<1>5. Here' = There
  BY <1>1, <1>4 DEF Here, There
<1>6. Holds(Here, nbuckets)'
  <2>1. Good(Here, nbuckets)'
    BY <1>2, <1>4, <1>5 DEF Good, Holds
  <2>. QED BY <1>1, <1>2, <1>4, <1>5, <2>1 DEF Holds, R!MapOf
<1>7. Between'
  <2>1. count \in Nat
    <3>1. 2 * nbuckets \in Nat \ {0, 1} /\ Good(There, 2 * nbuckets) /\ count = Cardinality(R!Used(There))
      BY <1>2 DEF Holds
    <3>. QED BY <3>1, GoodIs
  <2>2. count' <= GrowAt(nbuckets') /\ count' # GrowAt(nbuckets')
    BY <1>1, <1>2, <1>4, <2>1
  <2>. QED BY <1>1, <1>6, <2>2 DEF Between, GrowAt
<1>8. Setting' /\ Resizing'
  BY <1>1 DEF Setting, Resizing, Rebuilding
<1>9. Fits'
  <2>1. PICK m \in Nat \ {0} : nbuckets = Cap * m
    BY DEF KInv, Fits
  <2>2. 2 * m \in Nat \ {0} /\ 2 * nbuckets = Cap * (2 * m)
    BY <2>1
  <2>3. nbuckets' \in {Cap * p : p \in Nat \ {0}}
    BY <1>4, <2>2
  <2>4. /\ Size(buckets') = 2 * nbuckets /\ 2 * nbuckets \in Nat
        /\ DOMAIN buckets' = 0 .. (Size(buckets') - 1)
    BY <1>1, <1>2, <1>3, <1>4
  <2>5. \A b \in DOMAIN buckets' : buckets'[b] \in Buckets(2 * Size(buckets'))
    <3>1. \A b \in 0 .. (2 * nbuckets - 1) : new[b] \in Buckets(2 * nbuckets)
      BY <1>1 DEF KInv, Fits
    <3>2. 2 * nbuckets <= 2 * (2 * nbuckets) /\ 2 * (2 * nbuckets) \in Nat /\ 2 * nbuckets \in Nat
      BY <1>2
    <3>3. Buckets(2 * nbuckets) \subseteq Buckets(2 * (2 * nbuckets))
      BY <3>2, Larger
    <3>. QED BY <1>1, <1>3, <2>4, <3>1, <3>3
  <2>6. nbuckets' <= Size(buckets')
    BY <1>2, <1>4, <2>4
  <2>. QED BY <1>1, <2>3, <2>4, <2>5, <2>6 DEF KInv, Fits, Size
<1>. QED BY <1>7, <1>8, <1>9 DEF KInv

LEMMA ResizeMaskInv == ASSUME Shape, KInv, ResizeMask PROVE KInv'
<1>1. /\ op = "mask" /\ mask' = nbuckets - 1 /\ StartSet(arg, nbuckets - 1)
      /\ UNCHANGED <<buckets, nbuckets, count, rules>>
  BY DEF ResizeMask, StartSet
<1>2. arg \in [dib : {1}, key : Key, permission : Permission]
  BY <1>1 DEF KInv, Fits
<1>3. arg = Bucket(1, arg.key, arg.permission) /\ arg.key \in Key /\ arg.permission \in Permission
  BY <1>2 DEF Bucket
<1>4. count # GrowAt(nbuckets)
  BY <1>1 DEF KInv, Between
<1>. QED BY <1>1, <1>3, <1>4, SetBegins

-----------------------------------------------------------------------------
(* hashmap_clear. *)

\* An array without an item is a map without rules.
LEMMA FreshHolds ==
  ASSUME NEW n \in Nat \ {0, 1}
  PROVE /\ Good(R!Fresh(n), n) /\ R!Used(R!Fresh(n)) = {} /\ R!Items(R!Fresh(n), {}) = {}
        /\ Cardinality(R!Used(R!Fresh(n))) = 0
<1>1. /\ R!Fresh(n) \in R!Table(n) /\ R!Used(R!Fresh(n)) = {} /\ R!Sound(R!Fresh(n), n, {})
      /\ R!Distinct(R!Fresh(n), {}) /\ R!Items(R!Fresh(n), {}) = {}
  BY R!FreshTable
<1>. QED BY <1>1, FS_EmptySet DEF Good

LEMMA ClearCallInv == ASSUME Shape, KInv, ClearCall PROVE KInv'
<1>1. /\ op = "idle" /\ op' \in {"zero", "clear"} /\ count' = 0 /\ nbuckets' \in {nbuckets, Cap}
      /\ UNCHANGED <<buckets, arg, rules>>
  BY DEF ClearCall
<1>2. Between' /\ Setting' /\ Resizing'
  BY <1>1 DEF Between, Setting, Resizing, Rebuilding
<1>3. nbuckets' \in {Cap * n : n \in Nat \ {0}} /\ nbuckets' <= Size(buckets)
  <2>1. Cap = Cap * 1 /\ 1 \in Nat \ {0}
    OBVIOUS
  <2>2. Cap \in {Cap * n : n \in Nat \ {0}}
    BY <2>1
  <2>3. Cap <= Size(buckets) /\ nbuckets <= Size(buckets)
    BY KFacts DEF KInv
  <2>. QED BY <1>1, <2>2, <2>3 DEF KInv, Fits
<1>4. Fits'
  BY <1>1, <1>3 DEF KInv, Fits, Size
<1>. QED BY <1>2, <1>4 DEF KInv

LEMMA ClearFreeInv == ASSUME Shape, KInv, ClearFree PROVE KInv'
<1>1. op = "clear" /\ op' = "renew" /\ UNCHANGED <<buckets, nbuckets, count, arg, rules>>
  BY DEF ClearFree, table
<1>2. Between' /\ Setting' /\ Resizing'
  BY <1>1 DEF KInv, Between, Setting, Resizing, Rebuilding
<1>3. Fits'
  BY <1>1 DEF KInv, Fits, Size
<1>. QED BY <1>2, <1>3 DEF KInv

LEMMA RenewInv == ASSUME Shape, KInv, Renew PROVE KInv'
<1>1. /\ op = "renew" /\ op' = "raw" /\ buckets' = Zeroed(Cap) /\ nbuckets' = Cap
      /\ UNCHANGED <<count, arg, rules>>
  BY DEF Renew
<1>2. Between' /\ Setting' /\ Resizing'
  BY <1>1 DEF KInv, Between, Setting, Resizing, Rebuilding
<1>3. DOMAIN buckets' = 0 .. (Cap - 1) /\ \A b \in 0 .. (Cap - 1) : buckets'[b] = Empty
  BY <1>1 DEF Zeroed
<1>4. Size(buckets') = Cap
  BY <1>3, SizeOf
<1>5. nbuckets' \in {Cap * n : n \in Nat \ {0}}
  <2>1. Cap = Cap * 1 /\ 1 \in Nat \ {0}
    OBVIOUS
  <2>. QED BY <1>1, <2>1
<1>6. Fits'
  <2>1. \A b \in DOMAIN buckets' : buckets'[b] \in Buckets(2 * Size(buckets'))
    BY <1>3 DEF Buckets
  <2>2. nbuckets' <= Size(buckets') /\ Size(buckets') \in Nat /\ DOMAIN buckets' = 0 .. (Size(buckets') - 1)
    BY <1>1, <1>3, <1>4
  <2>. QED BY <1>1, <1>5, <2>1, <2>2 DEF KInv, Fits
<1>. QED BY <1>2, <1>6 DEF KInv

LEMMA ZeroBucketsInv == ASSUME Shape, KInv, ZeroBuckets PROVE KInv'
<1>1. /\ op \in {"zero", "raw"} /\ op' = "remask"
      /\ buckets' = [b \in DOMAIN buckets |-> IF b < nbuckets THEN Empty ELSE buckets[b]]
      /\ UNCHANGED <<nbuckets, count, arg, rules>>
  BY DEF ZeroBuckets
<1>2. /\ nbuckets \in Nat \ {0, 1} /\ 0 .. (nbuckets - 1) \subseteq DOMAIN buckets
      /\ \A b \in 0 .. (nbuckets - 1) : b < nbuckets
  BY KFacts DEF KInv
<1>3. Here' = R!Fresh(nbuckets)
  <2>1. \A b \in 0 .. (nbuckets - 1) : buckets'[b] = Empty /\ Zeroed(nbuckets)[b] = Empty
    BY <1>1, <1>2 DEF Zeroed
  <2>2. Here' = Of(Zeroed(nbuckets), nbuckets)
    BY <1>1, <2>1 DEF Here, Of
  <2>. QED BY <1>2, <2>2, OfZeroed
<1>4. Between' /\ Setting' /\ Resizing'
  BY <1>1, <1>3 DEF KInv, Between, Setting, Resizing, Rebuilding
<1>5. Fits'
  <2>1. /\ DOMAIN buckets' = DOMAIN buckets /\ Size(buckets') = Size(buckets)
        /\ \A b \in DOMAIN buckets : buckets'[b] \in {Empty, buckets[b]}
    BY <1>1 DEF Size
  <2>2. Empty \in Buckets(2 * Size(buckets))
    BY DEF Buckets
  <2>. QED BY <1>1, <2>1, <2>2 DEF KInv, Fits
<1>. QED BY <1>4, <1>5 DEF KInv

LEMMA RemaskInv == ASSUME Shape, KInv, Remask PROVE KInv'
<1>1. /\ op = "remask" /\ op' = "idle" /\ rules' = NoRules
      /\ UNCHANGED <<buckets, nbuckets, count>>
  BY DEF Remask, Return
<1>2. nbuckets \in Nat \ {0, 1} /\ GrowAt(nbuckets) \in Nat /\ count = 0 /\ Here = R!Fresh(nbuckets)
  BY <1>1, KFacts DEF KInv, Between
<1>3. Here' = Here
  BY <1>1 DEF Here
<1>4. /\ Good(Here, nbuckets) /\ R!Items(Here, {}) = {} /\ Cardinality(R!Used(Here)) = 0
  BY <1>2, FreshHolds
<1>5. R!MapOf({}, NoRules)
  BY DEF R!MapOf, NoRules
<1>6. Holds(Here, nbuckets)'
  <2>1. Good(Here, nbuckets)'
    BY <1>1, <1>3, <1>4 DEF Good
  <2>2. R!MapOf(R!Items(Here', {}), rules')
    BY <1>1, <1>3, <1>4, <1>5
  <2>. QED BY <1>1, <1>2, <1>3, <1>4, <2>1, <2>2 DEF Holds, R!MapOf
<1>7. Fits'
  BY <1>1 DEF KInv, Fits, Size, NoRules
<1>8. (count <= GrowAt(nbuckets))'
  BY <1>1, <1>2 DEF GrowAt
<1>. QED BY <1>1, <1>6, <1>7, <1>8, ReturnInv

LEMMA SameTableInv ==
  ASSUME KInv, UNCHANGED <<buckets, nbuckets, count, op, arg, entry, i, new, src, rules>> PROVE KInv'
<1>1. Here' = Here /\ There' = There
  BY DEF Here, There
<1>2. Rest' = Rest
  BY DEF Rest, RestAt
<1>3. Fits'
  BY DEF KInv, Fits, Size
<1>4. Between'
  BY <1>1 DEF KInv, Between, Holds, Good, R!MapOf
<1>5. Setting'
  BY <1>1 DEF KInv, Setting, Coming, Good, Stored, R!MapOf
<1>6. Resizing'
  BY <1>1, <1>2 DEF KInv, Resizing, Rebuilding, Coming, Good, R!MapOf
<1>. QED BY <1>3, <1>4, <1>5, <1>6 DEF KInv

LEMMA InitKInv == ASSUME Init PROVE KInv
<1>1. /\ buckets = Zeroed(Cap) /\ nbuckets = Cap /\ count = 0 /\ op = "idle" /\ rules = NoRules
  BY DEF Init
<1>2. DOMAIN buckets = 0 .. (Cap - 1) /\ \A b \in 0 .. (Cap - 1) : buckets[b] = Empty
  BY <1>1 DEF Zeroed
<1>3. Size(buckets) = Cap
  BY <1>2, SizeOf
<1>4. Fits
  <2>1. Cap = Cap * 1 /\ 1 \in Nat \ {0}
    OBVIOUS
  <2>2. nbuckets \in {Cap * n : n \in Nat \ {0}}
    BY <1>1, <2>1
  <2>3. \A b \in DOMAIN buckets : buckets[b] \in Buckets(2 * Size(buckets))
    BY <1>2 DEF Buckets
  <2>. QED BY <1>1, <1>2, <1>3, <2>2, <2>3 DEF Fits, NoRules
<1>5. Here = R!Fresh(Cap)
  BY <1>1, OfZeroed DEF Here
<1>6. /\ Good(Here, Cap) /\ R!Items(Here, {}) = {} /\ Cardinality(R!Used(Here)) = 0
  BY <1>5, FreshHolds
<1>7. R!MapOf({}, NoRules)
  BY DEF R!MapOf, NoRules
<1>8. Holds(Here, nbuckets)
  BY <1>1, <1>6, <1>7 DEF Holds
<1>9. Between /\ Setting /\ Resizing
  <2>1. GrowAt(Cap) \in Nat
    BY GrowsBelow
  <2>. QED BY <1>1, <1>8, <2>1 DEF Between, Setting, Resizing, Rebuilding
<1>. QED BY <1>4, <1>9 DEF KInv

LEMMA KInvNext == Shape /\ KInv /\ [Next]_vars => KInv'
<1>. SUFFICES ASSUME Shape, KInv, [Next]_vars PROVE KInv'
  OBVIOUS
<1>1. CASE Updating
  BY <1>1, InsertInv, ReplaceInv, SetPassOn, SetPassSwap, ResizeScanInv, MovePassInv, MoveEndInv,
     ResizeFreeInv, ResizeSwapInv, ResizeMaskInv, ClearFreeInv, RenewInv, ZeroBucketsInv, RemaskInv
     DEF Updating
<1>2. ASSUME NEW rule \in Sent, SetCall(rule[1], rule[2]) PROVE KInv'
  BY <1>2, SetCallInv
<1>3. CASE ClearCall
  BY <1>3, ClearCallInv
<1>4. CASE UNCHANGED <<table, update, rules>>
  BY <1>4, SameTableInv DEF table, update
<1>5. ASSUME NEW k \in Key, Begin(k) PROVE UNCHANGED <<table, update, rules>>
  BY <1>5 DEF Begin, Step
<1>6. Looking => UNCHANGED <<table, update, rules>>
  BY DEF Looking, Locate, ReadAstray, Probe, Compare, ReadPermission, Finish, Step
<1>. QED BY <1>1, <1>2, <1>3, <1>4, <1>5, <1>6 DEF Next, vars

LEMMA TableInvariance == Spec => [](Shape /\ KInv)
<1>1. Init => Shape /\ KInv
  BY ShapeInit, InitKInv
<1>2. Shape /\ KInv /\ [Next]_vars => (Shape /\ KInv)'
  BY ShapeNext, KInvNext
<1>. QED BY <1>1, <1>2, PTL DEF Spec

-----------------------------------------------------------------------------
(* What it gives. *)

LEMMA InvTableIsRules == ASSUME Shape, KInv PROVE TableIsRules
<1>. SUFFICES ASSUME op = "idle" PROVE TableIsRules
  BY DEF TableIsRules
<1>. DEFINE used == {b \in 0 .. (nbuckets - 1) : buckets[b].dib # 0}
            keys == {k \in Key : rules[k] # NULL}
<1>1. /\ nbuckets \in Nat \ {0, 1} /\ 2 * Size(buckets) \in Nat \ {0}
      /\ \A b \in 0 .. (nbuckets - 1) : buckets[b] \in Buckets(2 * Size(buckets))
      /\ GrowAt(nbuckets) < nbuckets /\ GrowAt(nbuckets) \in Nat
  BY KFacts DEF KInv
<1>2. /\ Good(Here, nbuckets) /\ R!MapOf(R!Items(Here, {}), rules)
      /\ count = Cardinality(R!Used(Here)) /\ count <= GrowAt(nbuckets)
  BY DEF KInv, Between, Holds
<1>3. /\ R!Distinct(Here, {}) /\ R!Used(Here) = {b \in 0 .. (nbuckets - 1) : Here[b].dib # 0}
      /\ DOMAIN Here = 0 .. (nbuckets - 1) /\ IsFiniteSet(R!Used(Here)) /\ Cardinality(R!Used(Here)) \in Nat
  BY <1>1, <1>2, GoodIs
<1>4. \A b \in 0 .. (nbuckets - 1) :
        /\ Here[b].dib = buckets[b].dib
        /\ buckets[b].dib # 0 => /\ Here[b].item = ItemOf(buckets[b]) /\ Here[b].item.key = buckets[b].key
                                 /\ Here[b].item.value = buckets[b].permission
                                 /\ buckets[b].key \in Key /\ buckets[b].permission \in Permission
  <2>1. \A b \in 0 .. (nbuckets - 1) : Here[b] = As(buckets[b])
    BY DEF Here, Of
  <2>2. \A b \in 0 .. (nbuckets - 1) : ItemOf(buckets[b]) \in R!Item /\ buckets[b].dib # 0 =>
          buckets[b].key \in Key
    BY DEF R!Item, ItemOf
  <2>. QED BY <1>1, <2>1, <2>2, AsIs
<1>5. used = R!Used(Here)
  BY <1>3, <1>4
<1>6. \A b \in used : rules[buckets[b].key] = buckets[b].permission /\ buckets[b].key \in keys
  <2>1. \A b \in used : Here[b].item \in R!Items(Here, {})
    BY <1>5 DEF R!Items
  <2>2. \A b \in used : rules[buckets[b].key] = buckets[b].permission
    BY <1>2, <1>4, <2>1 DEF R!MapOf
  <2>. QED BY <1>4, <2>2, PermissionAssumption
<1>7. \A k \in keys : \E b \in used : buckets[b].key = k
  <2>. SUFFICES ASSUME NEW k \in keys, \A b \in used : buckets[b].key # k PROVE FALSE
    OBVIOUS
  <2>1. \A x \in R!Items(Here, {}) : x.key # k
    BY <1>4, <1>5 DEF R!Items
  <2>. QED BY <1>2, <2>1 DEF R!MapOf
<1>8. \A a \in used, b \in used : buckets[a].key = buckets[b].key => a = b
  BY <1>3, <1>4, <1>5 DEF R!Distinct
<1>9. {<<buckets[b].key, buckets[b].permission>> : b \in used} = {<<k, rules[k]>> : k \in keys}
  <2>1. \A b \in used : \E k \in keys : <<buckets[b].key, buckets[b].permission>> = <<k, rules[k]>>
    BY <1>6
  <2>2. \A k \in keys : \E b \in used : <<k, rules[k]>> = <<buckets[b].key, buckets[b].permission>>
    BY <1>6, <1>7
  <2>. HIDE DEF used, keys
  <2>. QED BY <2>1, <2>2
<1>10. Cardinality(used) = Cardinality(keys)
  <2>. DEFINE f == [b \in used |-> buckets[b].key]
  <2>1. IsFiniteSet(used)
    BY <1>3, <1>5
  <2>2. f \in Surjection(used, keys)
    BY <1>6, <1>7 DEF Surjection
  <2>3. f \in Injection(used, keys)
    BY <1>6, <1>8 DEF Injection, IsInjective
  <2>4. f \in Bijection(used, keys)
    BY <2>2, <2>3 DEF Bijection
  <2>5. ExistsBijection(used, keys)
    BY <2>4 DEF ExistsBijection
  <2>. HIDE DEF used, keys, f
  <2>. QED BY <2>1, <2>5, FS_Bijection
<1>11. count = Cardinality(used) /\ count < nbuckets
  <2>. HIDE DEF used
  <2>1. count = Cardinality(used)
    BY <1>2, <1>5
  <2>2. count \in Nat /\ count < nbuckets
    BY <1>1, <1>2, <1>3
  <2>. QED BY <2>1, <2>2
<1>. QED BY <1>9, <1>10, <1>11 DEF TableIsRules

\* Where a bucket is read, there is a bucket, or one that replaces it.
LEMMA MixedParts ==
  ASSUME NEW b, NEW Other, NEW seen \in Mixed(b, Other)
  PROVE /\ \E x \in {b} \cup Other : seen.dib = x.dib
        /\ \E x \in {b} \cup Other : seen.permission = x.permission
        /\ \/ \E x \in {b} \cup Other : seen.key = x.key
           \/ seen.key = NULL /\ \E x \in Other : x.key # b.key
<1>. DEFINE all == {b} \cup Other
            keys == {x.key : x \in all}
            more == IF Cardinality(keys) > 1 THEN {NULL} ELSE {}
<1>1. seen \in [dib : {x.dib : x \in all}, key : keys \cup more, permission : {x.permission : x \in all}]
  BY DEF Mixed
<1>2. seen.dib \in {x.dib : x \in all} /\ seen.permission \in {x.permission : x \in all}
      /\ seen.key \in keys \cup more
  <2>. HIDE DEF all, keys, more
  <2>. QED BY <1>1
<1>3. (\A x \in Other : x.key = b.key) => more = {}
  <2>. SUFFICES ASSUME \A x \in Other : x.key = b.key PROVE more = {}
    OBVIOUS
  <2>1. keys = {b.key}
    OBVIOUS
  <2>2. Cardinality(keys) = 1
    <3>. HIDE DEF keys
    <3>. QED BY <2>1, FS_Singleton
  <2>3. ~ (Cardinality(keys) > 1)
    <3>. HIDE DEF keys
    <3>. QED BY <2>2
  <2>. QED BY <2>3
<1>4. seen.key \in keys \/ (seen.key = NULL /\ \E x \in Other : x.key # b.key)
  <2>1. more \subseteq {NULL}
    OBVIOUS
  <2>. HIDE DEF keys, more
  <2>. QED BY <1>2, <1>3, <2>1
<1>. QED BY <1>2, <1>4

\* What a bucket is being overwritten with is a bucket.
LEMMA IncomingIs ==
  ASSUME Shape, KInv, NEW b, NEW x \in Incoming(b)
  PROVE x.permission \in Permission
<1>1. ASSUME op = "set", x = entry PROVE x.permission \in Permission
  <2>1. entry \in Buckets(nbuckets) /\ entry.dib # 0 /\ nbuckets \in Nat \ {0}
    BY <1>1, SetFacts
  <2>. QED BY <1>1, <2>1, AsIs
<1>2. ASSUME op = "move", MoveDisplaces, x = new[i] PROVE x.permission \in Permission
  <2>1. /\ i \in 0 .. (2 * nbuckets - 1) /\ buckets[src].dib \in 1 .. (2 * nbuckets)
        /\ new[i] \in Buckets(2 * nbuckets) /\ 2 * nbuckets \in Nat \ {0}
    BY <1>2, MoveFacts, RebuildFacts DEF Rebuilding
  <2>2. new[i].dib # 0
    BY <1>2, <2>1 DEF MoveDisplaces
  <2>. QED BY <1>2, <2>1, <2>2, AsIs
<1>3. ASSUME x = Empty PROVE x.permission \in Permission
  BY <1>3 DEF Empty, Bucket
<1>. QED BY <1>1, <1>2, <1>3 DEF Incoming

LEMMA SeenPermission ==
  ASSUME Shape, KInv, Owned, NEW seen \in Seen PROVE seen.permission \in Permission
<1>1. CASE op = "raw"
  BY <1>1 DEF Seen
<1>2. CASE op # "raw"
  <2>1. seen \in Mixed(buckets[look.i], Incoming(look.i))
    BY <1>2 DEF Seen
  <2>2. PICK x \in {buckets[look.i]} \cup Incoming(look.i) : seen.permission = x.permission
    BY <2>1, MixedParts
  <2>3. CASE x \in Incoming(look.i)
    BY <2>2, <2>3, IncomingIs
  <2>4. CASE x = buckets[look.i]
    <3>1. buckets[look.i] \in Buckets(2 * Size(buckets)) /\ 2 * Size(buckets) \in Nat \ {0}
      BY KFacts DEF Owned, KInv, Fits
    <3>2. buckets[look.i].permission \in Permission
      <4>1. CASE buckets[look.i].dib = 0
        BY <3>1, <4>1, AsIs DEF Empty, Bucket
      <4>2. CASE buckets[look.i].dib # 0
        BY <3>1, <4>2, AsIs
      <4>. QED BY <4>1, <4>2
    <3>. QED BY <2>2, <2>4, <3>2
  <2>. QED BY <2>2, <2>3, <2>4
<1>. QED BY <1>1, <1>2

LookOK ==
  /\ look.at \in {"idle", "locate", "probe", "compare", "permission", "done", "astray"}
  /\ look.at = "idle" <=> look.key = NULL
  /\ look.key \in Key \cup {NULL}
  /\ look.answer \in Permission \cup {NULL}
  /\ look.at \in {"locate", "probe", "compare", "permission"} => look.answer = NULL
  /\ Lookup

LEMMA LookOKNext == Shape /\ KInv /\ LookOK /\ [Next]_vars => LookOK'
<1>. SUFFICES ASSUME Shape, KInv, LookOK, [Next]_vars PROVE LookOK'
  OBVIOUS
<1>1. ASSUME UNCHANGED look PROVE LookOK'
  BY <1>1 DEF LookOK, Lookup
<1>2. ASSUME look.at # "idle",
             NEW at \in {"locate", "probe", "compare", "permission", "done", "astray"},
             NEW j, NEW m, NEW base, NEW answer \in Permission \cup {NULL},
             at \in {"done", "astray"} \/ answer = NULL,
             look' = [at |-> at, key |-> look.key, i |-> j, mask |-> m, base |-> base, answer |-> answer]
      PROVE LookOK'
  BY <1>2 DEF LookOK, Lookup
<1>3. FreeBuckets => LookOK'
  BY DEF FreeBuckets, LookOK, Lookup
<1>4. ASSUME NEW k \in Key, Begin(k) PROVE LookOK'
  BY <1>4, PermissionAssumption DEF Begin, Step, NoLookup, LookOK, Lookup
<1>5. CASE Locate
  <2>1. PICK base : look' = [look EXCEPT !.at = "probe", !.base = base]
    BY <1>5 DEF Locate, Step
  <2>2. look' = [at |-> "probe", key |-> look.key, i |-> look.i, mask |-> look.mask, base |-> base,
                 answer |-> look.answer]
    BY <2>1 DEF LookOK, Lookup
  <2>3. look.at # "idle" /\ look.answer = NULL
    BY <1>5 DEF Locate, LookOK
  <2>. QED BY <1>2, <2>2, <2>3
<1>6. CASE ReadAstray \/ Probe
  <2>1. PICK at \in {"compare", "done", "astray"} : look' = [look EXCEPT !.at = at]
    BY <1>6 DEF ReadAstray, Probe, Step
  <2>2. look' = [at |-> at, key |-> look.key, i |-> look.i, mask |-> look.mask, base |-> look.base,
                 answer |-> look.answer]
    BY <2>1 DEF LookOK, Lookup
  <2>3. look.at # "idle" /\ look.answer = NULL
    BY <1>6 DEF ReadAstray, Probe, LookOK
  <2>. QED BY <1>2, <2>1, <2>2, <2>3
<1>7. CASE Compare
  <2>1. look.at # "idle" /\ look.answer = NULL
    BY <1>7 DEF Compare, LookOK
  <2>2. CASE look' = [look EXCEPT !.at = "permission"]
    <3>1. look' = [at |-> "permission", key |-> look.key, i |-> look.i, mask |-> look.mask,
                   base |-> look.base, answer |-> look.answer]
      BY <2>2 DEF LookOK, Lookup
    <3>. QED BY <1>2, <2>1, <3>1
  <2>3. ASSUME NEW m, look' = [look EXCEPT !.at = "locate", !.i = After(@, m), !.mask = m]
        PROVE LookOK'
    <3>1. look' = [at |-> "locate", key |-> look.key, i |-> After(look.i, m), mask |-> m,
                   base |-> look.base, answer |-> look.answer]
      BY <2>3 DEF LookOK, Lookup
    <3>. QED BY <1>2, <2>1, <3>1
  <2>. QED BY <1>7, <2>2, <2>3 DEF Compare, Step
<1>8. CASE ReadPermission
  <2>1. PICK seen \in Seen : look' = [look EXCEPT !.at = "done", !.answer = seen.permission]
    BY <1>8 DEF ReadPermission, Step
  <2>2. seen.permission \in Permission \cup {NULL} /\ look.at # "idle"
    BY <1>8, SeenPermission DEF ReadPermission
  <2>3. look' = [at |-> "done", key |-> look.key, i |-> look.i, mask |-> look.mask,
                 base |-> look.base, answer |-> seen.permission]
    BY <2>1 DEF LookOK, Lookup
  <2>. QED BY <1>2, <2>2, <2>3
<1>9. CASE Finish
  BY <1>9 DEF Finish, Step, NoLookup, LookOK, Lookup
<1>10. ASSUME NEW rule \in Sent, SetCall(rule[1], rule[2]) PROVE LookOK'
  BY <1>1, <1>10 DEF SetCall
<1>11. ClearCall => UNCHANGED look
  BY DEF ClearCall
<1>12. Updating => UNCHANGED look \/ FreeBuckets
  BY DEF Updating, Insert, Replace, SetPass, ResizeScan, MovePass, MoveEnd, ResizeFree, ResizeSwap,
         ResizeMask, ClearFree, Renew, ZeroBuckets, Remask
<1>. QED BY <1>1, <1>3, <1>4, <1>5, <1>6, <1>7, <1>8, <1>9, <1>10, <1>11, <1>12
         DEF Next, Looking, vars

LEMMA InvTypeOK == ASSUME Shape, KInv, LookOK PROVE TypeOK
<1>1. nbuckets \in {Cap * n : n \in 1 .. Size(buckets)} /\ nbuckets <= Size(buckets)
  <2>1. PICK n \in Nat \ {0} : nbuckets = Cap * n
    BY DEF KInv, Fits
  <2>2. n <= Cap * n /\ nbuckets <= Size(buckets) /\ Size(buckets) \in Nat /\ nbuckets \in Nat
    BY Multiple, KFacts DEF KInv
  <2>3. n \in 1 .. Size(buckets)
    BY <2>1, <2>2
  <2>. QED BY <2>1, <2>2, <2>3
<1>2. op = "set" => i \in 0 .. mask
  <2>. SUFFICES ASSUME op = "set" PROVE i \in 0 .. mask
    OBVIOUS
  <2>1. i \in 0 .. (nbuckets - 1) /\ mask = nbuckets - 1
    BY SetFacts DEF Shape
  <2>. QED BY <2>1
<1>3. /\ op \in {"idle", "set", "resize", "move", "swap", "mask",
                 "clear", "renew", "raw", "zero", "remask"}
      /\ op \in {"idle", "set", "resize", "move"} => mask = nbuckets - 1
  BY DEF Shape, Exchange
<1>4. \A b \in DOMAIN buckets : buckets[b] \in Buckets(2 * Size(buckets))
  BY DEF KInv, Fits
<1>. QED BY <1>1, <1>2, <1>3, <1>4 DEF TypeOK, LookOK

(***************************************************************************)
(* TableSound, for any paths, permissions, hash values and cap: in each    *)
(* round of hashmap_set, resize and hashmap_clear the buckets fit their    *)
(* array, with no distance beyond its end, and between calls they hold the *)
(* rules stored since the last clear, each once, with a free one left.     *)
(***************************************************************************)
THEOREM TableAlwaysSound == Spec => []TableSound
<1>1. Init => Shape /\ KInv /\ LookOK
  <2>1. Init => LookOK
    BY PermissionAssumption DEF Init, NoLookup, LookOK, Lookup
  <2>. QED BY <2>1, ShapeInit, InitKInv
<1>2. Shape /\ KInv /\ LookOK /\ [Next]_vars => (Shape /\ KInv /\ LookOK)'
  BY ShapeNext, KInvNext, LookOKNext
<1>3. Shape /\ KInv /\ LookOK => TableSound
  BY InvTypeOK, InvTableIsRules DEF TableSound
<1>. QED BY <1>1, <1>2, <1>3, PTL DEF Spec

-----------------------------------------------------------------------------
(* The answer of a lookup. *)

\* While the buckets are zeroed they hold the rules until then.
Zeroing ==
  op = "zero" /\ mask = nbuckets - 1 =>
    \A b \in 0 .. mask : buckets[b].dib # 0 => rules[buckets[b].key] = buckets[b].permission

Quiet == {"nothing", "store", "clear"}

\* The bucket of the path is not behind the lookup.
Ahead == \E b \in 0 .. mask :
           /\ buckets[b].key = look.key
           /\ R!Behind(look.i, Home(look.key, mask), nbuckets) < buckets[b].dib

\* The permission is that of the path, or it is half copied, or was zeroed.
AtKey == \/ buckets[look.i].key = look.key
         \/ /\ met # "nothing" /\ buckets[look.i].dib = 0
            /\ met = "store" => op = "set" /\ i = look.i /\ entry.key = look.key

Right == look.answer \in had \cup (IF met = "nothing" THEN {} ELSE {Zero})

Answering ==
  IF look.at = "idle" THEN met = "nothing" /\ had = {}
  ELSE met \in Quiet =>
         /\ Having \subseteq had /\ Doing \in {"nothing", met}
         /\ look.at \in {"locate", "probe", "compare"} => NULL \in had \/ Ahead
         /\ look.at = "permission" => AtKey
         /\ look.at = "done" => Right

\* A lookup that is wrong at no time so far.
LEMMA QuietOps ==
  ASSUME Shape, Doing \in Quiet
  PROVE /\ op \in {"idle", "set", "zero", "remask"} /\ mask = nbuckets - 1
        /\ op = "idle" => Doing = "nothing"
        /\ op = "set" => Doing = "store" /\ entry.key = arg.key /\ ~Displaces
        /\ op \in {"zero", "remask"} => Doing = "clear"
<1>1. Doing # "array"
  BY DEF Quiet
<1>2. op \notin Exchange /\ mask = nbuckets - 1
  BY <1>1, MaskInside
<1>3. op \in {"idle", "set", "zero", "remask"}
  BY <1>2 DEF Shape
<1>4. op = "set" => Doing = "store" /\ entry.key = arg.key /\ ~Displaces
  BY DEF Doing, Quiet
<1>. QED BY <1>2, <1>3, <1>4 DEF Doing

\* What a step does to a lookup that was and is right.
LEMMA QuietStep ==
  ASSUME Watch, look'.at # "idle", met' \in Quiet
  PROVE /\ met \in {"nothing", met'} /\ Doing' \in {"nothing", met'}
        /\ had' = had \cup Having'
<1>1. met' = Both(met, Doing') /\ had' = had \cup Having'
  BY DEF Watch, Quiet
<1>. QED BY <1>1 DEF Both, Quiet

\* A bucket that the lookup may read, while the array is not exchanged.
LEMMA BucketIs ==
  ASSUME Shape, KInv, Doing \in Quiet, NEW b \in 0 .. mask
  PROVE /\ b \in 0 .. (nbuckets - 1) /\ b \in DOMAIN buckets
        /\ buckets[b].dib \in Nat /\ (buckets[b].dib = 0 => buckets[b] = Empty)
        /\ buckets[b].dib # 0 => buckets[b].key \in Key /\ buckets[b].permission \in Permission
        /\ buckets[b].key \in Key => buckets[b].dib # 0
        /\ Here[b].dib = buckets[b].dib
        /\ buckets[b].dib # 0 => /\ Here[b].item.key = buckets[b].key
                                 /\ Here[b].item.value = buckets[b].permission
<1>1. b \in 0 .. (nbuckets - 1) /\ b \in DOMAIN buckets
  <2>1. mask = nbuckets - 1 /\ 0 .. (nbuckets - 1) \subseteq DOMAIN buckets
    BY QuietOps DEF Shape
  <2>. QED BY <2>1
<1>2. buckets[b] \in Buckets(2 * Size(buckets)) /\ 2 * Size(buckets) \in Nat \ {0}
  BY <1>1, KFacts DEF KInv
<1>3. Here[b] = As(buckets[b])
  BY <1>1 DEF Here, Of
<1>4. /\ buckets[b].dib \in Nat /\ (buckets[b].dib = 0 => buckets[b] = Empty)
      /\ Here[b].dib = buckets[b].dib
      /\ buckets[b].dib # 0 => /\ Here[b].item.key = buckets[b].key
                               /\ Here[b].item.value = buckets[b].permission
                               /\ ItemOf(buckets[b]) \in R!Item
  BY <1>2, <1>3, AsIs
<1>5. buckets[b].dib # 0 => buckets[b].key \in Key /\ buckets[b].permission \in Permission
  <2>. SUFFICES ASSUME buckets[b].dib # 0 PROVE buckets[b].key \in Key /\ buckets[b].permission \in Permission
    OBVIOUS
  <2>1. buckets[b] \in [dib : 1 .. (2 * Size(buckets)), key : Key, permission : Permission]
    BY <1>2, AsIs
  <2>. QED BY <2>1
<1>6. buckets[b].key \in Key => buckets[b].dib # 0
  BY <1>4 DEF Empty, Bucket
<1>. QED BY <1>1, <1>4, <1>5, <1>6

\* The rules in the table are those that were stored.
LEMMA Told ==
  ASSUME Shape, KInv, Zeroing, Doing \in Quiet, NEW b \in 0 .. mask, buckets[b].dib # 0
  PROVE rules[buckets[b].key] = buckets[b].permission
<1>1. /\ b \in 0 .. (nbuckets - 1) /\ Here[b].dib # 0 /\ nbuckets \in Nat \ {0, 1}
      /\ Here[b].item.key = buckets[b].key /\ Here[b].item.value = buckets[b].permission
  BY BucketIs, KFacts DEF KInv
<1>2. ASSUME R!MapOf(R!Items(Here, {}), rules) PROVE rules[buckets[b].key] = buckets[b].permission
  <2>1. b \in R!Used(Here)
    BY <1>1 DEF R!Used, Here, Of
  <2>2. Here[b].item \in R!Items(Here, {})
    BY <2>1 DEF R!Items
  <2>. QED BY <1>1, <1>2, <2>2 DEF R!MapOf
<1>3. CASE op = "idle"
  BY <1>2, <1>3 DEF KInv, Between, Holds
<1>4. CASE op = "set"
  BY <1>2, <1>4, QuietOps DEF KInv, Setting
<1>5. CASE op = "zero"
  BY <1>5, QuietOps DEF Zeroing
<1>6. CASE op = "remask"
  <2>1. Here = R!Fresh(nbuckets)
    BY <1>6 DEF KInv, Between
  <2>2. Here[b].dib = 0
    BY <1>1, <2>1 DEF R!Fresh, R!Empty
  <2>. QED BY <1>1, <2>2
<1>. QED BY <1>3, <1>4, <1>5, <1>6, QuietOps

\* A rule that is stored is in the table, on the way from its home.
LEMMA RuleAhead ==
  ASSUME Shape, KInv, Doing \in Quiet, op \in {"idle", "set"}, NEW k \in Key, rules[k] # NULL
  PROVE \E b \in 0 .. mask : /\ buckets[b].key = k
                             /\ R!Behind(Home(k, mask), Home(k, mask), nbuckets) < buckets[b].dib
<1>1. Good(Here, nbuckets) /\ R!MapOf(R!Items(Here, {}), rules)
  BY QuietOps DEF KInv, Between, Holds, Setting
<1>2. PICK x \in R!Items(Here, {}) : x.key = k
  BY <1>1 DEF R!MapOf
<1>3. PICK b \in R!Used(Here) : Here[b].item.key = k
  BY <1>2 DEF R!Items
<1>4. nbuckets \in Nat \ {0, 1} /\ b \in 0 .. (nbuckets - 1) /\ Here[b].dib # 0 /\ mask = nbuckets - 1
  BY <1>1, GoodIs, KFacts, QuietOps DEF KInv
<1>5. b \in 0 .. mask
  BY <1>4
<1>6. buckets[b].dib # 0 /\ buckets[b].dib \in Nat /\ buckets[b].key = k
  BY <1>3, <1>4, <1>5, BucketIs
<1>7. R!Behind(Home(k, mask), Home(k, mask), nbuckets) = 0
  <2>1. Home(k, mask) \in 0 .. mask
    BY <1>4, ModRange, HashAssumption DEF Home
  <2>. QED BY <1>4, <2>1 DEF R!Behind
<1>. QED BY <1>5, <1>6, <1>7

\* The next bucket, while the rule is ahead and the buckets are not zeroed.
LEMMA LookOn ==
  ASSUME Shape, KInv, Doing \in Quiet, op \in {"idle", "set"}, look.i \in 0 .. mask, look.key \in Key,
         NEW b \in 0 .. mask, buckets[b].key = look.key,
         R!Behind(look.i, Home(look.key, mask), nbuckets) < buckets[b].dib
  PROVE /\ buckets[look.i].dib # 0
        /\ b # look.i => R!Behind(After(look.i, mask), Home(look.key, mask), nbuckets) < buckets[b].dib
<1>1. /\ nbuckets \in Nat \ {0, 1} /\ mask = nbuckets - 1 /\ Good(Here, nbuckets)
  BY KFacts, QuietOps DEF KInv, Between, Holds, Setting
<1>2. Here \in R!Table(nbuckets) /\ R!Sound(Here, nbuckets, {})
  BY <1>1 DEF Good
<1>3. /\ Home(look.key, mask) = R!Home(look.key, nbuckets) /\ After(look.i, mask) = R!After(look.i, nbuckets)
  BY <1>1, SameHome, SameAfter
<1>4. /\ b \in 0 .. (nbuckets - 1) /\ Here[b].dib = buckets[b].dib /\ Here[b].dib # 0
      /\ Here[b].item.key = look.key
      /\ look.i \in 0 .. (nbuckets - 1) /\ Here[look.i].dib = buckets[look.i].dib
  BY BucketIs
<1>5. R!Behind(look.i, R!Home(look.key, nbuckets), nbuckets) < Here[b].dib
  BY <1>3, <1>4
<1>6. /\ Here[look.i].dib # 0
      /\ b # look.i => R!Behind(R!After(look.i, nbuckets), R!Home(look.key, nbuckets), nbuckets) < Here[b].dib
  BY <1>1, <1>2, <1>4, <1>5, R!SearchAhead
<1>. QED BY <1>3, <1>4, <1>6

LEMMA ZeroingNext == Shape /\ KInv /\ Zeroing /\ [Next]_vars => Zeroing'
<1>. SUFFICES ASSUME Shape, KInv, Zeroing, [Next]_vars, op' = "zero", mask' = nbuckets' - 1
              PROVE \A b \in 0 .. mask' : buckets'[b].dib # 0 => rules'[buckets'[b].key] = buckets'[b].permission
  BY DEF Zeroing
<1>1. CASE ClearCall
  <2>1. op = "idle" /\ mask = nbuckets - 1 /\ UNCHANGED <<buckets, mask, rules>>
    BY <1>1 DEF ClearCall, Shape
  <2>2. Doing \in Quiet
    BY <2>1 DEF Doing, Quiet
  <2>. QED BY <2>1, <2>2, Told
<1>2. CASE UNCHANGED <<table, update, rules>>
  BY <1>2 DEF table, update, Zeroing
<1>3. ASSUME NEW k \in Key, Begin(k) PROVE UNCHANGED <<table, update, rules>>
  BY <1>3 DEF Begin, Step
<1>4. Looking => UNCHANGED <<table, update, rules>>
  BY DEF Looking, Locate, ReadAstray, Probe, Compare, ReadPermission, Finish, Step
<1>5. ~Updating
  BY DEF Updating, Insert, Replace, SetPass, ResizeScan, MovePass, MoveEnd, ResizeFree, ResizeSwap,
         ResizeMask, StartSet, ClearFree, Renew, ZeroBuckets, Remask, Return
<1>6. ASSUME NEW rule \in Sent PROVE ~SetCall(rule[1], rule[2])
  BY DEF SetCall, StartSet
<1>. QED BY <1>1, <1>2, <1>3, <1>4, <1>5, <1>6 DEF Next, vars

AInv == IInv /\ KInv /\ Zeroing /\ LookOK /\ Answering

\* What a bucket is being overwritten with: an item that is stored in it, or nothing.
LEMMA IncomingQuiet ==
  ASSUME Shape, KInv, Doing \in Quiet, NEW b, NEW x \in Incoming(b)
  PROVE \/ /\ op = "set" /\ b = i /\ x = entry /\ (buckets[b].dib = 0 \/ buckets[b].key = entry.key)
           /\ entry.dib # 0 /\ entry.key = arg.key /\ entry.permission = arg.permission
           /\ Doing = "store"
        \/ op = "zero" /\ x = Empty /\ Doing = "clear"
<1>1. op \in {"idle", "set", "zero", "remask"}
  BY QuietOps
<1>2. CASE op = "set"
  <2>1. entry.dib # 0 /\ entry.key = arg.key /\ Doing = "store" /\ ~Displaces
    BY <1>2, QuietOps, SetFacts
  <2>2. entry.permission = arg.permission
    BY <1>2, <2>1 DEF KInv, Setting
  <2>3. b = i /\ x = entry /\ (buckets[b].dib = 0 \/ buckets[b].key = entry.key)
    BY <1>2, <2>1 DEF Incoming, Replaces
  <2>. QED BY <1>2, <2>1, <2>2, <2>3
<1>3. CASE op = "zero"
  BY <1>3, QuietOps DEF Incoming
<1>4. CASE op \in {"idle", "remask"}
  BY <1>4 DEF Incoming
<1>. QED BY <1>1, <1>2, <1>3, <1>4

LEMMA SeenParts ==
  ASSUME Shape, Doing \in Quiet, NEW seen \in Seen
  PROVE /\ \E x \in {buckets[look.i]} \cup Incoming(look.i) : seen.dib = x.dib
        /\ \E x \in {buckets[look.i]} \cup Incoming(look.i) : seen.permission = x.permission
        /\ \/ \E x \in {buckets[look.i]} \cup Incoming(look.i) : seen.key = x.key
           \/ seen.key = NULL /\ \E x \in Incoming(look.i) : x.key # buckets[look.i].key
<1>1. seen \in Mixed(buckets[look.i], Incoming(look.i))
  BY QuietOps DEF Seen
<1>. QED BY <1>1, MixedParts

\* A step of a lookup that was and is right.
LEMMA LookFacts ==
  ASSUME AInv, Watch, look.at # "idle", look'.at # "idle", met' \in Quiet,
         UNCHANGED <<table, update, rules>>, look'.key = look.key
  PROVE /\ Shape /\ KInv /\ Zeroing /\ Doing \in Quiet /\ Doing \in {"nothing", met}
        /\ met \in {"nothing", met'} /\ Doing \in {"nothing", met'}
        /\ Having \subseteq had /\ had \subseteq had' /\ Having' \subseteq had' /\ Doing' \in {"nothing", met'}
        /\ look.i \in 0 .. mask /\ look.mask = mask /\ look.key \in Key
        /\ rules[look.key] \in had /\ (arg.key = look.key => arg.permission \in had)
        /\ op \in {"zero", "remask"} => NULL \in had
        /\ look.at \in {"locate", "probe", "compare"} => NULL \in had \/ Ahead
        /\ look.at = "permission" => AtKey
        /\ UNCHANGED <<buckets, nbuckets, mask, op, i, entry>>
<1>1. /\ met \in {"nothing", met'} /\ Doing' \in {"nothing", met'} /\ had' = had \cup Having'
  BY QuietStep
<1>2. UNCHANGED <<buckets, nbuckets, mask, count, op, arg, entry, i>>
  BY DEF table, update
<1>3. Doing' = Doing
  BY <1>2 DEF Doing, Displaces
<1>4. met \in Quiet
  BY <1>1 DEF Quiet
<1>5. /\ Having \subseteq had /\ Doing \in {"nothing", met}
      /\ look.at \in {"locate", "probe", "compare"} => NULL \in had \/ Ahead
      /\ look.at = "permission" => AtKey
  BY <1>4 DEF AInv, Answering
<1>6. InBounds
  BY <1>4 DEF AInv, IInv, Inside, Quiet
<1>7. look.key \in Key
  BY DEF AInv, LookOK
<1>8. Doing \in Quiet
  BY <1>4, <1>5 DEF Quiet
<1>9. /\ rules[look.key] \in had /\ (arg.key = look.key => arg.permission \in had)
      /\ op \in {"zero", "remask"} => NULL \in had
  BY <1>5 DEF Having
<1>. QED BY <1>1, <1>2, <1>3, <1>5, <1>6, <1>7, <1>8, <1>9 DEF AInv, IInv, InBounds

\* Answering after a step, from what it says of where the lookup is.
LEMMA AnsweringThen ==
  ASSUME Watch,
         look'.at # "idle" /\ met' \in Quiet =>
           /\ look'.at \in {"locate", "probe", "compare"} => NULL \in had' \/ Ahead'
           /\ look'.at = "permission" => AtKey'
           /\ look'.at = "done" => Right'
  PROVE Answering'
<1>1. CASE look'.at = "idle"
  BY <1>1 DEF Watch, Answering
<1>2. CASE look'.at # "idle" /\ met' \in Quiet
  BY <1>2, QuietStep DEF Answering
<1>3. CASE look'.at # "idle" /\ met' \notin Quiet
  BY <1>3 DEF Answering
<1>. QED BY <1>1, <1>2, <1>3

LEMMA BeginAnswers == ASSUME AInv, Watch, NEW k \in Key, Begin(k) PROVE Answering'
<1>1. /\ look' = [NoLookup EXCEPT !.at = "locate", !.key = k, !.i = Home(k, mask), !.mask = mask]
      /\ UNCHANGED <<table, update, rules>>
  BY DEF Begin, Step
<1>2. look'.at = "locate" /\ look'.key = k /\ look'.i = Home(k, mask)
  BY <1>1 DEF NoLookup
<1>3. UNCHANGED <<buckets, nbuckets, mask, count, op, arg, entry, i, rules>>
  BY <1>1 DEF table, update
<1>. SUFFICES ASSUME met' \in Quiet PROVE NULL \in had' \/ Ahead'
  BY <1>2, AnsweringThen
<1>4. had' = had \cup Having' /\ Doing' \in {"nothing", met'} /\ Doing' = Doing
  BY <1>2, <1>3, QuietStep DEF Doing, Displaces
<1>5. Doing \in Quiet /\ Shape /\ KInv
  BY <1>4 DEF Quiet, AInv, IInv
<1>6. rules[k] \in had' /\ (op \in {"zero", "remask"} => NULL \in had')
  BY <1>2, <1>3, <1>4 DEF Having
<1>7. CASE rules[k] # NULL /\ op \in {"idle", "set"}
  BY <1>2, <1>3, <1>5, <1>7, RuleAhead DEF Ahead
<1>. QED BY <1>5, <1>6, <1>7, QuietOps

LEMMA LocateAnswers == ASSUME AInv, Watch, Locate PROVE Answering'
<1>1. PICK base : look' = [look EXCEPT !.at = "probe", !.base = base]
  BY DEF Locate, Step
<1>2. look.at = "locate" /\ UNCHANGED <<table, update, rules>>
  BY DEF Locate, Step
<1>3. look'.at = "probe" /\ look'.key = look.key /\ look'.i = look.i
  BY <1>1 DEF AInv, IInv, Lookup
<1>. SUFFICES ASSUME met' \in Quiet PROVE NULL \in had' \/ Ahead'
  BY <1>3, AnsweringThen
<1>4. /\ had \subseteq had' /\ (NULL \in had \/ Ahead) /\ UNCHANGED <<buckets, nbuckets, mask>>
  BY <1>2, <1>3, LookFacts
<1>. QED BY <1>3, <1>4 DEF Ahead

LEMMA ReadAstrayAnswers == ASSUME AInv, Watch, ReadAstray PROVE Answering'
<1>1. look'.at = "astray"
  BY DEF ReadAstray, Step, AInv, IInv, Lookup
<1>. QED BY <1>1, AnsweringThen

LEMMA ProbeAnswers == ASSUME AInv, Watch, Probe PROVE Answering'
<1>1. PICK seen \in Seen : look' = [look EXCEPT !.at = IF seen.dib = 0 THEN "done" ELSE "compare"]
  BY DEF Probe, Step
<1>2. look.at = "probe" /\ UNCHANGED <<table, update, rules>> /\ look.answer = NULL
  BY DEF Probe, Step, AInv, LookOK
<1>3. /\ look'.at = IF seen.dib = 0 THEN "done" ELSE "compare"
      /\ look'.key = look.key /\ look'.i = look.i /\ look'.answer = NULL
  BY <1>1, <1>2 DEF AInv, IInv, Lookup
<1>. SUFFICES ASSUME met' \in Quiet, look'.at # "idle"
              PROVE /\ seen.dib # 0 => NULL \in had' \/ Ahead'
                    /\ seen.dib = 0 => NULL \in had'
  BY <1>3, AnsweringThen DEF Right
<1>4. /\ Shape /\ KInv /\ Doing \in Quiet /\ had \subseteq had' /\ (NULL \in had \/ Ahead)
      /\ UNCHANGED <<buckets, nbuckets, mask>> /\ look.i \in 0 .. mask /\ look.key \in Key
      /\ op \in {"zero", "remask"} => NULL \in had
  BY <1>2, <1>3, LookFacts
<1>5. ASSUME Ahead, op \in {"idle", "set"} PROVE seen.dib # 0
  <2>1. buckets[look.i].dib # 0
    BY <1>4, <1>5, LookOn DEF Ahead
  <2>2. PICK x \in {buckets[look.i]} \cup Incoming(look.i) : seen.dib = x.dib
    BY <1>4, SeenParts
  <2>3. CASE x \in Incoming(look.i)
    BY <1>4, <1>5, <2>2, <2>3, IncomingQuiet
  <2>. QED BY <2>1, <2>2, <2>3
<1>. QED BY <1>3, <1>4, <1>5, QuietOps DEF Ahead

\* The key of the path, and no other, is read where its bucket is.
LEMMA KeySeen ==
  ASSUME Shape, KInv, Doing \in Quiet, op \in {"idle", "set"}, look.i \in 0 .. mask, look.key \in Key,
         buckets[look.i].key = look.key, NEW seen \in Seen
  PROVE seen.key = look.key
<1>1. buckets[look.i].dib # 0
  BY BucketIs
<1>2. \A x \in Incoming(look.i) : x.key = look.key
  BY <1>1, IncomingQuiet
<1>. QED BY <1>2, SeenParts

LEMMA CompareAnswers == ASSUME AInv, Watch, Compare PROVE Answering'
<1>0. look.at = "compare" /\ UNCHANGED <<table, update, rules>> /\ Lookup
  BY DEF Compare, Step, AInv, IInv
<1>1. PICK seen \in Seen :
        \/ seen.key = look.key /\ look' = [look EXCEPT !.at = "permission"]
        \/ /\ seen.key # look.key
           /\ \E m \in {mask, look.mask} : look' = [look EXCEPT !.at = "locate", !.i = After(@, m), !.mask = m]
  BY DEF Compare, Step
<1>2. look'.key = look.key /\ look'.at \in {"permission", "locate"}
  BY <1>0, <1>1 DEF Lookup
<1>. SUFFICES ASSUME met' \in Quiet
              PROVE /\ look'.at = "permission" => AtKey'
                    /\ look'.at = "locate" => NULL \in had' \/ Ahead'
  BY <1>2, AnsweringThen
<1>3. /\ Shape /\ KInv /\ Doing \in Quiet /\ had \subseteq had' /\ (NULL \in had \/ Ahead)
      /\ UNCHANGED <<buckets, nbuckets, mask, op, i, entry>> /\ look.i \in 0 .. mask
      /\ look.mask = mask /\ look.key \in Key
      /\ op \in {"zero", "remask"} => NULL \in had
      /\ Doing \in {"nothing", met'}
  BY <1>0, <1>2, LookFacts
<1>4. CASE seen.key = look.key /\ look' = [look EXCEPT !.at = "permission"]
  <2>1. look'.i = look.i /\ look'.at = "permission"
    BY <1>0, <1>4 DEF Lookup
  <2>2. look.key # NULL
    BY <1>3, PermissionAssumption
  <2>3. PICK x \in {buckets[look.i]} \cup Incoming(look.i) : seen.key = x.key
    BY <1>3, <1>4, <2>2, SeenParts
  <2>4. CASE x = buckets[look.i]
    BY <1>2, <1>3, <1>4, <2>1, <2>3, <2>4 DEF AtKey
  <2>5. CASE x \in Incoming(look.i)
    <3>1. /\ op = "set" /\ look.i = i /\ x = entry /\ Doing = "store"
          /\ buckets[look.i].dib = 0 \/ buckets[look.i].key = entry.key
      BY <1>3, <1>4, <2>2, <2>3, <2>5, IncomingQuiet DEF Empty, Bucket
    <3>2. met' = "store"
      BY <1>3, <3>1
    <3>. QED BY <1>2, <1>3, <1>4, <2>1, <2>3, <3>1, <3>2 DEF AtKey
  <2>. QED BY <2>1, <2>3, <2>4, <2>5
<1>5. ASSUME seen.key # look.key, NEW m \in {mask, look.mask},
             look' = [look EXCEPT !.at = "locate", !.i = After(@, m), !.mask = m]
      PROVE look'.at = "locate" /\ (NULL \in had' \/ Ahead')
  <2>0. look'.at = "locate" /\ look'.i = After(look.i, m) /\ m = mask
    BY <1>0, <1>3, <1>5 DEF Lookup
  <2>1. look'.at = "locate" /\ look'.i = After(look.i, mask)
    BY <2>0
  <2>2. ASSUME op \in {"idle", "set"}, Ahead PROVE Ahead'
    <3>1. PICK b \in 0 .. mask :
            /\ buckets[b].key = look.key
            /\ R!Behind(look.i, Home(look.key, mask), nbuckets) < buckets[b].dib
      BY <2>2 DEF Ahead
    <3>2. b # look.i
      <4>. SUFFICES ASSUME buckets[look.i].key = look.key PROVE FALSE
        BY <3>1
      <4>1. seen.key = look.key
        BY <1>3, <2>2, KeySeen
      <4>. QED BY <1>5, <4>1
    <3>3. R!Behind(After(look.i, mask), Home(look.key, mask), nbuckets) < buckets[b].dib
      BY <1>3, <2>2, <3>1, <3>2, LookOn
    <3>4. /\ Home(look'.key, mask') = Home(look.key, mask) /\ mask' = mask /\ nbuckets' = nbuckets
          /\ buckets' = buckets /\ look'.key = look.key /\ look'.i = After(look.i, mask)
      BY <1>2, <1>3, <2>1
    <3>. QED BY <3>1, <3>3, <3>4 DEF Ahead
  <2>. QED BY <1>3, <2>1, <2>2, QuietOps
<1>. QED BY <1>1, <1>4, <1>5

LEMMA ReadPermissionAnswers == ASSUME AInv, Watch, ReadPermission PROVE Answering'
<1>1. PICK seen \in Seen : look' = [look EXCEPT !.at = "done", !.answer = seen.permission]
  BY DEF ReadPermission, Step
<1>2. look.at = "permission" /\ UNCHANGED <<table, update, rules>>
  BY DEF ReadPermission, Step
<1>3. look'.at = "done" /\ look'.key = look.key /\ look'.answer = seen.permission
  BY <1>1 DEF AInv, IInv, Lookup
<1>. SUFFICES ASSUME met' \in Quiet PROVE Right'
  BY <1>3, AnsweringThen
<1>4. /\ Shape /\ KInv /\ Zeroing /\ Doing \in Quiet /\ had \subseteq had' /\ AtKey
      /\ look.i \in 0 .. mask /\ look.key \in Key /\ rules[look.key] \in had
      /\ arg.key = look.key => arg.permission \in had
      /\ met \in {"nothing", met'} /\ Doing \in {"nothing", met}
  BY <1>2, <1>3, LookFacts
<1>5. PICK x \in {buckets[look.i]} \cup Incoming(look.i) : seen.permission = x.permission
  BY <1>4, SeenParts
<1>6. buckets[look.i].dib = 0 => buckets[look.i].permission = Zero
  BY <1>4, BucketIs DEF Empty, Bucket
<1>7. CASE x = buckets[look.i]
  <2>1. CASE buckets[look.i].key = look.key
    <3>1. buckets[look.i].dib # 0
      BY <1>4, <2>1, BucketIs
    <3>2. rules[look.key] = seen.permission
      BY <1>4, <1>5, <1>7, <2>1, <3>1, Told
    <3>. QED BY <1>3, <1>4, <3>2 DEF Right
  <2>2. CASE met # "nothing" /\ buckets[look.i].dib = 0
    BY <1>3, <1>4, <1>5, <1>6, <1>7, <2>2 DEF Right
  <2>. QED BY <1>4, <2>1, <2>2 DEF AtKey
<1>8. CASE x \in Incoming(look.i)
  <2>1. CASE op = "zero" /\ x = Empty /\ Doing = "clear"
    <3>1. met' # "nothing" /\ seen.permission = Zero
      BY <1>4, <1>5, <2>1 DEF Empty, Bucket
    <3>. QED BY <1>3, <3>1 DEF Right
  <2>2. CASE /\ op = "set" /\ look.i = i /\ x = entry /\ Doing = "store"
             /\ buckets[look.i].dib = 0 \/ buckets[look.i].key = entry.key
             /\ entry.key = arg.key /\ entry.permission = arg.permission
    <3>1. met = "store"
      BY <1>4, <2>2
    <3>2. entry.key = look.key
      <4>1. CASE buckets[look.i].key = look.key
        <5>1. buckets[look.i].dib # 0
          BY <1>4, <4>1, BucketIs
        <5>. QED BY <2>2, <4>1, <5>1
      <4>. QED BY <1>4, <3>1, <4>1 DEF AtKey
    <3>. QED BY <1>3, <1>4, <1>5, <2>2, <3>2 DEF Right
  <2>. QED BY <1>4, <1>8, <2>1, <2>2, IncomingQuiet
<1>. QED BY <1>5, <1>7, <1>8

LEMMA FinishAnswers == ASSUME Watch, Finish PROVE Answering'
<1>1. look'.at = "idle"
  BY DEF Finish, Step, NoLookup
<1>. QED BY <1>1, AnsweringThen

\* QuietOps, after a step.
LEMMA QuietOpsThen ==
  ASSUME Shape', (Doing \in Quiet)'
  PROVE (/\ op \in {"idle", "set", "zero", "remask"} /\ mask = nbuckets - 1
         /\ op = "idle" => Doing = "nothing"
         /\ op = "set" => Doing = "store" /\ entry.key = arg.key /\ ~Displaces
         /\ op \in {"zero", "remask"} => Doing = "clear")'
BY QuietOps, PTL

\* A step of an update under a lookup that was and is right.
LEMMA UpdateFacts ==
  ASSUME AInv, Watch, look.at # "idle", look'.at = look.at, met' \in Quiet
  PROVE /\ Shape /\ KInv /\ Doing \in Quiet /\ Doing' \in Quiet
        /\ met \in {"nothing", met'} /\ Doing \in {"nothing", met} /\ Doing' \in {"nothing", met'}
        /\ Having \subseteq had /\ had \subseteq had' /\ Having' \subseteq had'
        /\ look.i \in 0 .. mask /\ look.key \in Key
        /\ look.at \in {"locate", "probe", "compare"} => NULL \in had \/ Ahead
        /\ look.at = "permission" => AtKey
        /\ look.at = "done" => Right
<1>1. /\ met \in {"nothing", met'} /\ Doing' \in {"nothing", met'} /\ had' = had \cup Having'
  BY QuietStep
<1>2. met \in Quiet /\ Doing' \in Quiet
  BY <1>1 DEF Quiet
<1>3. /\ Having \subseteq had /\ Doing \in {"nothing", met}
      /\ look.at \in {"locate", "probe", "compare"} => NULL \in had \/ Ahead
      /\ look.at = "permission" => AtKey
      /\ look.at = "done" => Right
  BY <1>2 DEF AInv, Answering
<1>4. InBounds
  BY <1>2 DEF AInv, IInv, Inside, Quiet
<1>5. Doing \in Quiet
  BY <1>2, <1>3 DEF Quiet
<1>. QED BY <1>1, <1>2, <1>3, <1>4, <1>5 DEF AInv, IInv, InBounds, LookOK

\* No lookup is right while the array is exchanged.
LEMMA ExchangeAnswers == ASSUME AInv, Watch, op \in Exchange, look'.at = look.at PROVE Answering'
<1>1. ASSUME look.at # "idle", met' \in Quiet PROVE FALSE
  <2>1. Shape /\ Doing \in Quiet
    BY <1>1, UpdateFacts
  <2>. QED BY <2>1, QuietOps DEF Exchange
<1>. QED BY <1>1, AnsweringThen

\* A step that keeps the rule of the path where it is, or for which it is gone.
LEMMA UpdateAnswers ==
  ASSUME AInv, Watch, UNCHANGED look,
         look.at # "idle" /\ met' \in Quiet =>
           /\ \/ NULL \in had'
              \/ /\ UNCHANGED <<nbuckets, mask>>
                 /\ \A b \in 0 .. mask : buckets[b].key = look.key =>
                      buckets'[b].key = look.key /\ buckets'[b].dib = buckets[b].dib
           /\ look.at = "permission" => AtKey'
  PROVE Answering'
<1>. SUFFICES ASSUME look.at # "idle", met' \in Quiet
              PROVE /\ look.at \in {"locate", "probe", "compare"} => NULL \in had' \/ Ahead'
                    /\ look.at = "permission" => AtKey'
                    /\ look.at = "done" => Right'
  BY AnsweringThen
<1>1. /\ had \subseteq had' /\ met \in {"nothing", met'}
      /\ look.at \in {"locate", "probe", "compare"} => NULL \in had \/ Ahead
      /\ look.at = "done" => Right
  BY UpdateFacts
<1>2. ASSUME Ahead, NULL \notin had' PROVE Ahead'
  <2>1. PICK b \in 0 .. mask :
          /\ buckets[b].key = look.key
          /\ R!Behind(look.i, Home(look.key, mask), nbuckets) < buckets[b].dib
    BY <1>2 DEF Ahead
  <2>2. /\ nbuckets' = nbuckets /\ mask' = mask /\ look' = look
        /\ buckets'[b].key = look.key /\ buckets'[b].dib = buckets[b].dib
    BY <1>2, <2>1
  <2>3. Home(look'.key, mask') = Home(look.key, mask)
    BY <2>2
  <2>. QED BY <2>1, <2>2, <2>3 DEF Ahead
<1>3. look.at = "done" => Right'
  BY <1>1 DEF Right
<1>. QED BY <1>1, <1>2, <1>3

LEMMA SetCallAnswers ==
  ASSUME AInv, Watch, Shape', NEW k, NEW permission, SetCall(k, permission) PROVE Answering'
<1>1. /\ op = "idle" /\ op' \in {"set", "resize"}
      /\ UNCHANGED look /\ UNCHANGED <<buckets, nbuckets, mask>>
  BY DEF SetCall, StartSet, table
<1>2. ASSUME look.at = "permission", met' \in Quiet PROVE AtKey'
  <2>1. /\ Doing' \in Quiet /\ Doing' \in {"nothing", met'} /\ met \in {"nothing", met'} /\ AtKey
    BY <1>1, <1>2, UpdateFacts
  <2>2. Doing' = "store"
    BY <1>1, <2>1, QuietOpsThen
  <2>3. buckets[look.i].key = look.key
    BY <1>1, <2>1, <2>2 DEF AtKey
  <2>. QED BY <1>1, <2>3 DEF AtKey
<1>. QED BY <1>1, <1>2, UpdateAnswers

LEMMA ClearCallAnswers == ASSUME AInv, Watch, Shape', ClearCall PROVE Answering'
<1>1. /\ op' \in {"zero", "clear"} /\ UNCHANGED look /\ UNCHANGED <<buckets, mask>>
  BY DEF ClearCall
<1>2. ASSUME look.at # "idle", met' \in Quiet PROVE NULL \in had' /\ (look.at = "permission" => AtKey')
  <2>1. /\ Doing' \in Quiet /\ Doing' \in {"nothing", met'} /\ Having' \subseteq had'
        /\ look.at = "permission" => AtKey
    BY <1>1, <1>2, UpdateFacts
  <2>2. op' = "zero" /\ Doing' = "clear"
    BY <1>1, <2>1, QuietOpsThen
  <2>3. NULL \in had'
    BY <2>1, <2>2 DEF Having
  <2>4. met' = "clear"
    BY <2>1, <2>2
  <2>. QED BY <1>1, <2>1, <2>3, <2>4 DEF AtKey
<1>. QED BY <1>1, <1>2, UpdateAnswers

LEMMA InsertAnswers == ASSUME AInv, Watch, Insert PROVE Answering'
<1>1. /\ op = "set" /\ buckets[i].dib = 0 /\ buckets' = [buckets EXCEPT ![i] = entry]
      /\ UNCHANGED look /\ UNCHANGED <<nbuckets, mask>>
  BY DEF Insert
<1>2. ASSUME look.at # "idle", met' \in Quiet
      PROVE /\ \A b \in 0 .. mask : buckets[b].key = look.key =>
                 buckets'[b].key = look.key /\ buckets'[b].dib = buckets[b].dib
            /\ look.at = "permission" => AtKey'
  <2>1. /\ Shape /\ KInv /\ Doing \in Quiet /\ Doing \in {"nothing", met}
        /\ look.i \in 0 .. mask /\ look.key \in Key
        /\ look.at = "permission" => AtKey
    BY <1>1, <1>2, UpdateFacts
  <2>2. Doing = "store" /\ met = "store"
    BY <1>1, <2>1, QuietOps
  <2>3. \A b \in 0 .. mask : b \in DOMAIN buckets /\ (buckets[b].key \in Key => buckets[b].dib # 0)
    BY <2>1, BucketIs
  <2>4. \A b \in 0 .. mask : buckets[b].key = look.key => buckets'[b] = buckets[b]
    BY <1>1, <2>1, <2>3
  <2>5. ASSUME look.at = "permission" PROVE AtKey'
    <3>1. CASE buckets[look.i].key = look.key
      BY <1>1, <2>1, <2>4, <3>1 DEF AtKey
    <3>2. CASE i = look.i /\ entry.key = look.key
      <4>1. buckets'[look.i] = entry
        BY <1>1, <2>1, <2>3, <3>2
      <4>. QED BY <1>1, <3>2, <4>1 DEF AtKey
    <3>. QED BY <2>1, <2>2, <2>5, <3>1, <3>2 DEF AtKey
  <2>. QED BY <2>4, <2>5
<1>. QED BY <1>1, <1>2, UpdateAnswers

LEMMA ReplaceAnswers == ASSUME AInv, Watch, Replace PROVE Answering'
<1>1. /\ op = "set" /\ buckets[i].dib # 0
      /\ buckets' = [buckets EXCEPT ![i].permission = entry.permission]
      /\ UNCHANGED look /\ UNCHANGED <<nbuckets, mask>>
  BY DEF Replace, Replaces
<1>2. ASSUME look.at # "idle", met' \in Quiet
      PROVE /\ \A b \in 0 .. mask : buckets[b].key = look.key =>
                 buckets'[b].key = look.key /\ buckets'[b].dib = buckets[b].dib
            /\ look.at = "permission" => AtKey'
  <2>1. /\ Shape /\ KInv /\ Doing \in Quiet /\ Doing \in {"nothing", met}
        /\ look.i \in 0 .. mask /\ look.key \in Key
        /\ look.at = "permission" => AtKey
    BY <1>1, <1>2, UpdateFacts
  <2>2. Doing = "store" /\ met = "store"
    BY <1>1, <2>1, QuietOps
  <2>3. \A b \in 0 .. mask : b \in DOMAIN buckets /\ (buckets[b].key \in Key => buckets[b].dib # 0)
    BY <2>1, BucketIs
  <2>4. \A b \in 0 .. mask : buckets[b].key = look.key =>
          buckets'[b].key = look.key /\ buckets'[b].dib = buckets[b].dib
    <3>. SUFFICES ASSUME NEW b \in 0 .. mask, buckets[b].key = look.key
                  PROVE buckets'[b].key = look.key /\ buckets'[b].dib = buckets[b].dib
      OBVIOUS
    <3>1. buckets[b].dib # 0 /\ b \in DOMAIN buckets
      BY <2>1, <2>3
    <3>2. buckets[b] \in [dib : 1 .. (2 * Size(buckets)), key : Key, permission : Permission]
      <4>1. buckets[b] \in Buckets(2 * Size(buckets)) /\ 2 * Size(buckets) \in Nat \ {0}
        BY <2>1, <3>1, KFacts, SMTT(30) DEF KInv, Fits
      <4>. QED BY <3>1, <4>1, AsIs
    <3>3. CASE b = i
      BY <1>1, <3>1, <3>2, <3>3
    <3>4. CASE b # i
      BY <1>1, <3>1, <3>4
    <3>. QED BY <3>3, <3>4
  <2>5. ASSUME look.at = "permission" PROVE AtKey'
    <3>1. buckets[look.i].key = look.key
      BY <1>1, <2>1, <2>2, <2>5 DEF AtKey
    <3>. QED BY <1>1, <2>1, <2>4, <3>1 DEF AtKey
  <2>. QED BY <2>4, <2>5
<1>. QED BY <1>1, <1>2, UpdateAnswers

LEMMA SetPassAnswers == ASSUME AInv, Watch, SetPass PROVE Answering'
<1>1. /\ op = "set" /\ buckets[i].dib # 0 /\ UNCHANGED look /\ UNCHANGED <<nbuckets, mask>>
      /\ ~Displaces => UNCHANGED buckets
  BY DEF SetPass
<1>2. ASSUME look.at # "idle", met' \in Quiet
      PROVE UNCHANGED buckets /\ (look.at = "permission" => AtKey')
  <2>1. /\ Shape /\ Doing \in Quiet /\ Doing \in {"nothing", met}
        /\ look.at = "permission" => AtKey
    BY <1>1, <1>2, UpdateFacts
  <2>2. Doing = "store" /\ met = "store" /\ UNCHANGED buckets
    BY <1>1, <2>1, QuietOps
  <2>3. look.at = "permission" => buckets[look.i].key = look.key
    BY <1>1, <2>1, <2>2 DEF AtKey
  <2>. QED BY <1>1, <2>2, <2>3 DEF AtKey
<1>. QED BY <1>1, <1>2, UpdateAnswers

LEMMA ZeroBucketsAnswers == ASSUME AInv, Watch, ZeroBuckets, op # "raw" PROVE Answering'
<1>1. /\ op = "zero" /\ UNCHANGED look
      /\ buckets' = [b \in DOMAIN buckets |-> IF b < nbuckets THEN Empty ELSE buckets[b]]
  BY DEF ZeroBuckets
<1>2. ASSUME look.at # "idle", met' \in Quiet PROVE NULL \in had' /\ (look.at = "permission" => AtKey')
  <2>1. /\ Shape /\ KInv /\ Doing \in Quiet /\ Doing \in {"nothing", met} /\ met \in {"nothing", met'}
        /\ Having \subseteq had /\ had \subseteq had' /\ look.i \in 0 .. mask
    BY <1>1, <1>2, UpdateFacts
  <2>2. Doing = "clear" /\ met' = "clear" /\ mask = nbuckets - 1
    BY <1>1, <2>1, QuietOps
  <2>3. NULL \in had'
    BY <1>1, <2>1 DEF Having
  <2>4. look.i < nbuckets /\ look.i \in DOMAIN buckets
    BY <2>1, <2>2 DEF Shape
  <2>5. buckets'[look.i].dib = 0
    BY <1>1, <2>4 DEF Empty, Bucket
  <2>. QED BY <1>1, <2>2, <2>3, <2>5 DEF AtKey
<1>. QED BY <1>1, <1>2, UpdateAnswers

LEMMA RemaskAnswers == ASSUME AInv, Watch, Remask PROVE Answering'
<1>1. op = "remask" /\ UNCHANGED look /\ UNCHANGED buckets
  BY DEF Remask
<1>2. ASSUME look.at # "idle", met' \in Quiet PROVE NULL \in had' /\ (look.at = "permission" => AtKey')
  <2>1. /\ Shape /\ Doing \in Quiet /\ Doing \in {"nothing", met} /\ met \in {"nothing", met'}
        /\ Having \subseteq had /\ had \subseteq had'
        /\ look.at = "permission" => AtKey
    BY <1>1, <1>2, UpdateFacts
  <2>2. met = "clear" /\ met' = "clear"
    BY <1>1, <2>1, QuietOps
  <2>3. NULL \in had'
    BY <1>1, <2>1 DEF Having
  <2>. QED BY <1>1, <2>1, <2>2, <2>3 DEF AtKey
<1>. QED BY <1>1, <1>2, UpdateAnswers

LEMMA AnsweringNext == AInv /\ Shape' /\ [Next]_vars => Answering'
<1>. SUFFICES ASSUME AInv, Shape', [Next]_vars PROVE Answering'
  OBVIOUS
<1>1. CASE UNCHANGED vars
  <2>1. /\ UNCHANGED <<buckets, nbuckets, mask, op, arg, entry, i, rules, look, met, had>>
    BY <1>1 DEF vars, table, update, history
  <2>. QED BY <2>1 DEF AInv, Answering, Having, Doing, Displaces, Ahead, AtKey, Right
<1>. SUFFICES ASSUME Next PROVE Answering'
  BY <1>1
<1>2. Watch
  BY DEF Next
<1>3. ASSUME op \in Exchange, look'.at = look.at PROVE Answering'
  BY <1>2, <1>3, ExchangeAnswers
<1>4. ASSUME NEW k \in Key, Begin(k) PROVE Answering'
  BY <1>2, <1>4, BeginAnswers
<1>5. ASSUME NEW rule \in Sent, SetCall(rule[1], rule[2]) PROVE Answering'
  BY <1>2, <1>5, SetCallAnswers
<1>6. CASE ClearCall
  BY <1>2, <1>6, ClearCallAnswers
<1>7. CASE Insert \/ Replace \/ SetPass
  BY <1>2, <1>7, InsertAnswers, ReplaceAnswers, SetPassAnswers
<1>8. CASE ResizeScan \/ MovePass \/ MoveEnd \/ ResizeSwap \/ ResizeMask \/ Renew
  BY <1>3, <1>8 DEF ResizeScan, MovePass, MoveEnd, ResizeSwap, ResizeMask, Renew, Exchange
<1>9. CASE ResizeFree \/ ClearFree
  <2>1. op \in Exchange /\ FreeBuckets
    BY <1>9 DEF ResizeFree, ClearFree, Exchange
  <2>2. look'.at = look.at
    BY <2>1 DEF FreeBuckets, AInv, IInv, Lookup
  <2>. QED BY <1>3, <2>1, <2>2
<1>10. CASE ZeroBuckets
  <2>1. CASE op = "raw"
    BY <1>3, <1>10, <2>1 DEF ZeroBuckets, Exchange
  <2>. QED BY <1>2, <1>10, <2>1, ZeroBucketsAnswers
<1>11. CASE Remask
  BY <1>2, <1>11, RemaskAnswers
<1>12. CASE Looking
  BY <1>2, <1>12, LocateAnswers, ReadAstrayAnswers, ProbeAnswers, CompareAnswers,
     ReadPermissionAnswers, FinishAnswers DEF Looking
<1>. QED BY <1>4, <1>5, <1>6, <1>7, <1>8, <1>9, <1>10, <1>11, <1>12 DEF Next, Updating

(***************************************************************************)
(* AnswerRight, for any paths, permissions, hash values and cap: a lookup  *)
(* that no displacement, exchange of the array or store after a clear ran  *)
(* under answers with a permission that its path had meanwhile, or with    *)
(* none, however many updates and in whatever order ran under it.          *)
(***************************************************************************)
THEOREM AnswerAlwaysRight == Spec => []AnswerRight
<1>1. Init => AInv
  <2>. SUFFICES ASSUME Init PROVE AInv
    OBVIOUS
  <2>1. IInv
    BY ShapeInit DEF Init, IInv, Lookup, Inside, NoLookup
  <2>2. KInv
    BY InitKInv
  <2>3. Zeroing /\ LookOK /\ Answering
    BY PermissionAssumption, <2>1 DEF Init, IInv, Zeroing, LookOK, Answering, NoLookup
  <2>. QED BY <2>1, <2>2, <2>3 DEF AInv
<1>2. AInv /\ [Next]_vars => AInv'
  <2>. SUFFICES ASSUME AInv, [Next]_vars PROVE AInv'
    OBVIOUS
  <2>1. IInv /\ Shape /\ KInv /\ Zeroing /\ LookOK
    BY DEF AInv, IInv
  <2>2. Shape' /\ Lookup' /\ Inside'
    BY <2>1, ShapeNext, InsideNext
  <2>3. KInv' /\ Zeroing' /\ LookOK'
    BY <2>1, KInvNext, ZeroingNext, LookOKNext
  <2>4. Answering'
    BY <2>2, AnsweringNext
  <2>. QED BY <2>2, <2>3, <2>4 DEF AInv, IInv
<1>3. AInv => AnswerRight
  BY DEF AInv, Answering, AnswerRight, Right, Quiet
<1>. QED BY <1>1, <1>2, <1>3, PTL DEF Spec
=============================================================================
