--------------------------- MODULE LruCacheProofs ---------------------------
(***************************************************************************)
(* The linked lists of lru.c, used as ns_agent/cache.c uses them, for any  *)
(* keys, values, hash and memory: no record is lost or in two places, the  *)
(* counter of free memory is exact, and the table is an LRU cache.         *)
(*                                                                         *)
(* A chain is a sequence of records (IsChain), whose members are what      *)
(* Linked computes (LinkedChain).  Shape says what the chains hold, Free   *)
(* that at most one record waits to be used again and links to no other,   *)
(* Balance what is paid for; together they are the inductive invariant.    *)
(* For the refinement the records are also listed by age (Ages), and the   *)
(* abstract cache is the end of that list (Reads).                         *)
(***************************************************************************)
EXTENDS LruCache, FiniteSetTheorems, SequenceTheorems, WellFoundedInduction, TLAPS

Length == CHOOSE len \in Lengths : TRUE

(***************************************************************************)
(* How ns_agent/cache.c uses the cache: every entry has the length         *)
(* AVG_SIZE, lruc_delete is called with no record to use again, and calloc *)
(* has a record for one entry more than there is memory for.               *)
(***************************************************************************)
UsedByAgent == /\ Lengths = {Length}
               /\ MaxFree <= 1
               /\ IsFiniteSet(Item) /\ Cardinality(Item) > Entries

\* The n-th record of a chain, NULL behind its end.
Nth(s, n) == IF n \in 1 .. Len(s) THEN s[n] ELSE NULL

\* The records of s are linked in this order, from p on.
IsChain(s, p) ==
  /\ s \in Seq(Item)
  /\ p = Nth(s, 1)
  /\ \A n \in 1 .. Len(s) : item[s[n]].next = Nth(s, n + 1)
  /\ \A m, n \in 1 .. Len(s) : s[m] = s[n] => m = n

Members(s) == {s[n] : n \in 1 .. Len(s)}

-----------------------------------------------------------------------------
(* What Linked computes. *)

\* A set of numbers has a least one: for inductions along a chain.
LEMMA Least ==
  ASSUME NEW S \in SUBSET Nat, S # {}
  PROVE \E m \in S : \A n \in S : m <= n
<1>1. IsWellFoundedOn(OpToRel(<, Nat), Nat)
  BY NatLessThanWellFounded
<1>2. PICK m \in S : \A n \in S : <<n, m>> \notin OpToRel(<, Nat)
  BY <1>1, WFMin
<1>3. \A n \in S : ~ (n < m)
  BY <1>2 DEF OpToRel
<1>. QED BY <1>3

\* The first n records of a chain.
First(s, n) == {s[m] : m \in {m \in 1 .. Len(s) : m <= n}}

\* One step of Linked along a chain.
LEMMA FirstGrows ==
  ASSUME NEW s, NEW p, IsChain(s, p)
  PROVE /\ First(s, 1) = {p} \ {NULL}
        /\ \A n \in Nat \ {0} :
             First(s, n + 1) = First(s, n) \cup ({item[j].next : j \in First(s, n)} \ {NULL})
<1>1. Len(s) \in Nat /\ s \in Seq(Item) /\ \A n \in 1 .. Len(s) : s[n] \in Item /\ s[n] # NULL
  BY TableAssumption DEF IsChain
<1>2. First(s, 1) = {p} \ {NULL}
  <2>1. CASE Len(s) = 0
    <3>1. p = NULL
      BY <2>1 DEF IsChain, Nth
    <3>. QED BY <2>1, <3>1 DEF First
  <2>2. CASE Len(s) # 0
    <3>1. p = s[1] /\ 1 \in 1 .. Len(s) /\ s[1] # NULL
      BY <1>1, <2>2 DEF IsChain, Nth
    <3>2. \A m \in 1 .. Len(s) : m <= 1 <=> m = 1
      BY <1>1
    <3>. QED BY <3>1, <3>2 DEF First
  <2>. QED BY <2>1, <2>2
<1>3. ASSUME NEW n \in Nat \ {0}
      PROVE First(s, n + 1) = First(s, n) \cup ({item[j].next : j \in First(s, n)} \ {NULL})
  <2>1. ASSUME NEW j \in First(s, n + 1), j \notin First(s, n)
        PROVE \E i \in First(s, n) : j = item[i].next
    <3>1. PICK m \in 1 .. Len(s) : m <= n + 1 /\ j = s[m]
      BY DEF First
    <3>2. ~(m <= n)
      BY <2>1, <3>1 DEF First
    <3>3. m = n + 1 /\ n \in 1 .. Len(s)
      BY <1>1, <3>1, <3>2
    <3>4. item[s[n]].next = s[m]
      BY <3>1, <3>3 DEF IsChain, Nth
    <3>5. s[n] \in First(s, n)
      BY <3>3 DEF First
    <3>. QED BY <3>1, <3>4, <3>5
  <2>2. ASSUME NEW i \in First(s, n), item[i].next # NULL
        PROVE item[i].next \in First(s, n + 1)
    <3>1. PICK m \in 1 .. Len(s) : m <= n /\ i = s[m]
      BY DEF First
    <3>2. item[i].next = Nth(s, m + 1)
      BY <3>1 DEF IsChain
    <3>3. m + 1 \in 1 .. Len(s) /\ item[i].next = s[m + 1] /\ m + 1 <= n + 1
      BY <2>2, <3>1, <3>2 DEF Nth
    <3>. QED BY <3>3 DEF First
  <2>3. First(s, n) \subseteq First(s, n + 1) /\ NULL \notin First(s, n + 1)
    BY <1>1 DEF First
  <2>. QED BY <2>1, <2>2, <2>3
<1>. QED BY <1>2, <1>3

\* A chain is no longer than there are records.
LEMMA ChainFits ==
  ASSUME IsFiniteSet(Item), NEW s, NEW p, IsChain(s, p)
  PROVE Len(s) <= Cardinality(Item)
<1>1. Len(s) \in Nat /\ s \in Injection(1 .. Len(s), Item)
  BY DEF IsChain, Injection, IsInjective
<1>2. Cardinality(1 .. Len(s)) <= Cardinality(Item)
  BY <1>1, FS_Injection
<1>3. PICK n \in Nat : n = Len(s)
  BY <1>1
<1>4. Cardinality(1 .. n) = n
  BY FS_Interval
<1>. QED BY <1>2, <1>3, <1>4

\* Linked follows a chain to its end and no further.
LEMMA LinkedChain ==
  ASSUME IsFiniteSet(Item), Item # {}, NEW s, NEW p, IsChain(s, p)
  PROVE Linked(p) = Members(s)
<1>. DEFINE N == Cardinality(Item)
            Eq(h) == h = [n \in 1 .. N |->
                            IF n = 1 THEN {p} \ {NULL}
                            ELSE h[n - 1] \cup ({item[j].next : j \in h[n - 1]} \ {NULL})]
            g == [n \in 1 .. N |-> First(s, n)]
            w == CHOOSE h : Eq(h)
<1>1. N \in Nat \ {0}
  BY FS_CardinalityType, FS_EmptySet
<1>. HIDE DEF N
<1>2. Eq(g)
  <2>1. \A n \in 1 .. N : g[n] = IF n = 1 THEN {p} \ {NULL}
                            ELSE g[n - 1] \cup ({item[j].next : j \in g[n - 1]} \ {NULL})
    <3>. SUFFICES ASSUME NEW n \in 1 .. N
                  PROVE g[n] = IF n = 1 THEN {p} \ {NULL}
                            ELSE g[n - 1] \cup ({item[j].next : j \in g[n - 1]} \ {NULL})
      OBVIOUS
    <3>1. CASE n = 1
      BY <3>1, FirstGrows
    <3>2. CASE n # 1
      <4>1. n - 1 \in 1 .. N /\ n - 1 \in Nat \ {0} /\ (n - 1) + 1 = n
        BY <1>1, <3>2
      <4>2. First(s, (n - 1) + 1) = First(s, n - 1) \cup ({item[j].next : j \in First(s, n - 1)} \ {NULL})
        BY <4>1, FirstGrows
      <4>. QED BY <3>2, <4>1, <4>2
    <3>. QED BY <3>1, <3>2
  <2>. QED BY <2>1
<1>3. Eq(w)
  BY <1>2
<1>4. Linked(p) = w[N]
  BY DEF Linked, N
<1>. HIDE DEF w, g
<1>5. \A n \in 1 .. N : w[n] = First(s, n)
  <2>. DEFINE S == {n \in 1 .. N : w[n] # First(s, n)}
  <2>1. SUFFICES ASSUME S # {} PROVE FALSE
    OBVIOUS
  <2>2. PICK m \in S : \A n \in S : m <= n
    <3>1. S \in SUBSET Nat
      BY <1>1
    <3>. QED BY <2>1, <3>1, Least
  <2>3. m # 1
    BY <1>3, <2>2, FirstGrows
  <2>4. m - 1 \in 1 .. N /\ m - 1 \in Nat \ {0} /\ (m - 1) + 1 = m /\ m \in 1 .. N /\ ~(m <= m - 1)
    BY <1>1, <2>2, <2>3
  <2>5. w[m - 1] = First(s, m - 1)
    BY <2>2, <2>4
  <2>6. w[m] = w[m - 1] \cup ({item[j].next : j \in w[m - 1]} \ {NULL})
    BY <1>3, <2>3, <2>4
  <2>7. First(s, (m - 1) + 1) = First(s, m - 1) \cup ({item[j].next : j \in First(s, m - 1)} \ {NULL})
    BY <2>4, FirstGrows
  <2>. QED BY <2>2, <2>4, <2>5, <2>6, <2>7
<1>6. Len(s) <= N /\ Len(s) \in Nat
  BY ChainFits DEF N, IsChain
<1>7. First(s, N) = Members(s)
  <2>1. \A m \in 1 .. Len(s) : m <= N
    BY <1>1, <1>6
  <2>. QED BY <2>1 DEF First, Members
<1>. QED BY <1>1, <1>4, <1>5, <1>7
-----------------------------------------------------------------------------
(* The inductive invariant. *)

\* i waits in no queue, and holds a key of the chain b.
Held(i, b) == /\ i \in allocated /\ i # free_items
              /\ item[i].key \in Key /\ Hash[item[i].key] = b
              /\ item[i].value_length = Length

\* The chains are c, and every other record returned by calloc is free.
Shape(c) ==
  /\ c \in [Bucket -> Seq(Item)]
  /\ \A b \in Bucket : IsChain(c[b], items[b])
  /\ \A b \in Bucket : \A n \in 1 .. Len(c[b]) : Held(c[b][n], b)
  /\ \A b \in Bucket : \A m, n \in 1 .. Len(c[b]) :
       item[c[b][m]].key = item[c[b][n]].key => m = n
  /\ \A i \in allocated : i = free_items \/ \E b \in Bucket : i \in Members(c[b])

\* At most one record is free, and one that was never used is as calloc gave it.
Free == /\ free_items # NULL => free_items \in allocated /\ item[free_items].next = NULL
        /\ \A i \in Item \ allocated : item[i].next = NULL

\* What is stored is paid for, or about to be; a record is free only when it is paid for.
Balance ==
  /\ free_memory + Length * Cardinality(Live) = TotalMemory + required
  /\ required \in {0, Length}
  /\ pc = "idle" => required = 0
  /\ pc = "evict" /\ free_memory < required => free_items = NULL

IInv == TypeOK /\ (\E c : Shape(c)) /\ Free /\ Balance

\* What UsedByAgent says of lengths and records.
LEMMA Used ==
  ASSUME UsedByAgent
  PROVE /\ Length \in Nat \ {0} /\ Length <= TotalMemory
        /\ \A len \in Lengths : len = Length
        /\ Entries \in Nat /\ Item # {} /\ IsFiniteSet(Item) /\ NULL \notin Item
        /\ \A n \in Nat : n * Length <= TotalMemory => n <= Entries
<1>1. Length \in 1 .. TotalMemory /\ TotalMemory \in Nat /\ \A len \in Lengths : len = Length
  BY MemoryAssumption DEF UsedByAgent
<1>2. Entries = TotalMemory \div Length
  BY DEF Entries, Length
<1>. HIDE DEF Length
<1>3. PICK l \in Nat \ {0} : l = Length
  BY <1>1
<1>4. TotalMemory \div l \in Nat /\ TotalMemory < l * (TotalMemory \div l) + l
  BY <1>1
<1>5. \A n \in Nat : n * l <= TotalMemory => n <= TotalMemory \div l
  <2>. SUFFICES ASSUME NEW n \in Nat, n * l <= TotalMemory, ~(n <= TotalMemory \div l) PROVE FALSE
    OBVIOUS
  <2>1. PICK q \in Nat : q = TotalMemory \div l
    BY <1>4
  <2>2. n * l >= (q + 1) * l
    BY <2>1
  <2>3. (q + 1) * l = l * q + l
    BY <2>1
  <2>4. n * l \in Int /\ l * q + l \in Int
    BY <2>1
  <2>. QED BY <1>1, <1>4, <2>1, <2>2, <2>3, <2>4
<1>6. Item # {}
  BY <1>2, <1>3, <1>4, FS_EmptySet DEF UsedByAgent
<1>. QED BY <1>1, <1>2, <1>3, <1>4, <1>5, <1>6, TableAssumption DEF UsedByAgent

\* What the loops of lru.c walk through are the chains.
Walked ==
  \A c : Shape(c) =>
    /\ \A b \in Bucket : Chain(b) = Members(c[b])
    /\ Live = {i \in Item : \E b \in Bucket : i \in Members(c[b])}

\* The chains of a shape are what the loops walk.
LEMMA Sets == UsedByAgent => Walked
<1>. SUFFICES ASSUME UsedByAgent, NEW c, Shape(c)
              PROVE /\ \A b \in Bucket : Chain(b) = Members(c[b])
                    /\ Live = {i \in Item : \E b \in Bucket : i \in Members(c[b])}
  BY DEF Walked
<1>1. \A b \in Bucket : Chain(b) = Members(c[b])
  BY Used, LinkedChain DEF Shape, Chain
<1>2. \A b \in Bucket : Members(c[b]) \subseteq Item
  BY DEF Shape, Members
<1>. QED BY <1>1, <1>2 DEF Live

\* The free queue is empty or one record.
LEMMA FreeSet ==
  ASSUME UsedByAgent
  PROVE TypeOK /\ Free => FreeQueue = {free_items} \ {NULL}
<1>. SUFFICES ASSUME TypeOK, Free PROVE FreeQueue = {free_items} \ {NULL}
  OBVIOUS
<1>1. CASE free_items = NULL
  <2>1. IsChain(<<>>, free_items)
    BY <1>1 DEF IsChain, Nth
  <2>2. Linked(free_items) = Members(<<>>)
    BY <2>1, Used, LinkedChain
  <2>. QED BY <1>1, <2>2 DEF Members, FreeQueue
<1>2. CASE free_items # NULL
  <2>1. free_items \in Item /\ item[free_items].next = NULL
    BY <1>2 DEF Free, TypeOK
  <2>2. IsChain(<<free_items>>, free_items)
    BY <2>1 DEF IsChain, Nth
  <2>3. Linked(free_items) = Members(<<free_items>>)
    BY <2>2, Used, LinkedChain
  <2>. QED BY <1>2, <2>3 DEF Members, FreeQueue
<1>. QED BY <1>1, <1>2

\* Sets, after a step.
LEMMA SetsNext ==
  ASSUME UsedByAgent, NEW c, Shape(c)'
  PROVE /\ \A b \in Bucket : Chain(b)' = Members(c[b])
        /\ Live' = {i \in Item : \E b \in Bucket : i \in Members(c[b])}
<1>1. UsedByAgent' => Walked'
  BY Sets, PTL
<1>2. UsedByAgent'
  BY DEF UsedByAgent, Length, Entries
<1>. QED BY <1>1, <1>2 DEF Walked

\* lruc_new leaves empty chains and all memory free.
LEMMA InitInv == UsedByAgent /\ Init => IInv
<1>. SUFFICES ASSUME UsedByAgent, Init PROVE IInv
  OBVIOUS
<1>. DEFINE c == [b \in Bucket |-> <<>>]
<1>1. TypeOK
  BY MemoryAssumption, BoundAssumption DEF Init, TypeOK, Record, Zeroed
<1>2. Shape(c)
  <2>1. c \in [Bucket -> Seq(Item)] /\ \A b \in Bucket : c[b] = <<>> /\ items[b] = NULL
    BY DEF Init
  <2>. HIDE DEF c
  <2>2. \A b \in Bucket : Len(c[b]) = 0 /\ c[b] \in Seq(Item)
    BY <2>1
  <2>. QED BY <2>1, <2>2 DEF Init, Shape, IsChain, Nth
<1>3. Free
  BY DEF Init, Free, Zeroed
<1>4. Live = {}
  <2>1. \A b \in Bucket : Chain(b) = {}
    BY <1>2, Sets DEF Walked, Members
  <2>. QED BY <2>1 DEF Live
<1>5. Balance
  <2>1. Length * Cardinality(Live) = 0
    BY <1>4, FS_EmptySet, Used
  <2>. QED BY <2>1, MemoryAssumption DEF Init, Balance
<1>. QED BY <1>1, <1>2, <1>3, <1>5 DEF IInv

\* Steps that change no link.
LEMMA LinksKept ==
  ASSUME UsedByAgent, TypeOK, Free, NEW c, Shape(c),
         UNCHANGED <<items, allocated, free_items>>,
         \A i \in Item : /\ item'[i].next = item[i].next
                         /\ item'[i].key = item[i].key
                         /\ item'[i].value_length = item[i].value_length
  PROVE Shape(c)' /\ Free' /\ Live' = Live
<1>1. \A b \in Bucket : c[b] \in Seq(Item) /\ Len(c[b]) \in Nat /\ \A n \in 1 .. Len(c[b]) : c[b][n] \in Item
  BY DEF Shape
<1>2. Shape(c)'
  <2>1. \A b \in Bucket : IsChain(c[b], items[b])'
    BY <1>1 DEF Shape, IsChain, Nth
  <2>2. \A b \in Bucket : \A n \in 1 .. Len(c[b]) : Held(c[b][n], b)'
    BY <1>1 DEF Shape, Held
  <2>3. \A b \in Bucket : \A m, n \in 1 .. Len(c[b]) :
       item'[c[b][m]].key = item'[c[b][n]].key => m = n
    BY <1>1 DEF Shape
  <2>. QED BY <2>1, <2>2, <2>3 DEF Shape
<1>3. Free'
  BY DEF Free, TypeOK
<1>4. Live' = Live
  BY <1>2, Sets, SetsNext DEF Walked
<1>. QED BY <1>2, <1>3, <1>4

\* The members of a chain are records.
LEMMA ChainItems ==
  ASSUME NEW c, Shape(c), NEW b \in Bucket
  PROVE /\ c[b] \in Seq(Item) /\ Len(c[b]) \in Nat /\ Members(c[b]) \subseteq Item
        /\ \A n \in 1 .. Len(c[b]) : c[b][n] \in Item
<1>1. c[b] \in Seq(Item)
  BY DEF Shape
<1>2. PICK s \in Seq(Item) : s = c[b]
  BY <1>1
<1>3. Len(s) \in Nat /\ \A n \in 1 .. Len(s) : s[n] \in Item
  OBVIOUS
<1>. QED BY <1>2, <1>3 DEF Members

\* What the search loops find.
LEMMA Match ==
  ASSUME UsedByAgent, NEW c, Shape(c), NEW k \in Key
  PROVE /\ Hash[k] \in Bucket
        /\ Matches(k) = {i \in Members(c[Hash[k]]) : item[i].key = k}
        /\ \A i \in Matches(k) : i \in Item /\ item[i].value_length = Length
<1>1. Hash[k] \in Bucket
  BY TableAssumption
<1>2. Matches(k) = {i \in Members(c[Hash[k]]) : item[i].key = k}
  BY <1>1, Sets DEF Matches, Walked
<1>3. \A i \in Members(c[Hash[k]]) : i \in Item /\ Held(i, Hash[k])
  BY <1>1, ChainItems DEF Members, Shape
<1>. QED BY <1>1, <1>2, <1>3 DEF Held

\* lruc_get changes no link.
LEMMA GetInv ==
  ASSUME UsedByAgent, IInv, NEW k \in Key, Get(k)
  PROVE IInv' /\ Live' = Live
<1>1. PICK c : Shape(c)
  BY DEF IInv
<1>2. /\ \A i \in Item : /\ item'[i].next = item[i].next
                         /\ item'[i].key = item[i].key
                         /\ item'[i].value_length = item[i].value_length
      /\ TypeOK'
  <2>1. Matches(k) \subseteq Item
    BY <1>1, Match
  <2>2. CASE Matches(k) = {}
    BY <2>2 DEF Get, IInv, TypeOK
  <2>3. CASE Matches(k) # {}
    <3>1. PICK i \in Matches(k) :
              /\ access_count < MaxAccess
              /\ out' = item[i].value
              /\ access_count' = access_count + 1
              /\ item' = [item EXCEPT ![i].access_count = access_count + 1]
      BY <2>3 DEF Get
    <3>2. i \in Item /\ item[i] \in Record /\ item \in [Item -> Record] /\ access_count + 1 \in 0 .. MaxAccess
      BY <2>1, <3>1, BoundAssumption DEF IInv, TypeOK
    <3>3. item' \in [Item -> Record]
      BY <3>1, <3>2 DEF Record
    <3>4. \A j \in Item : /\ item'[j].next = item[j].next
                          /\ item'[j].key = item[j].key
                          /\ item'[j].value_length = item[j].value_length
      BY <3>1, <3>2 DEF Record
    <3>5. out' \in Value \cup {NULL}
      BY <3>1, <3>2 DEF Record
    <3>. QED BY <3>1, <3>2, <3>3, <3>4, <3>5 DEF Get, IInv, TypeOK
  <2>. QED BY <2>2, <2>3
<1>3. UNCHANGED <<items, allocated, free_items, free_memory, pc, required>>
  BY DEF Get
<1>4. Shape(c)' /\ Free' /\ Live' = Live
  BY <1>1, <1>2, <1>3, LinksKept DEF IInv
<1>5. Balance'
  BY <1>3, <1>4 DEF IInv, Balance
<1>. QED BY <1>2, <1>4, <1>5 DEF IInv

\* lruc_set on a held key changes no link, and has nothing more to pay.
LEMMA UpdateInv ==
  ASSUME UsedByAgent, IInv, NEW k \in Key, NEW v \in Value, NEW len \in Lengths,
         Set(k, v, len), Update(k, v, len)
  PROVE IInv' /\ Live' = Live
<1>1. PICK c : Shape(c)
  BY DEF IInv
<1>2. PICK i \in Matches(k) :
         /\ required' = (len - item[i].value_length) % Wrap
         /\ item' = [item EXCEPT ![i].value = v, ![i].value_length = len,
                                 ![i].access_count = access_count + 1]
         /\ UNCHANGED <<items, allocated, free_items>>
  BY DEF Update
<1>3. i \in Item /\ item[i].value_length = Length /\ len = Length
  BY <1>1, Used, Match
<1>4. required' = 0
  <2>1. Length - Length = 0 /\ 0 % Wrap = 0
    BY Used, MemoryAssumption
  <2>. QED BY <1>2, <1>3, <2>1
<1>5. item \in [Item -> Record] /\ access_count + 1 \in 0 .. MaxAccess
  BY BoundAssumption DEF IInv, TypeOK, Set
<1>. DEFINE r == [item[i] EXCEPT !.value = v, !.value_length = len, !.access_count = access_count + 1]
<1>11. r \in Record /\ r.next = item[i].next /\ r.key = item[i].key /\ r.value_length = len
  BY <1>3, <1>5 DEF Record
<1>12. \A j \in Item : item'[j] = IF j = i THEN r ELSE item[j]
  BY <1>2, <1>3, <1>5
<1>13. DOMAIN item' = Item /\ item' = [j \in DOMAIN item' |-> item'[j]]
  BY <1>2, <1>5
<1>. HIDE DEF r
<1>6. item' \in [Item -> Record]
  BY <1>11, <1>12, <1>13, <1>5
<1>7. \A j \in Item : /\ item'[j].next = item[j].next
                      /\ item'[j].key = item[j].key
                      /\ item'[j].value_length = item[j].value_length
  BY <1>11, <1>12, <1>3
<1>8. Shape(c)' /\ Free' /\ Live' = Live
  BY <1>1, <1>2, <1>7, LinksKept DEF IInv
<1>9. TypeOK'
  BY <1>2, <1>4, <1>5, <1>6, MemoryAssumption DEF IInv, TypeOK, Set
<1>10. Balance'
  BY <1>4, <1>8, Used DEF IInv, Balance, Set, TypeOK
<1>. QED BY <1>8, <1>9, <1>10 DEF IInv

\* The end of lruc_set pays for the new record.
LEMMA FinishSetInv ==
  ASSUME UsedByAgent, IInv, FinishSet
  PROVE IInv' /\ Live' = Live
<1>1. PICK c : Shape(c)
  BY DEF IInv
<1>2. Shape(c)' /\ Free' /\ Live' = Live
  BY <1>1, LinksKept DEF IInv, FinishSet
<1>3. TypeOK'
  BY MemoryAssumption DEF IInv, TypeOK, FinishSet
<1>4. Length * Cardinality(Live) \in Int
  <2>1. Live \subseteq Item
    BY <1>1, Sets DEF Walked
  <2>. QED BY <2>1, Used, FS_Subset, FS_CardinalityType
<1>5. Balance'
  <2>. DEFINE x == Length * Cardinality(Live)
  <2>1. x \in Int /\ free_memory + x = TotalMemory + required
    BY <1>4 DEF IInv, Balance
  <2>2. free_memory' + Length * Cardinality(Live') = free_memory - required + x
    BY <1>2 DEF FinishSet
  <2>. HIDE DEF x
  <2>3. free_memory' + Length * Cardinality(Live') = TotalMemory + required'
    BY <2>1, <2>2, MemoryAssumption DEF FinishSet, IInv, TypeOK
  <2>. QED BY <2>3 DEF FinishSet, IInv, Balance
<1>. QED BY <1>1, <1>2, <1>3, <1>5 DEF IInv
-----------------------------------------------------------------------------
(* lruc_set on a new key. *)

\* j is what it was, but for its link.
Same(j) == /\ item'[j].key = item[j].key /\ item'[j].value = item[j].value
           /\ item'[j].value_length = item[j].value_length
           /\ item'[j].access_count = item[j].access_count

\* What is paid for fits in the memory.
LEMMA StoredFits ==
  ASSUME UsedByAgent, IInv
  PROVE /\ IsFiniteSet(Live) /\ Live \subseteq Item /\ Cardinality(Live) \in Nat
        /\ required = 0 => Cardinality(Live) <= Entries
<1>1. IsFiniteSet(Live) /\ Live \subseteq Item /\ Cardinality(Live) \in Nat
  <2>1. Live \subseteq Item
    BY Sets DEF Walked, IInv
  <2>. QED BY <2>1, Used, FS_Subset, FS_CardinalityType
<1>2. ASSUME required = 0 PROVE Cardinality(Live) <= Entries
  <2>1. PICK l \in Nat \ {0} : l = Length
    BY Used
  <2>2. PICK n \in Nat : n = Cardinality(Live)
    BY <1>1
  <2>3. free_memory + l * n = TotalMemory /\ free_memory \in Nat /\ TotalMemory \in Nat
    BY <1>2, <2>1, <2>2, MemoryAssumption DEF IInv, Balance, TypeOK
  <2>4. n * l <= TotalMemory
    <3>1. n * l = l * n /\ l * n \in Nat
      OBVIOUS
    <3>. QED BY <2>3, <3>1
  <2>. QED BY <2>1, <2>2, <2>4, Used
<1>. QED BY <1>1, <1>2

\* The record that lruc_pop_or_create_item hands out is in no chain.
LEMMA Popped ==
  ASSUME UsedByAgent, IInv, required = 0, NEW i \in Item, PopOrCreate(i)
  PROVE /\ i \notin Live /\ item[i].next = NULL
        /\ allocated' = allocated \cup {i} /\ free_items' = NULL
        /\ \A j \in allocated : j = i \/ j \in Live
        /\ \A j \in Live : j \in allocated
<1>1. PICK c : Shape(c)
  BY DEF IInv
<1>2. Live = {j \in Item : \E b \in Bucket : j \in Members(c[b])}
  BY <1>1, Sets DEF Walked
<1>3. \A j \in Live : j \in allocated /\ j # free_items
  BY <1>1, <1>2 DEF Shape, Held, Members
<1>4. \A j \in allocated : j = free_items \/ j \in Live
  BY <1>1, <1>2 DEF Shape, IInv, TypeOK
<1>5. i # NULL
  BY Used
<1>6. CASE free_items = i
  BY <1>3, <1>4, <1>5, <1>6 DEF PopOrCreate, IInv, Free
<1>7. CASE free_items = NULL /\ i = Fresh
  <2>1. allocated = Live
    BY <1>3, <1>4, <1>7, Used DEF IInv, TypeOK
  <2>2. Cardinality(Live) < Cardinality(Item) /\ Live \subseteq Item
    <3>1. Cardinality(Live) <= Entries /\ Cardinality(Live) \in Nat
      BY StoredFits
    <3>2. Cardinality(Item) > Entries /\ Cardinality(Item) \in Nat /\ Entries \in Nat
      BY Used, FS_CardinalityType DEF UsedByAgent
    <3>. QED BY <3>1, <3>2, StoredFits
  <2>3. allocated # Item
    BY <2>1, <2>2, StoredFits
  <2>4. \E j \in Item : j \notin allocated
    BY <2>1, <2>2, <2>3
  <2>5. i \notin allocated
    BY <1>7, <2>4 DEF Fresh
  <2>6. allocated' = allocated \cup {i} /\ free_items' = NULL
    BY <1>5, <1>7 DEF PopOrCreate
  <2>. QED BY <1>3, <2>1, <2>5, <2>6 DEF IInv, Free
<1>. QED BY <1>6, <1>7 DEF PopOrCreate

\* A sequence with one more record at its end.
LEMMA Appended ==
  ASSUME NEW s \in Seq(Item), NEW i \in Item, NEW d, d = Append(s, i)
  PROVE /\ d \in Seq(Item) /\ Len(s) \in Nat /\ Len(d) = Len(s) + 1
        /\ Members(d) = Members(s) \cup {i}
        /\ \A n \in 1 .. Len(s) : n \in 1 .. Len(d) /\ d[n] = s[n]
        /\ d[Len(s) + 1] = i
        /\ \A n \in 1 .. Len(d) : n \in 1 .. Len(s) \/ n = Len(s) + 1
<1>1. PICK l \in Nat : l = Len(s)
  OBVIOUS
<1>2. d \in Seq(Item) /\ Len(d) = l + 1 /\ d[l + 1] = i /\ \A n \in 1 .. l : d[n] = s[n]
  BY <1>1
<1>3. \A n \in 1 .. Len(d) : n \in 1 .. l \/ n = l + 1
  BY <1>2
<1>4. \A n \in 1 .. l : n \in 1 .. Len(d)
  BY <1>2
<1>5. l + 1 \in 1 .. Len(d)
  BY <1>2
<1>6. Members(d) = Members(s) \cup {i}
  <2>1. \A x \in Members(d) : x \in Members(s) \cup {i}
    BY <1>1, <1>2, <1>3 DEF Members
  <2>2. \A x \in Members(s) \cup {i} : x \in Members(d)
    BY <1>1, <1>2, <1>4, <1>5 DEF Members
  <2>. QED BY <2>1, <2>2
<1>. QED BY <1>1, <1>2, <1>3, <1>4, <1>6

\* The record where the new one is linked.
LEMMA LastIs ==
  ASSUME UsedByAgent, NEW c, Shape(c), NEW b \in Bucket
  PROVE /\ Len(c[b]) = 0 => LastOf(b) = {} /\ items[b] = NULL
        /\ Len(c[b]) # 0 => LastOf(b) = {c[b][Len(c[b])]} /\ items[b] # NULL
<1>. DEFINE s == c[b]
<1>1. /\ Len(s) \in Nat /\ \A n \in 1 .. Len(s) : s[n] \in Item /\ s[n] # NULL
      /\ IsChain(s, items[b]) /\ Chain(b) = Members(s)
  BY ChainItems, Used, Sets DEF Shape, Walked
<1>. HIDE DEF s
<1>2. PICK l \in Nat : l = Len(s)
  BY <1>1
<1>3. \A n \in 1 .. l : item[s[n]].next = NULL <=> n = l
  <2>. SUFFICES ASSUME NEW n \in 1 .. l PROVE item[s[n]].next = NULL <=> n = l
    OBVIOUS
  <2>1. item[s[n]].next = Nth(s, n + 1)
    BY <1>1, <1>2 DEF IsChain
  <2>2. n # l => n + 1 \in 1 .. l
    OBVIOUS
  <2>3. n = l => n + 1 \notin 1 .. l
    OBVIOUS
  <2>. QED BY <1>1, <1>2, <2>1, <2>2, <2>3 DEF Nth
<1>4. CASE l = 0
  <2>1. Members(s) = {}
    BY <1>2, <1>4 DEF Members
  <2>. QED BY <1>1, <1>2, <1>4, <2>1 DEF LastOf, IsChain, Nth, s
<1>5. CASE l # 0
  <2>1. l \in 1 .. l /\ 1 \in 1 .. l
    BY <1>5
  <2>2. LastOf(b) = {s[l]}
    BY <1>1, <1>2, <1>3, <2>1 DEF LastOf, Members
  <2>3. items[b] = s[1] /\ s[1] # NULL
    BY <1>1, <1>2, <2>1 DEF IsChain, Nth
  <2>. QED BY <1>2, <1>5, <2>2, <2>3 DEF s
<1>. QED BY <1>4, <1>5

\* lruc_set links a record at the end of its chain, and changes no other chain.
LEMMA Inserted ==
  ASSUME UsedByAgent, IInv, NEW k \in Key, NEW v \in Value, NEW len \in Lengths,
         Set(k, v, len), Insert(k, v, len)
  PROVE \E i \in Item :
          /\ i \notin Live /\ Live' = Live \cup {i}
          /\ item' \in [Item -> Record]
          /\ item'[i].key = k /\ item'[i].value = v /\ item'[i].access_count = access_count + 1
          /\ \A j \in Item \ {i} : Same(j)
          /\ items' \in [Bucket -> Item \cup {NULL}]
          /\ allocated' \subseteq Item /\ free_items' = NULL
          /\ (\E d : Shape(d)') /\ Free'
<1>. DEFINE b == Hash[k]
<1>1. PICK c : Shape(c)
  BY DEF IInv
<1>2. /\ Matches(k) = {} /\ required = 0 /\ len = Length
      /\ access_count + 1 \in 0 .. MaxAccess /\ b \in Bucket
  <2>1. Matches(k) = {} /\ pc = "idle" /\ access_count < MaxAccess
    BY DEF Insert, Set
  <2>2. required = 0 /\ access_count + 1 \in 0 .. MaxAccess
    BY <2>1, BoundAssumption DEF IInv, Balance, TypeOK
  <2>. QED BY <2>1, <2>2, Used, TableAssumption
<1>3. PICK i \in Item :
       /\ PopOrCreate(i)
       /\ Relink([item EXCEPT ![i].key = k, ![i].value = v,
                              ![i].value_length = len,
                              ![i].access_count = access_count + 1],
                 b, LastOf(b), i)
  BY DEF Insert
<1>4. /\ i \notin Live /\ item[i].next = NULL
      /\ allocated' = allocated \cup {i} /\ free_items' = NULL
      /\ \A j \in allocated : j = i \/ j \in Live
      /\ \A j \in Live : j \in allocated
  BY <1>2, <1>3, Popped
<1>. DEFINE r == [item[i] EXCEPT !.key = k, !.value = v, !.value_length = len,
                                 !.access_count = access_count + 1]
            f == [item EXCEPT ![i].key = k, ![i].value = v, ![i].value_length = len,
                              ![i].access_count = access_count + 1]
            s == c[b]
<1>. HIDE DEF b
<1>5. /\ item \in [Item -> Record] /\ items \in [Bucket -> Item \cup {NULL}]
  BY DEF IInv, TypeOK
<1>6. /\ r \in Record /\ r.next = NULL /\ r.key = k /\ r.value = v
      /\ r.value_length = Length /\ r.access_count = access_count + 1
  BY <1>2, <1>4, <1>5, ZenonT(30) DEF Record
<1>7. f \in [Item -> Record] /\ \A j \in Item : f[j] = IF j = i THEN r ELSE item[j]
  <2>1. f = [j \in Item |-> IF j = i THEN r ELSE item[j]]
    BY <1>3, <1>5
  <2>. HIDE DEF f, r
  <2>. QED BY <2>1, <1>5, <1>6
<1>8. /\ items' = IF LastOf(b) = {} THEN [items EXCEPT ![b] = i] ELSE items
      /\ item' = [j \in Item |-> IF j \in LastOf(b) THEN [f[j] EXCEPT !.next = i] ELSE f[j]]
  BY <1>3 DEF Relink
<1>. HIDE DEF f, r
<1>9. \A j \in LastOf(b) : j \in Live /\ j # i
  BY <1>1, <1>2, <1>4, Sets DEF LastOf, Live
<1>10. /\ item' \in [Item -> Record]
       /\ item'[i] = r
       /\ \A j \in Item \ {i} : /\ Same(j)
                                /\ item'[j].next = IF j \in LastOf(b) THEN i ELSE item[j].next
  <2>1. \A j \in Item : [f[j] EXCEPT !.next = i] \in Record
    BY <1>7 DEF Record
  <2>2. item' \in [Item -> Record]
    BY <1>7, <1>8, <2>1
  <2>3. item'[i] = r
    BY <1>7, <1>8, <1>9
  <2>4. ASSUME NEW j \in Item \ {i} 
        PROVE Same(j) /\ item'[j].next = IF j \in LastOf(b) THEN i ELSE item[j].next
    <3>1. f[j] = item[j] /\ item[j] \in Record
      BY <1>5, <1>7
    <3>2. item'[j] = IF j \in LastOf(b) THEN [item[j] EXCEPT !.next = i] ELSE item[j]
      BY <1>8, <3>1
    <3>. QED BY <3>1, <3>2 DEF Same, Record
  <2>. QED BY <2>2, <2>3, <2>4
<1>11. items' \in [Bucket -> Item \cup {NULL}]
  BY <1>5, <1>8
<1>. DEFINE d == [c EXCEPT ![b] = Append(s, i)]
<1>12. /\ s \in Seq(Item) /\ \A a \in Bucket : d[a] = IF a = b THEN Append(s, i) ELSE c[a]
       /\ c \in [Bucket -> Seq(Item)] /\ Append(s, i) \in Seq(Item)
       /\ \A a \in Bucket : c[a] \in Seq(Item)
  BY <1>1, <1>2 DEF Shape
<1>13. d \in [Bucket -> Seq(Item)]
  BY <1>12
<1>14. \A a \in Bucket : \A n \in 1 .. Len(c[a]) :
         /\ c[a][n] \in Item /\ c[a][n] # i /\ c[a][n] \in allocated
         /\ item'[c[a][n]].key = item[c[a][n]].key
         /\ item'[c[a][n]].value_length = item[c[a][n]].value_length
         /\ Held(c[a][n], a) /\ c[a][n] \in Live
  <2>. SUFFICES ASSUME NEW a \in Bucket, NEW n \in 1 .. Len(c[a])
                PROVE /\ c[a][n] \in Item /\ c[a][n] # i /\ c[a][n] \in allocated
                      /\ Same(c[a][n])
                      /\ Held(c[a][n], a) /\ c[a][n] \in Live
    BY DEF Same
  <2>1. c[a][n] \in Item /\ Held(c[a][n], a) /\ c[a][n] \in Live
    BY <1>1, ChainItems, Sets DEF Shape, Walked, Members
  <2>. QED BY <2>1, <1>4, <1>10 DEF Held
<1>15. \A n \in 1 .. Len(s) : item[s[n]].key # k
  <2>1. \A n \in 1 .. Len(s) : s[n] \in Chain(b)
    BY <1>1, <1>2, Sets DEF Walked, Members
  <2>. QED BY <2>1, <1>2 DEF Matches, b
<1>16. Held(i, b)'
  BY <1>4, <1>6, <1>10, Used DEF Held, b
<1>. HIDE DEF d, s
<1>17. PICK e : e = d[b] /\ e = Append(s, i)
  BY <1>2, <1>12
<1>18. PICK l \in Nat : l = Len(s)
  BY <1>12
<1>19. /\ e \in Seq(Item) /\ Len(e) = l + 1
       /\ \A n \in 1 .. l : n \in 1 .. Len(e) /\ e[n] = s[n]
       /\ e[l + 1] = i
       /\ \A n \in 1 .. Len(e) : n \in 1 .. l \/ n = l + 1
       /\ Members(e) = Members(s) \cup {i}
  BY <1>12, <1>17, <1>18, Appended, ZenonT(30)
<1>20. \A n \in 1 .. l : s[n] \in Item /\ s[n] # i /\ Held(s[n], b)' /\ Held(s[n], b)
                         /\ item'[s[n]].key = item[s[n]].key
  <2>1. \A n \in 1 .. l : /\ s[n] \in Item /\ s[n] # i /\ s[n] \in allocated
         /\ item'[s[n]].key = item[s[n]].key
         /\ item'[s[n]].value_length = item[s[n]].value_length
         /\ Held(s[n], b)
    BY <1>2, <1>14, <1>18 DEF s
  <2>. QED BY <2>1, <1>4, Used DEF Held
<1>21. \A n \in 1 .. Len(e) : Held(e[n], b)'
  BY <1>16, <1>19, <1>20
<1>22. \A m, n \in 1 .. Len(e) : item'[e[m]].key = item'[e[n]].key => m = n
  <2>1. \A m, n \in 1 .. l : item[s[m]].key = item[s[n]].key => m = n
    BY <1>1, <1>2, <1>18 DEF Shape, s
  <2>. QED BY <2>1, <1>6, <1>10, <1>15, <1>18, <1>19, <1>20
\* The chain of k ends with i, the others are as they were.
<1>23. IsChain(e, items[b])'
  <2>0. l \in Nat /\ IsChain(s, items[b])
    BY <1>1, <1>2 DEF Shape, s
  <2>1. CASE l = 0
    <3>1. LastOf(b) = {} /\ items'[b] = i
      BY <1>1, <1>2, <1>5, <1>8, <1>18, <2>1, LastIs DEF s
    <3>2. Nth(e, 1) = i /\ Nth(e, 2) = NULL /\ Len(e) = 1 /\ e[1] = i
      BY <1>19, <2>1 DEF Nth
    <3>3. item'[i].next = NULL
      BY <1>6, <1>10
    <3>4. \A n \in 1 .. Len(e) : n = 1
      BY <3>2
    <3>. QED BY <1>19, <3>1, <3>2, <3>3, <3>4 DEF IsChain
  <2>2. CASE l # 0
    <3>1. LastOf(b) = {s[l]} /\ items'[b] = items[b]
      BY <1>1, <1>2, <1>8, <1>18, <2>2, LastIs DEF s
    <3>2. items[b] = Nth(e, 1)
      BY <1>18, <1>19, <2>0, <2>2 DEF IsChain, Nth
    <3>3. \A n \in 1 .. Len(e) : item'[e[n]].next = Nth(e, n + 1)
      <4>. SUFFICES ASSUME NEW n \in 1 .. Len(e) PROVE item'[e[n]].next = Nth(e, n + 1)
        OBVIOUS
      <4>1. CASE n = l + 1
        <5>1. e[n] = i /\ item'[i].next = NULL
          BY <1>6, <1>10, <1>19, <4>1
        <5>2. Nth(e, n + 1) = NULL
          BY <1>19, <4>1 DEF Nth
        <5>. QED BY <5>1, <5>2
      <4>2. CASE n = l
        <5>1. n \in 1 .. l /\ s[n] \in LastOf(b) /\ s[n] \in Item \ {i}
          BY <1>20, <2>2, <3>1, <4>2
        <5>2. item'[s[n]].next = i
          BY <1>10, <5>1
        <5>3. e[n] = s[n] /\ Nth(e, n + 1) = i
          BY <1>19, <4>2, <5>1 DEF Nth
        <5>. QED BY <5>2, <5>3
      <4>3. CASE n \in 1 .. l /\ n # l
        <5>1. e[n] = s[n] /\ n + 1 \in 1 .. l /\ l \in 1 .. l
          BY <1>19, <4>3
        <5>2. s[n] # s[l]
          BY <2>0, <1>18, <4>3, <5>1 DEF IsChain
        <5>3. item'[s[n]].next = item[s[n]].next
          BY <1>10, <1>20, <3>1, <4>3, <5>2
        <5>4. item[s[n]].next = s[n + 1]
          BY <1>18, <2>0, <4>3, <5>1 DEF IsChain, Nth
        <5>5. Nth(e, n + 1) = s[n + 1]
          BY <1>19, <5>1 DEF Nth
        <5>. QED BY <5>1, <5>3, <5>4, <5>5
      <4>. QED BY <1>19, <4>1, <4>2, <4>3
    <3>4. \A m, n \in 1 .. Len(e) : e[m] = e[n] => m = n
      BY <1>22
    <3>. QED BY <1>19, <3>1, <3>2, <3>3, <3>4 DEF IsChain
  <2>. QED BY <2>1, <2>2
<1>24. ASSUME NEW a \in Bucket, a # b
       PROVE /\ d[a] = c[a] /\ IsChain(c[a], items[a])'
             /\ \A n \in 1 .. Len(c[a]) : Held(c[a][n], a)'
             /\ \A m, n \in 1 .. Len(c[a]) : item'[c[a][m]].key = item'[c[a][n]].key => m = n
  <2>1. d[a] = c[a] /\ items'[a] = items[a]
    BY <1>8, <1>12, <1>24, <1>5
  <2>2. \A n \in 1 .. Len(c[a]) : c[a][n] \notin LastOf(b)
    <3>1. \A j \in LastOf(b) : Hash[item[j].key] = b
      <4>1. LastOf(b) \subseteq Members(c[b])
        BY <1>1, <1>2, Sets DEF LastOf, Walked
      <4>2. \A n \in 1 .. Len(c[b]) : Hash[item[c[b][n]].key] = b
        BY <1>2, <1>14 DEF Held
      <4>. QED BY <4>1, <4>2 DEF Members
    <3>2. \A n \in 1 .. Len(c[a]) : Hash[item[c[a][n]].key] = a
      BY <1>14 DEF Held
    <3>. QED BY <3>1, <3>2, <1>24
  <2>3. \A n \in 1 .. Len(c[a]) : item'[c[a][n]].next = item[c[a][n]].next
    BY <1>10, <1>14, <2>2
  <2>4. IsChain(c[a], items[a])
    BY <1>1 DEF Shape
  <2>5. IsChain(c[a], items[a])'
    BY <2>1, <2>3, <2>4 DEF IsChain
  <2>6. \A n \in 1 .. Len(c[a]) : Held(c[a][n], a)'
    BY <1>4, <1>14, Used DEF Held
  <2>7. \A m, n \in 1 .. Len(c[a]) : item'[c[a][m]].key = item'[c[a][n]].key => m = n
    BY <1>1, <1>14 DEF Shape
  <2>. QED BY <2>1, <2>5, <2>6, <2>7
<1>25. \A j \in allocated' : \E a \in Bucket : j \in Members(d[a])
  <2>1. \A j \in Live : \E a \in Bucket : j \in Members(c[a])
    BY <1>1, Sets DEF Walked
  <2>2. \A a \in Bucket : Members(c[a]) \subseteq Members(d[a])
    BY <1>17, <1>19, <1>24 DEF s
  <2>3. i \in Members(d[b])
    BY <1>17, <1>19
  <2>. QED BY <1>2, <1>4, <2>1, <2>2, <2>3
<1>26. Shape(d)'
  <2>1. \A a \in Bucket : IsChain(d[a], items[a])'
    BY <1>17, <1>23, <1>24
  <2>2. \A a \in Bucket : \A n \in 1 .. Len(d[a]) : Held(d[a][n], a)'
    BY <1>17, <1>21, <1>24
  <2>3. \A a \in Bucket : \A m, n \in 1 .. Len(d[a]) : item'[d[a][m]].key = item'[d[a][n]].key => m = n
    BY <1>17, <1>22, <1>24, ZenonT(30)
  <2>. QED BY <1>13, <1>25, <2>1, <2>2, <2>3 DEF Shape
<1>27. Live' = Live \cup {i}
  <2>1. Live' = {j \in Item : \E a \in Bucket : j \in Members(d[a])}
    BY <1>26, SetsNext
  <2>2. Live = {j \in Item : \E a \in Bucket : j \in Members(c[a])}
    BY <1>1, Sets DEF Walked
  <2>3. \A a \in Bucket : Members(d[a]) = IF a = b THEN Members(c[a]) \cup {i} ELSE Members(c[a])
    BY <1>17, <1>19, <1>24 DEF s
  <2>. QED BY <1>2, <2>1, <2>2, <2>3
<1>28. Free'
  <2>1. \A j \in Item \ allocated' : j # i /\ j \notin allocated /\ j \notin LastOf(b)
    BY <1>4, <1>9
  <2>2. \A j \in Item \ allocated' : item'[j].next = NULL
    BY <1>10, <2>1 DEF IInv, Free
  <2>. QED BY <1>4, <2>2 DEF Free
<1>. QED BY <1>4, <1>5, <1>6, <1>10, <1>11, <1>26, <1>27, <1>28 DEF IInv, TypeOK
-----------------------------------------------------------------------------
(* lruc_remove_item. *)

\* A chain without its p-th record.
Cut(s, p) == [n \in 1 .. (Len(s) - 1) |-> IF n < p THEN s[n] ELSE s[n + 1]]

\* A sequence without its p-th element.
LEMMA CutIs ==
  ASSUME NEW S, NEW s \in Seq(S), NEW p \in 1 .. Len(s)
  PROVE /\ Cut(s, p) \in Seq(S) /\ Len(Cut(s, p)) = Len(s) - 1 /\ Len(s) \in Nat \ {0}
        /\ \A n \in 1 .. (Len(s) - 1) : Cut(s, p)[n] = IF n < p THEN s[n] ELSE s[n + 1]
<1>1. PICK l \in Nat : l = Len(s)
  OBVIOUS
<1>2. l # 0 /\ l - 1 \in Nat
  BY <1>1
<1>3. \A n \in 1 .. l : s[n] \in S
  BY <1>1
<1>4. Cut(s, p) \in [1 .. (l - 1) -> S]
  BY <1>1, <1>3 DEF Cut
<1>5. Cut(s, p) \in Seq(S) /\ Len(Cut(s, p)) = l - 1
  <2>1. \A f : f \in [1 .. (l - 1) -> S] => f \in Seq(S) /\ Len(f) = l - 1
    BY <1>2
  <2>. QED BY <1>4, <2>1
<1>. QED BY <1>1, <1>2, <1>5 DEF Cut

\* What a cut takes away.
LEMMA CutMembers ==
  ASSUME NEW S, NEW s \in Seq(S), NEW p \in 1 .. Len(s),
         \A m, n \in 1 .. Len(s) : s[m] = s[n] => m = n
  PROVE Members(Cut(s, p)) = Members(s) \ {s[p]}
<1>1. PICK l \in Nat \ {0} : l = Len(s)
  BY CutIs
<1>2. Len(Cut(s, p)) = l - 1 /\ \A n \in 1 .. (l - 1) : Cut(s, p)[n] = IF n < p THEN s[n] ELSE s[n + 1]
  BY <1>1, CutIs
<1>3. ASSUME NEW n \in 1 .. (l - 1) PROVE Cut(s, p)[n] \in Members(s) \ {s[p]}
  <2>1. CASE n < p
    <3>1. n \in 1 .. l /\ n # p /\ Cut(s, p)[n] = s[n]
      BY <1>2, <2>1
    <3>. QED BY <1>1, <3>1 DEF Members
  <2>2. CASE ~(n < p)
    <3>1. n + 1 \in 1 .. l /\ n + 1 # p /\ Cut(s, p)[n] = s[n + 1]
      BY <1>1, <1>2, <2>2
    <3>. QED BY <1>1, <3>1 DEF Members
  <2>. QED BY <2>1, <2>2
<1>4. ASSUME NEW n \in 1 .. l, n # p PROVE \E m \in 1 .. (l - 1) : s[n] = Cut(s, p)[m]
  <2>1. CASE n < p
    <3>1. n \in 1 .. (l - 1)
      BY <1>1, <2>1
    <3>. QED BY <1>2, <2>1, <3>1
  <2>2. CASE ~(n < p)
    <3>1. n - 1 \in 1 .. (l - 1) /\ ~(n - 1 < p) /\ (n - 1) + 1 = n
      BY <1>1, <1>4, <2>2
    <3>2. Cut(s, p)[n - 1] = s[(n - 1) + 1]
      BY <1>2, <3>1
    <3>. QED BY <3>1, <3>2
  <2>. QED BY <2>1, <2>2
<1>5. Members(Cut(s, p)) \subseteq Members(s) \ {s[p]}
  <2>1. Members(Cut(s, p)) = {Cut(s, p)[n] : n \in 1 .. (l - 1)}
    BY <1>2 DEF Members
  <2>. QED BY <1>3, <2>1
<1>6. Members(s) \ {s[p]} \subseteq Members(Cut(s, p))
  <2>1. Members(Cut(s, p)) = {Cut(s, p)[n] : n \in 1 .. (l - 1)}
    BY <1>2 DEF Members
  <2>2. \A x \in Members(s) \ {s[p]} : \E n \in 1 .. l : n # p /\ x = s[n]
    BY <1>1 DEF Members
  <2>. QED BY <1>4, <2>1, <2>2
<1>. QED BY <1>5, <1>6

\* The record whose link is changed.
LEMMA PredecessorIs ==
  ASSUME UsedByAgent, NEW c, Shape(c), NEW b \in Bucket, NEW p \in 1 .. Len(c[b])
  PROVE /\ p = 1 => Predecessor(b, c[b][p]) = {}
        /\ p # 1 => p - 1 \in 1 .. Len(c[b]) /\ Predecessor(b, c[b][p]) = {c[b][p - 1]}
<1>. DEFINE s == c[b]
<1>1. /\ Len(s) \in Nat /\ \A n \in 1 .. Len(s) : s[n] \in Item /\ s[n] # NULL
      /\ IsChain(s, items[b]) /\ Chain(b) = Members(s)
  <2>1. Len(s) \in Nat /\ \A n \in 1 .. Len(s) : s[n] \in Item
    BY ChainItems
  <2>2. NULL \notin Item
    BY Used
  <2>3. IsChain(s, items[b])
    BY DEF Shape
  <2>4. Chain(b) = Members(s)
    BY Sets DEF Walked
  <2>. HIDE DEF s
  <2>. QED BY <2>1, <2>2, <2>3, <2>4
<1>0. p \in 1 .. Len(s)
  OBVIOUS
<1>. HIDE DEF s
<1>2. PICK l \in Nat : l = Len(s) /\ p \in 1 .. l
  BY <1>0, <1>1
<1>3. ASSUME NEW n \in 1 .. l PROVE item[s[n]].next = s[p] <=> n + 1 = p
  <2>1. item[s[n]].next = Nth(s, n + 1)
    BY <1>1, <1>2 DEF IsChain
  <2>2. CASE n + 1 \in 1 .. l
    <3>1. item[s[n]].next = s[n + 1]
      BY <1>2, <2>1, <2>2 DEF Nth
    <3>. QED BY <1>1, <1>2, <2>2, <3>1 DEF IsChain
  <2>3. CASE n + 1 \notin 1 .. l
    <3>1. item[s[n]].next = NULL
      BY <1>2, <2>1, <2>3 DEF Nth
    <3>. QED BY <1>1, <1>2, <2>3, <3>1
  <2>. QED BY <2>2, <2>3
<1>4. Predecessor(b, s[p]) = {s[n] : n \in {n \in 1 .. l : n + 1 = p}}
  <2>1. Predecessor(b, s[p]) = {j \in Members(s) : item[j].next = s[p]}
    BY <1>1 DEF Predecessor
  <2>. QED BY <1>2, <1>3, <2>1 DEF Members
<1>5. CASE p = 1
  BY <1>4, <1>5 DEF s
<1>6. CASE p # 1
  <2>1. p - 1 \in 1 .. l /\ \A n \in 1 .. l : n + 1 = p <=> n = p - 1
    BY <1>1, <1>2, <1>6
  <2>2. Predecessor(b, s[p]) = {s[p - 1]}
    BY <1>4, <2>1
  <2>. QED BY <1>2, <1>6, <2>1, <2>2 DEF s
<1>. QED BY <1>5, <1>6

\* lruc_remove_item takes one record out of its chain, and changes no other chain.
LEMMA Removed ==
  ASSUME UsedByAgent, IInv, free_items = NULL, NEW b \in Bucket, NEW i \in Chain(b), RemoveItem(b, i)
  PROVE /\ i \in Live /\ Live' = Live \ {i}
        /\ item' \in [Item -> Record] /\ free_memory' = free_memory + Length
        /\ \A j \in Item \ {i} : Same(j)
        /\ items' \in [Bucket -> Item \cup {NULL}]
        /\ allocated' = allocated /\ free_items' = i
        /\ (\E d : Shape(d)') /\ Free'
<1>1. PICK c : Shape(c)
  BY DEF IInv
<1>. DEFINE s == c[b]
            prev == Predecessor(b, i)
            z == [Zeroed EXCEPT !.next = NULL]
            f == [item EXCEPT ![i] = z]
<1>2. /\ IsChain(s, items[b]) /\ Members(s) = Chain(b)
      /\ Len(s) \in Nat /\ s \in Seq(Item) /\ \A n \in 1 .. Len(s) : s[n] \in Item /\ s[n] # NULL /\ Held(s[n], b)
  BY <1>1, ChainItems, Used, Sets, SMTT(30) DEF Shape, Walked
<1>. HIDE DEF s
<1>3. PICK l \in Nat : l = Len(s)
  BY <1>2
<1>4. PICK p \in 1 .. l : s[p] = i
  BY <1>2, <1>3 DEF Members
<1>5. i \in Item /\ Held(i, b) /\ i \in Live
  BY <1>2, <1>3, <1>4 DEF Live
<1>6. /\ p = 1 => prev = {}
      /\ p # 1 => p - 1 \in 1 .. l /\ prev = {s[p - 1]} /\ s[p - 1] # i
  <2>1. /\ p = 1 => prev = {}
        /\ p # 1 => p - 1 \in 1 .. l /\ prev = {s[p - 1]}
    <3>1. p \in 1 .. Len(c[b]) /\ c[b][p] = i /\ l = Len(c[b])
      BY <1>3, <1>4 DEF s
    <3>2. /\ p = 1 => Predecessor(b, c[b][p]) = {}
          /\ p # 1 => p - 1 \in 1 .. Len(c[b]) /\ Predecessor(b, c[b][p]) = {c[b][p - 1]}
      BY <1>1, <3>1, PredecessorIs, ZenonT(30)
    <3>. QED BY <3>1, <3>2 DEF s
  <2>2. ASSUME p # 1 PROVE s[p - 1] # i
    BY <1>2, <1>3, <1>4, <2>1, <2>2 DEF IsChain
  <2>. QED BY <2>1, <2>2
<1>7. prev \subseteq Item \ {i}
  BY <1>2, <1>3, <1>6
<1>8. /\ item \in [Item -> Record] /\ items \in [Bucket -> Item \cup {NULL}]
  BY DEF IInv, TypeOK
<1>9. z \in Record /\ z.next = NULL
  BY BoundAssumption DEF Zeroed, Record
<1>10. /\ items' = IF prev = {} THEN [items EXCEPT ![b] = item[i].next] ELSE items
       /\ item' = [j \in Item |-> IF j \in prev THEN [f[j] EXCEPT !.next = item[i].next] ELSE f[j]]
       /\ free_memory' = free_memory + item[i].value_length
       /\ free_items' = i /\ allocated' = allocated
  BY DEF RemoveItem, Relink
<1>. HIDE DEF z, prev
<1>11. \A j \in Item : f[j] = IF j = i THEN z ELSE item[j]
  BY <1>5, <1>8
<1>. HIDE DEF f
<1>12. /\ item' \in [Item -> Record]
       /\ item'[i].next = NULL
       /\ \A j \in Item \ {i} : /\ Same(j)
                                /\ item'[j].next = IF j \in prev THEN item[i].next ELSE item[j].next
  <2>1. \A j \in Item : f[j] \in Record /\ [f[j] EXCEPT !.next = item[i].next] \in Record
    BY <1>5, <1>8, <1>9, <1>11 DEF Record
  <2>2. item' \in [Item -> Record]
    BY <1>10, <2>1
  <2>3. item'[i].next = NULL
    BY <1>5, <1>7, <1>9, <1>10, <1>11
  <2>4. ASSUME NEW j \in Item \ {i} 
        PROVE Same(j) /\ item'[j].next = IF j \in prev THEN item[i].next ELSE item[j].next
    <3>1. f[j] = item[j] /\ item[j] \in Record
      BY <1>8, <1>11
    <3>2. item'[j] = IF j \in prev THEN [item[j] EXCEPT !.next = item[i].next] ELSE item[j]
      BY <1>10, <3>1
    <3>. QED BY <3>1, <3>2 DEF Same, Record
  <2>. QED BY <2>2, <2>3, <2>4
<1>13. items' \in [Bucket -> Item \cup {NULL}]
  <2>1. item[i].next \in Item \cup {NULL}
    BY <1>5, <1>8 DEF Record
  <2>. QED BY <1>8, <1>10, <2>1
<1>. DEFINE e == Cut(s, p)
            d == [c EXCEPT ![b] = e]
<1>14. /\ e \in Seq(Item) /\ Len(e) = l - 1 /\ l \in Nat \ {0}
       /\ \A n \in 1 .. (l - 1) : e[n] = IF n < p THEN s[n] ELSE s[n + 1]
       /\ Members(e) = Members(s) \ {i}
  BY <1>2, <1>3, <1>4, CutIs, CutMembers DEF IsChain
<1>. HIDE DEF e
<1>15. /\ c \in [Bucket -> Seq(Item)] /\ d \in [Bucket -> Seq(Item)]
       /\ \A a \in Bucket : d[a] = IF a = b THEN e ELSE c[a]
  BY <1>1, <1>14 DEF Shape
<1>. HIDE DEF d
\* Where the records of the shorter chain were.
<1>. DEFINE from(n) == IF n < p THEN n ELSE n + 1
<1>16. \A n \in 1 .. (l - 1) : from(n) \in 1 .. l /\ from(n) # p /\ e[n] = s[from(n)] /\ e[n] \in Item /\ e[n] # i
  <2>. SUFFICES ASSUME NEW n \in 1 .. (l - 1)
                PROVE from(n) \in 1 .. l /\ from(n) # p /\ e[n] = s[from(n)] /\ e[n] \in Item /\ e[n] # i
    OBVIOUS
  <2>1. from(n) \in 1 .. l /\ from(n) # p /\ e[n] = s[from(n)]
    BY <1>4, <1>14
  <2>. HIDE DEF from
  <2>. QED BY <1>2, <1>3, <1>4, <2>1 DEF IsChain
<1>17. \A m, n \in 1 .. (l - 1) : from(m) = from(n) => m = n
  BY <1>4
<1>18. \A n \in 1 .. (l - 1) : e[n] \in prev <=> n + 1 = p
  <2>. SUFFICES ASSUME NEW n \in 1 .. (l - 1) PROVE e[n] \in prev <=> n + 1 = p
    OBVIOUS
  <2>1. CASE p = 1
    BY <1>6, <2>1
  <2>2. CASE p # 1
    <3>1. e[n] \in prev <=> from(n) = p - 1
      <4>1. from(n) \in 1 .. l /\ e[n] = s[from(n)]
        BY <1>16
      <4>. HIDE DEF from
      <4>. QED BY <1>2, <1>3, <1>6, <2>2, <4>1 DEF IsChain
    <3>2. from(n) = p - 1 <=> n + 1 = p
      BY <1>4
    <3>. QED BY <3>1, <3>2
  <2>. QED BY <2>1, <2>2
<1>19. IsChain(e, items[b])'
  <2>1. items'[b] = Nth(e, 1)
    <3>1. CASE p = 1
      <4>1. items'[b] = item[i].next
        BY <1>6, <1>8, <1>10, <3>1
      <4>2. item[i].next = Nth(s, 2)
        BY <1>2, <1>3, <1>4, <3>1 DEF IsChain
      <4>3. Nth(s, 2) = Nth(e, 1)
        BY <1>3, <1>14, <3>1 DEF Nth
      <4>. QED BY <4>1, <4>2, <4>3
    <3>2. CASE p # 1
      <4>1. items'[b] = items[b]
        BY <1>6, <1>10, <3>2
      <4>2. items[b] = Nth(s, 1)
        BY <1>2 DEF IsChain
      <4>3. Nth(s, 1) = Nth(e, 1)
        BY <1>3, <1>4, <1>14, <3>2 DEF Nth
      <4>. QED BY <4>1, <4>2, <4>3
    <3>. QED BY <3>1, <3>2
  <2>2. ASSUME NEW n \in 1 .. (l - 1) PROVE item'[e[n]].next = Nth(e, n + 1)
    <3>1. CASE n + 1 = p
      <4>1. item'[e[n]].next = item[i].next
        BY <1>12, <1>16, <1>18, <3>1
      <4>2. item[i].next = Nth(s, p + 1)
        BY <1>2, <1>3, <1>4 DEF IsChain
      <4>3. Nth(s, p + 1) = Nth(e, n + 1)
        BY <1>3, <1>4, <1>14, <3>1 DEF Nth
      <4>. QED BY <4>1, <4>2, <4>3
    <3>2. CASE n + 1 # p
      <4>1. item'[e[n]].next = item[e[n]].next
        BY <1>12, <1>16, <1>18, <3>2
      <4>2. item[s[from(n)]].next = Nth(s, from(n) + 1)
        BY <1>2, <1>3, <1>16 DEF IsChain
      <4>3. Nth(s, from(n) + 1) = Nth(e, n + 1)
        <5>1. CASE n < p
          BY <1>3, <1>4, <1>14, <3>2, <5>1 DEF Nth
        <5>2. CASE ~(n < p)
          BY <1>3, <1>4, <1>14, <3>2, <5>2 DEF Nth
        <5>. QED BY <5>1, <5>2
      <4>. QED BY <1>16, <4>1, <4>2, <4>3
    <3>. QED BY <3>1, <3>2
  <2>3. \A m, n \in 1 .. (l - 1) : e[m] = e[n] => m = n
    <3>. SUFFICES ASSUME NEW m \in 1 .. (l - 1), NEW n \in 1 .. (l - 1), e[m] = e[n] PROVE m = n
      OBVIOUS
    <3>1. from(m) = from(n)
      <4>1. from(m) \in 1 .. l /\ from(n) \in 1 .. l /\ s[from(m)] = s[from(n)]
        BY <1>16
      <4>. HIDE DEF from
      <4>. QED BY <1>2, <1>3, <4>1 DEF IsChain
    <3>. QED BY <1>17, <3>1
  <2>. QED BY <1>14, <2>1, <2>2, <2>3 DEF IsChain
<1>20. \A n \in 1 .. l : Hash[item[s[n]].key] = b /\ s[n] \in allocated /\ item[s[n]].key \in Key
                         /\ item[s[n]].value_length = Length
  BY <1>2, <1>3 DEF Held
<1>21. \A n \in 1 .. (l - 1) : Held(e[n], b)' /\ item'[e[n]].key = item[s[from(n)]].key
  <2>. SUFFICES ASSUME NEW n \in 1 .. (l - 1)
                PROVE Held(e[n], b)' /\ item'[e[n]].key = item[s[from(n)]].key
    OBVIOUS
  <2>1. from(n) \in 1 .. l /\ e[n] = s[from(n)] /\ e[n] \in Item \ {i}
    BY <1>16
  <2>2. /\ item'[e[n]].key = item[s[from(n)]].key
        /\ item'[e[n]].value_length = item[s[from(n)]].value_length
    BY <1>12, <2>1 DEF Same
  <2>. HIDE DEF from
  <2>. QED BY <1>10, <1>20, <2>1, <2>2 DEF Held
<1>22. \A m, n \in 1 .. (l - 1) : item'[e[m]].key = item'[e[n]].key => m = n
  <2>. SUFFICES ASSUME NEW m \in 1 .. (l - 1), NEW n \in 1 .. (l - 1), item'[e[m]].key = item'[e[n]].key PROVE m = n
    OBVIOUS
  <2>1. from(m) = from(n)
    <3>1. from(m) \in 1 .. l /\ from(n) \in 1 .. l /\ item[s[from(m)]].key = item[s[from(n)]].key
      BY <1>16, <1>21
    <3>2. \A j, k \in 1 .. l : item[s[j]].key = item[s[k]].key => j = k
      BY <1>1, <1>3 DEF Shape, s
    <3>. HIDE DEF from
    <3>. QED BY <3>1, <3>2
  <2>. QED BY <1>17, <2>1
<1>. HIDE DEF from
<1>23. ASSUME NEW a \in Bucket, a # b
       PROVE /\ d[a] = c[a] /\ IsChain(c[a], items[a])'
             /\ \A n \in 1 .. Len(c[a]) : Held(c[a][n], a)'
             /\ \A m, n \in 1 .. Len(c[a]) : item'[c[a][m]].key = item'[c[a][n]].key => m = n
  <2>1. d[a] = c[a] /\ items'[a] = items[a]
    BY <1>8, <1>10, <1>15, <1>23
  <2>2. \A n \in 1 .. Len(c[a]) : c[a][n] \in Item /\ Held(c[a][n], a)
    BY <1>1, ChainItems DEF Shape
  <2>3. \A n \in 1 .. Len(c[a]) : c[a][n] \notin prev /\ c[a][n] # i
    <3>1. \A j \in prev \cup {i} : Hash[item[j].key] = b
      BY <1>4, <1>6, <1>20
    <3>2. \A n \in 1 .. Len(c[a]) : Hash[item[c[a][n]].key] = a
      BY <2>2 DEF Held
    <3>. QED BY <3>1, <3>2, <1>23
  <2>4. \A n \in 1 .. Len(c[a]) : /\ item'[c[a][n]].next = item[c[a][n]].next
                                  /\ item'[c[a][n]].key = item[c[a][n]].key
                                  /\ item'[c[a][n]].value_length = item[c[a][n]].value_length
    BY <1>12, <2>2, <2>3 DEF Same
  <2>5. IsChain(c[a], items[a])
    BY <1>1 DEF Shape
  <2>6. IsChain(c[a], items[a])'
    BY <2>1, <2>4, <2>5 DEF IsChain
  <2>7. \A n \in 1 .. Len(c[a]) : Held(c[a][n], a)'
    BY <1>10, <2>2, <2>3, <2>4 DEF Held
  <2>8. \A m, n \in 1 .. Len(c[a]) : item'[c[a][m]].key = item'[c[a][n]].key => m = n
    BY <1>1, <2>4 DEF Shape
  <2>. QED BY <2>1, <2>6, <2>7, <2>8
<1>24. \A a \in Bucket : Members(d[a]) = Members(c[a]) \ {i}
  <2>1. Members(d[b]) = Members(c[b]) \ {i}
    BY <1>14, <1>15 DEF s
  <2>2. ASSUME NEW a \in Bucket, a # b PROVE i \notin Members(c[a])
    <3>1. \A n \in 1 .. Len(c[a]) : Held(c[a][n], a)
      BY <1>1 DEF Shape
    <3>2. Hash[item[i].key] = b
      BY <1>5 DEF Held
    <3>. QED BY <2>2, <3>1, <3>2 DEF Held, Members
  <2>3. \A a \in Bucket : a # b => d[a] = c[a]
    BY <1>15
  <2>. QED BY <2>1, <2>2, <2>3
<1>25. \A j \in allocated' : j = free_items' \/ \E a \in Bucket : j \in Members(d[a])
  <2>1. \A j \in allocated : \E a \in Bucket : j \in Members(c[a])
    <3>1. NULL \notin allocated
      BY Used DEF IInv, TypeOK
    <3>. QED BY <1>1, <3>1 DEF Shape
  <2>. QED BY <1>10, <1>24, <2>1
<1>26. Shape(d)'
  <2>1. d[b] = e /\ \A a \in Bucket : a # b => d[a] = c[a]
    BY <1>15
  <2>2. \A a \in Bucket : IsChain(d[a], items[a])'
    BY <1>19, <1>23, <2>1
  <2>3. \A a \in Bucket : \A n \in 1 .. Len(d[a]) : Held(d[a][n], a)'
    BY <1>14, <1>21, <1>23, <2>1
  <2>4. \A a \in Bucket : \A m, n \in 1 .. Len(d[a]) : item'[d[a][m]].key = item'[d[a][n]].key => m = n
    BY <1>14, <1>22, <1>23, <2>1
  <2>. QED BY <1>15, <1>25, <2>2, <2>3, <2>4 DEF Shape
<1>27. Live' = Live \ {i}
  <2>1. Live' = {j \in Item : \E a \in Bucket : j \in Members(d[a])}
    BY <1>26, SetsNext
  <2>2. Live = {j \in Item : \E a \in Bucket : j \in Members(c[a])}
    BY <1>1, Sets DEF Walked
  <2>. QED BY <1>24, <2>1, <2>2
<1>28. Free'
  <2>1. \A j \in Item \ allocated : j # i /\ j \notin prev
    BY <1>4, <1>6, <1>20
  <2>2. \A j \in Item \ allocated : item'[j].next = NULL
    BY <1>12, <2>1 DEF IInv, Free
  <2>. QED BY <1>4, <1>10, <1>12, <1>20, <2>2 DEF Free
<1>29. free_memory' = free_memory + Length
  BY <1>5, <1>10 DEF Held
<1>. QED BY <1>5, <1>10, <1>12, <1>13, <1>26, <1>27, <1>28, <1>29
-----------------------------------------------------------------------------
(* The invariant is kept. *)

\* lruc_set on a new key: one record more, not paid for yet.
LEMMA InsertInv ==
  ASSUME UsedByAgent, IInv, NEW k \in Key, NEW v \in Value, NEW len \in Lengths,
         Set(k, v, len), Insert(k, v, len)
  PROVE IInv'
<1>1. PICK i \in Item :
          /\ i \notin Live /\ Live' = Live \cup {i}
          /\ item' \in [Item -> Record]
          /\ items' \in [Bucket -> Item \cup {NULL}]
          /\ allocated' \subseteq Item /\ free_items' = NULL
          /\ (\E d : Shape(d)') /\ Free'
  BY Inserted
<1>2. /\ required' = Length /\ pc' = "evict" /\ free_memory' = free_memory /\ out' = out
      /\ access_count' = access_count + 1 /\ access_count < MaxAccess /\ pc = "idle"
  BY Used DEF Insert, Set
<1>3. TypeOK'
  BY <1>1, <1>2, Used, MemoryAssumption, BoundAssumption DEF IInv, TypeOK
<1>4. Balance'
  <2>1. PICK n \in Nat : n = Cardinality(Live) /\ Cardinality(Live') = n + 1
    BY <1>1, StoredFits, FS_AddElement
  <2>2. PICK l \in Nat : l = Length
    BY Used
  <2>3. required = 0 /\ free_memory + l * n = TotalMemory + 0 /\ free_memory \in Nat /\ TotalMemory \in Nat
    BY <1>2, <2>1, <2>2, MemoryAssumption DEF IInv, Balance, TypeOK
  <2>4. l * (n + 1) = l * n + l /\ l * n \in Nat
    BY <2>1, <2>2
  <2>5. free_memory + l * (n + 1) = TotalMemory + l
    BY <2>3, <2>4
  <2>. QED BY <1>1, <1>2, <2>1, <2>2, <2>5 DEF Balance
<1>. QED BY <1>1, <1>3, <1>4 DEF IInv

\* What a removal does to the memory.
LEMMA Returned ==
  ASSUME UsedByAgent, IInv, NEW i \in Live
  PROVE \E n \in Nat, l \in Nat \ {0} :
          /\ l = Length /\ Cardinality(Live) = n + 1 /\ Cardinality(Live \ {i}) = n
          /\ free_memory + l + l * n = TotalMemory + required
          /\ l * n \in Nat /\ n # 0 => l * n >= l
<1>1. PICK m \in Nat : m = Cardinality(Live)
  BY StoredFits
<1>2. m # 0 /\ Cardinality(Live \ {i}) = m - 1
  BY <1>1, StoredFits, FS_EmptySet, FS_RemoveElement
<1>3. PICK n \in Nat : n = m - 1 /\ m = n + 1
  BY <1>1, <1>2
<1>4. PICK l \in Nat \ {0} : l = Length
  BY Used
<1>5. free_memory + l * (n + 1) = TotalMemory + required /\ free_memory \in Nat
  BY <1>1, <1>3, <1>4 DEF IInv, Balance, TypeOK
<1>6. l * (n + 1) = l + l * n /\ l * n \in Nat
  BY <1>3, <1>4
<1>7. free_memory + (l + l * n) = free_memory + l + l * n
  BY <1>5, <1>6
<1>8. n # 0 => l * n >= l
  BY <1>3, <1>4
<1>. QED BY <1>1, <1>2, <1>3, <1>4, <1>5, <1>6, <1>7, <1>8

\* A round of the eviction loop finds a record to remove: the one used least recently.
LEMMA EvictInv ==
  ASSUME UsedByAgent, IInv, Evict
  PROVE IInv' /\ \E i \in Oldest : Live' = Live \ {i} /\ \A j \in Item \ {i} : Same(j)
<1>1. /\ pc = "evict" /\ free_memory < required /\ free_items = NULL /\ required = Length
      /\ UNCHANGED <<access_count, pc, required, out>>
  <2>1. pc = "evict" /\ free_memory < required /\ UNCHANGED <<access_count, pc, required, out>>
    BY DEF Evict
  <2>2. free_items = NULL /\ required \in {0, Length} /\ free_memory \in Nat
    BY <2>1 DEF IInv, Balance, TypeOK
  <2>3. required # 0
    BY <2>1, <2>2
  <2>. QED BY <2>1, <2>2, <2>3
<1>2. Live # {}
  <2>1. SUFFICES ASSUME Live = {} PROVE FALSE
    OBVIOUS
  <2>2. Length * Cardinality(Live) = 0
    BY <2>1, FS_EmptySet, Used
  <2>3. free_memory + 0 = TotalMemory + required
    BY <2>2 DEF IInv, Balance
  <2>. QED BY <1>1, <2>3, MemoryAssumption DEF IInv, TypeOK
<1>3. PICK b \in Bucket : \E i \in Oldest \cap Chain(b) : RemoveItem(b, i)
  BY <1>2 DEF Evict
<1>4. PICK i \in Oldest \cap Chain(b) : RemoveItem(b, i)
  BY <1>3
<1>5. /\ i \in Live /\ Live' = Live \ {i}
      /\ item' \in [Item -> Record] /\ free_memory' = free_memory + Length
      /\ \A j \in Item \ {i} : Same(j)
      /\ items' \in [Bucket -> Item \cup {NULL}]
      /\ allocated' = allocated /\ free_items' = i
      /\ (\E d : Shape(d)') /\ Free'
  BY <1>1, <1>4, Removed
<1>6. PICK n \in Nat, l \in Nat \ {0} :
          /\ l = Length /\ Cardinality(Live) = n + 1 /\ Cardinality(Live \ {i}) = n
          /\ free_memory + l + l * n = TotalMemory + required
          /\ l * n \in Nat /\ n # 0 => l * n >= l
  BY <1>5, Returned
<1>7. free_memory \in Nat /\ TotalMemory \in Nat /\ l <= TotalMemory
  BY <1>6, Used, MemoryAssumption DEF IInv, TypeOK
<1>8. n # 0
  BY <1>1, <1>6, <1>7
<1>9. free_memory + l <= TotalMemory
  BY <1>1, <1>6, <1>7, <1>8
<1>10. TypeOK'
  <2>1. i \in Item
    BY <1>5, StoredFits
  <2>2. free_memory' \in 0 .. TotalMemory
    BY <1>5, <1>6, <1>7, <1>9
  <2>. QED BY <1>1, <1>5, <2>1, <2>2 DEF IInv, TypeOK
<1>11. Balance'
  <2>1. free_memory' + Length * Cardinality(Live') = TotalMemory + required'
    BY <1>1, <1>5, <1>6
  <2>2. ~(free_memory' < required')
    BY <1>1, <1>5, <1>6, <1>7
  <2>. QED BY <1>1, <2>1, <2>2 DEF Balance
<1>. QED BY <1>4, <1>5, <1>10, <1>11 DEF IInv

\* lruc_delete removes the record of its key, if there is one.
LEMMA DeleteInv ==
  ASSUME UsedByAgent, IInv, NEW k \in Key, Delete(k)
  PROVE IInv' /\ \E i \in Matches(k) : Live' = Live \ {i} /\ \A j \in Item \ {i} : Same(j)
<1>1. /\ pc = "idle" /\ required = 0 /\ Cardinality(FreeQueue) < MaxFree
      /\ UNCHANGED <<access_count, pc, required, out>>
  BY DEF Delete, IInv, Balance
<1>2. free_items = NULL
  <2>1. FreeQueue = {free_items} \ {NULL}
    BY FreeSet DEF IInv
  <2>2. SUFFICES ASSUME free_items # NULL PROVE FALSE
    OBVIOUS
  <2>3. Cardinality(FreeQueue) = 1
    BY <2>1, <2>2, FS_Singleton
  <2>. QED BY <1>1, <2>3, BoundAssumption DEF UsedByAgent
<1>3. PICK i \in Matches(k) : RemoveItem(Hash[k], i)
  BY DEF Delete
<1>4. Hash[k] \in Bucket /\ i \in Chain(Hash[k])
  BY TableAssumption DEF Matches
<1>5. /\ i \in Live /\ Live' = Live \ {i}
      /\ item' \in [Item -> Record] /\ free_memory' = free_memory + Length
      /\ \A j \in Item \ {i} : Same(j)
      /\ items' \in [Bucket -> Item \cup {NULL}]
      /\ allocated' = allocated /\ free_items' = i
      /\ (\E d : Shape(d)') /\ Free'
  BY <1>2, <1>3, <1>4, Removed
<1>6. PICK n \in Nat, l \in Nat \ {0} :
          /\ l = Length /\ Cardinality(Live) = n + 1 /\ Cardinality(Live \ {i}) = n
          /\ free_memory + l + l * n = TotalMemory + required
          /\ l * n \in Nat /\ n # 0 => l * n >= l
  BY <1>5, Returned
<1>7. free_memory \in Nat /\ TotalMemory \in Nat
  BY MemoryAssumption DEF IInv, TypeOK
<1>8. TypeOK'
  <2>1. i \in Item
    BY <1>5, StoredFits
  <2>2. free_memory' \in 0 .. TotalMemory
    BY <1>1, <1>5, <1>6, <1>7
  <2>. QED BY <1>1, <1>5, <2>1, <2>2 DEF IInv, TypeOK
<1>9. Balance'
  <2>1. free_memory' + Length * Cardinality(Live') = TotalMemory + required'
    BY <1>1, <1>5, <1>6
  <2>. QED BY <1>1, <2>1 DEF Balance
<1>. QED BY <1>3, <1>5, <1>8, <1>9 DEF IInv

\* A step that changes nothing.
LEMMA StutterInv == ASSUME UsedByAgent, IInv, UNCHANGED vars PROVE IInv' /\ Live' = Live
<1>1. PICK c : Shape(c)
  BY DEF IInv
<1>2. Shape(c)' /\ Free' /\ Live' = Live
  BY <1>1, LinksKept DEF IInv, vars
<1>3. TypeOK'
  BY DEF IInv, TypeOK, vars
<1>4. Balance'
  BY <1>2 DEF IInv, Balance, vars
<1>. QED BY <1>2, <1>3, <1>4 DEF IInv

\* Every call of lru.c keeps the shape of the chains and the balance.
THEOREM Invariance == UsedByAgent => (Spec => []IInv)
<1>. SUFFICES ASSUME UsedByAgent PROVE Spec => []IInv
  OBVIOUS
<1>1. Init => IInv
  BY InitInv
<1>2. IInv /\ [Next]_vars => IInv'
  <2>. SUFFICES ASSUME IInv, [Next]_vars PROVE IInv'
    OBVIOUS
  <2>1. ASSUME NEW k \in Key, Get(k) PROVE IInv'
    BY <2>1, GetInv
  <2>2. ASSUME NEW k \in Key, NEW v \in Value, NEW len \in Lengths, Set(k, v, len) PROVE IInv'
    BY <2>2, UpdateInv, InsertInv DEF Set
  <2>3. ASSUME NEW k \in Key, Delete(k) PROVE IInv'
    BY <2>3, DeleteInv
  <2>4. CASE Evict
    BY <2>4, EvictInv
  <2>5. CASE FinishSet
    BY <2>5, FinishSetInv
  <2>6. CASE UNCHANGED vars
    BY <2>6, StutterInv
  <2>. QED BY <2>1, <2>2, <2>3, <2>4, <2>5, <2>6 DEF Next
<1>. QED BY <1>1, <1>2, PTL DEF Spec

-----------------------------------------------------------------------------
(***************************************************************************)
(* lruc_get walks the records of one chain, each with a key of its own,    *)
(* and lruc_pop_or_create_item never hands out a record a chain still      *)
(* holds: every record from calloc is in one chain or in the free queue.   *)
(***************************************************************************)
THEOREM RecordsAlwaysSound == UsedByAgent => (Spec => []RecordsSound)
<1>. SUFFICES ASSUME UsedByAgent PROVE Spec => []RecordsSound
  OBVIOUS
<1>1. IInv => RecordsSound
  <2>. SUFFICES ASSUME IInv PROVE RecordsSound
    OBVIOUS
  <2>1. PICK c : Shape(c)
    BY DEF IInv
  <2>2. /\ \A b \in Bucket : Chain(b) = Members(c[b])
        /\ Live = {i \in Item : \E b \in Bucket : i \in Members(c[b])}
    BY <2>1, Sets DEF Walked
  <2>3. FreeQueue = {free_items} \ {NULL}
    BY FreeSet DEF IInv
  <2>4. \A b \in Bucket : \A i \in Chain(b) : i \in Item /\ Held(i, b)
    BY <2>1, <2>2, ChainItems DEF Shape, Members
  <2>5. \A i \in Live : \E b \in Bucket : i \in Chain(b)
    BY <2>2
  <2>6. FreeQueueSeparate
    BY <2>3, <2>4, <2>5 DEF FreeQueueSeparate, Held
  <2>7. Live \cup FreeQueue = allocated
    <3>1. Live \cup FreeQueue \subseteq allocated
      BY <2>3, <2>4, <2>5 DEF Held, IInv, Free
    <3>2. allocated \subseteq Live \cup FreeQueue
      <4>1. \A i \in allocated : i = free_items \/ \E b \in Bucket : i \in Members(c[b])
        BY <2>1 DEF Shape
      <4>2. allocated \subseteq Item /\ NULL \notin Item
        BY Used DEF IInv, TypeOK
      <4>. QED BY <2>2, <2>3, <4>1, <4>2
    <3>. QED BY <3>1, <3>2
  <2>8. ASSUME NEW b \in Bucket, NEW i \in Chain(b)
        PROVE /\ item[i].key # NULL /\ Hash[item[i].key] = b
              /\ \A j \in Live : item[j].key = item[i].key => j = i
    <3>1. Held(i, b)
      BY <2>4
    <3>2. item[i].key # NULL /\ Hash[item[i].key] = b
      BY <3>1, TableAssumption DEF Held
    <3>3. ASSUME NEW j \in Live, item[j].key = item[i].key PROVE j = i
      <4>1. PICK a \in Bucket : j \in Chain(a) /\ Held(j, a)
        BY <2>4, <2>5
      <4>2. a = b
        BY <3>2, <3>3, <4>1 DEF Held
      <4>3. \A m, n \in 1 .. Len(c[b]) : item[c[b][m]].key = item[c[b][n]].key => m = n
        BY <2>1 DEF Shape
      <4>. QED BY <2>2, <3>3, <4>1, <4>2, <4>3 DEF Members
    <3>. QED BY <3>2, <3>3
  <2>. QED BY <2>6, <2>7, <2>8 DEF RecordsSound, TableConsistent, IInv
<1>. QED BY <1>1, Invariance, PTL

\* The sum over a set of records of one length.
LEMMA SumOfLengths ==
  ASSUME NEW S, IsFiniteSet(S), NEW l \in Nat, \A i \in S : item[i].value_length = l
  PROVE MapThenSumSet(LAMBDA i : item[i].value_length, S) = l * Cardinality(S)
<1>. DEFINE Eq(h) == h = [s \in SUBSET S |->
                            IF s = {} THEN 0
                            ELSE item[CHOOSE x \in s : TRUE].value_length
                                   + h[s \ {CHOOSE x \in s : TRUE}]]
            g == [s \in SUBSET S |-> l * Cardinality(s)]
            w == CHOOSE h : Eq(h)
<1>1. ASSUME NEW s \in SUBSET S, s # {}
      PROVE /\ (CHOOSE x \in s : TRUE) \in s
            /\ \A x \in s : /\ Cardinality(s) \in Nat /\ Cardinality(s \ {x}) \in Nat
                            /\ Cardinality(s) = Cardinality(s \ {x}) + 1
                            /\ l * Cardinality(s) = l + l * Cardinality(s \ {x})
  <2>1. IsFiniteSet(s) /\ Cardinality(s) \in Nat
    BY FS_Subset, FS_CardinalityType
  <2>2. ASSUME NEW x \in s
        PROVE /\ Cardinality(s \ {x}) \in Nat
              /\ Cardinality(s) = Cardinality(s \ {x}) + 1
              /\ l * Cardinality(s) = l + l * Cardinality(s \ {x})
    <3>1. PICK n \in Nat : n = Cardinality(s \ {x})
      BY <2>1, FS_RemoveElement, FS_CardinalityType
    <3>2. Cardinality(s) = n + 1
      <4>1. PICK m \in Nat : m = Cardinality(s)
        BY <2>1
      <4>2. n = m - 1
        BY <2>1, <3>1, <4>1, FS_RemoveElement
      <4>. QED BY <4>1, <4>2
    <3>3. l * (n + 1) = l + l * n
      BY <3>1
    <3>. QED BY <3>1, <3>2, <3>3
  <2>. QED BY <1>1, <2>1, <2>2
<1>2. Eq(g)
  <2>1. ASSUME NEW s \in SUBSET S
        PROVE g[s] = IF s = {} THEN 0
                     ELSE item[CHOOSE x \in s : TRUE].value_length
                            + g[s \ {CHOOSE x \in s : TRUE}]
    <3>1. CASE s = {}
      BY <3>1, FS_EmptySet
    <3>2. CASE s # {}
      <4>1. PICK x \in s : x = CHOOSE y \in s : TRUE
        BY <1>1, <3>2
      <4>2. l * Cardinality(s) = l + l * Cardinality(s \ {x})
        BY <1>1, <3>2
      <4>3. s \ {x} \in SUBSET S /\ item[x].value_length = l
        OBVIOUS
      <4>. QED BY <3>2, <4>1, <4>2, <4>3
    <3>. QED BY <3>1, <3>2
  <2>. QED BY <2>1
<1>3. Eq(w)
  BY <1>2
<1>4. MapThenSumSet(LAMBDA i : item[i].value_length, S) = w[S]
  BY DEF MapThenSumSet, MapThenFoldSet
<1>. HIDE DEF w, g
<1>5. \A s \in SUBSET S : w[s] = l * Cardinality(s)
  <2>. DEFINE Bad == {s \in SUBSET S : w[s] # l * Cardinality(s)}
  <2>1. SUFFICES ASSUME Bad # {} PROVE FALSE
    OBVIOUS
  <2>2. \A s \in Bad : Cardinality(s) \in Nat
    BY FS_Subset, FS_CardinalityType
  <2>3. PICK m \in {Cardinality(s) : s \in Bad} : \A n \in {Cardinality(s) : s \in Bad} : m <= n
    <3>1. {Cardinality(s) : s \in Bad} \in SUBSET Nat /\ {Cardinality(s) : s \in Bad} # {}
      BY <2>1, <2>2
    <3>. HIDE DEF Bad
    <3>. QED BY <3>1, Least
  <2>4. PICK s \in Bad : \A t \in Bad : Cardinality(s) <= Cardinality(t)
    <3>. HIDE DEF Bad
    <3>. QED BY <2>3
  <2>5. s # {}
    <3>1. w[{}] = 0 /\ l * Cardinality({}) = 0
      BY <1>3, FS_EmptySet
    <3>. QED BY <3>1
  <2>6. PICK x \in s : x = CHOOSE y \in s : TRUE
    BY <1>1, <2>5
  <2>7. s \in SUBSET S /\ s \ {x} \in SUBSET S /\ item[x].value_length = l
    OBVIOUS
  <2>8. /\ Cardinality(s) \in Nat /\ Cardinality(s \ {x}) \in Nat
        /\ Cardinality(s) = Cardinality(s \ {x}) + 1
        /\ l * Cardinality(s) = l + l * Cardinality(s \ {x})
    BY <1>1, <2>5, <2>7
  <2>9. w[s \ {x}] = l * Cardinality(s \ {x})
    <3>1. ~(Cardinality(s) <= Cardinality(s \ {x}))
      BY <2>8
    <3>2. s \ {x} \notin Bad
      <4>. HIDE DEF Bad
      <4>. QED BY <2>4, <3>1
    <3>. QED BY <2>7, <3>2
  <2>10. w[s] = item[x].value_length + w[s \ {x}]
    BY <1>3, <2>5, <2>6, <2>7
  <2>11. w[s] = l * Cardinality(s)
    BY <2>7, <2>8, <2>9, <2>10
  <2>. QED BY <2>11
<1>. QED BY <1>4, <1>5

(***************************************************************************)
(* The counter free_memory agrees with the lengths of the records in the   *)
(* chains, between the calls and in every round of the eviction loop.      *)
(***************************************************************************)
THEOREM MemoryAlwaysAccounted == UsedByAgent => (Spec => []MemoryAccounted)
<1>. SUFFICES ASSUME UsedByAgent PROVE Spec => []MemoryAccounted
  OBVIOUS
<1>1. IInv => MemoryAccounted
  <2>. SUFFICES ASSUME IInv PROVE MemoryAccounted
    OBVIOUS
  <2>1. \A i \in Live : item[i].value_length = Length
    <3>1. PICK c : Shape(c)
      BY DEF IInv
    <3>2. \A i \in Live : \E b \in Bucket : i \in Members(c[b])
      BY <3>1, Sets DEF Walked
    <3>. QED BY <3>1, <3>2 DEF Shape, Held, Members
  <2>2. IsFiniteSet(Live) /\ Length \in Nat
    BY StoredFits, Used
  <2>3. MapThenSumSet(LAMBDA i : item[i].value_length, Live) = Length * Cardinality(Live)
    BY <2>1, <2>2, SumOfLengths
  <2>. QED BY <2>3 DEF MemoryAccounted, IInv, Balance
<1>. QED BY <1>1, Invariance, PTL
-----------------------------------------------------------------------------
(* The abstract cache. *)

\* The records in chains in the order of their last use.
Ages(q) ==
  /\ q \in Seq(Item) /\ Members(q) = Live
  /\ \A n \in 1 .. Len(q) : /\ item[q[n]].access_count <= access_count
                            /\ item[q[n]].value \in Value
  /\ \A m, n \in 1 .. Len(q) : m < n => item[q[m]].access_count < item[q[n]].access_count

\* How many of them the abstract cache has given up already.
Late(q) == IF Len(q) <= Entries THEN 0 ELSE Len(q) - Entries

Reads(q) ==
  /\ AbstractCache = [order |-> [n \in 1 .. (Len(q) - Late(q)) |-> item[q[n + Late(q)]].key],
                      value |-> AbstractCache.value]
  /\ AbstractCache.value = [k \in Key |-> AbstractCache.value[k]]
  /\ \A n \in (Late(q) + 1) .. Len(q) : AbstractCache.value[item[q[n]].key] = item[q[n]].value
  /\ \A k \in Key : (\A n \in (Late(q) + 1) .. Len(q) : item[q[n]].key # k)
                      => AbstractCache.value[k] = NULL

Abstraction == \A q : Ages(q) => Reads(q)

\* An injective function keeps the size of a set.
LEMMA ImageSize ==
  ASSUME NEW T, IsFiniteSet(T), NEW f, \A x, y \in T : f[x] = f[y] => x = y
  PROVE IsFiniteSet({f[x] : x \in T}) /\ Cardinality({f[x] : x \in T}) = Cardinality(T)
<1>. DEFINE g == [x \in T |-> f[x]]
            U == {f[x] : x \in T}
<1>1. g \in [T -> U] /\ \A x \in T : g[x] = f[x]
  OBVIOUS
<1>2. \A u \in U : \E x \in T : g[x] = u
  OBVIOUS
<1>3. \A x, y \in T : g[x] = g[y] => x = y
  OBVIOUS
<1>. HIDE DEF g, U
<1>4. g \in Bijection(T, U)
  BY <1>1, <1>2, <1>3 DEF Bijection, Injection, Surjection, IsInjective
<1>5. IsFiniteSet(U) /\ Cardinality(U) = Cardinality(T)
  BY <1>4, FS_Bijection DEF ExistsBijection
<1>. QED BY <1>5 DEF U

\* No key is in two chains, or twice in one.
LEMMA KeysOnce ==
  ASSUME UsedByAgent, IInv
  PROVE /\ \A i \in Live : i \in Item /\ item[i].key \in Key /\ i \in Chain(Hash[item[i].key])
        /\ \A i, j \in Live : item[i].key = item[j].key => i = j
  <1>1. PICK c : Shape(c)
    BY DEF IInv
  <1>2. /\ \A b \in Bucket : Chain(b) = Members(c[b])
        /\ Live = {i \in Item : \E b \in Bucket : i \in Members(c[b])}
    BY <1>1, Sets DEF Walked
  <1>3. \A b \in Bucket : \A i \in Chain(b) : i \in Item /\ Held(i, b)
    BY <1>1, <1>2, ChainItems DEF Shape, Members
  <1>4. \A i \in Live : i \in Item /\ item[i].key \in Key /\ i \in Chain(Hash[item[i].key])
    BY <1>2, <1>3 DEF Held
  <1>5. ASSUME NEW i \in Live, NEW j \in Live, item[i].key = item[j].key PROVE i = j
    <2>1. PICK b \in Bucket : b = Hash[item[i].key]
      BY <1>4, TableAssumption
    <2>2. i \in Members(c[b]) /\ j \in Members(c[b])
      BY <1>2, <1>4, <1>5, <2>1
    <2>3. \A m, n \in 1 .. Len(c[b]) : item[c[b][m]].key = item[c[b][n]].key => m = n
      BY <1>1 DEF Shape
    <2>. QED BY <1>5, <2>2, <2>3 DEF Members
  <1>. QED BY <1>4, <1>5

\* The list by age has each record once, and each key once.
LEMMA AgesIs ==
  ASSUME UsedByAgent, IInv, NEW q, Ages(q)
  PROVE /\ Len(q) \in Nat /\ Late(q) \in Nat /\ Late(q) <= Len(q)
        /\ \A n \in 1 .. Len(q) : /\ q[n] \in Item /\ q[n] \in Live
                                  /\ item[q[n]].key \in Key
                                  /\ item[q[n]].access_count \in Nat
        /\ \A m, n \in 1 .. Len(q) :
             /\ item[q[m]].access_count < item[q[n]].access_count <=> m < n
             /\ q[m] = q[n] => m = n
             /\ item[q[m]].key = item[q[n]].key => m = n
<1>1. PICK l \in Nat : l = Len(q)
  BY DEF Ages
<1>2. \A n \in 1 .. l : q[n] \in Item /\ q[n] \in Live
  BY <1>1 DEF Ages, Members
<1>3. \A n \in 1 .. l : item[q[n]].key \in Key /\ item[q[n]].access_count \in Nat
  <2>1. \A i \in Item : item[i].access_count \in Nat
    BY BoundAssumption DEF IInv, TypeOK, Record
  <2>. QED BY <1>2, <2>1, KeysOnce
<1>4. \A m, n \in 1 .. l : item[q[m]].access_count < item[q[n]].access_count <=> m < n
  <2>. SUFFICES ASSUME NEW m \in 1 .. l, NEW n \in 1 .. l
                PROVE item[q[m]].access_count < item[q[n]].access_count <=> m < n
    OBVIOUS
  <2>1. m < n => item[q[m]].access_count < item[q[n]].access_count
    BY <1>1 DEF Ages
  <2>2. n < m => item[q[n]].access_count < item[q[m]].access_count
    BY <1>1 DEF Ages
  <2>3. m < n \/ n < m \/ m = n
    OBVIOUS
  <2>4. item[q[m]].access_count \in Nat /\ item[q[n]].access_count \in Nat
    BY <1>3
  <2>. QED BY <2>1, <2>2, <2>3, <2>4
<1>5. \A m, n \in 1 .. l : q[m] = q[n] => m = n
  <2>. SUFFICES ASSUME NEW m \in 1 .. l, NEW n \in 1 .. l, q[m] = q[n] PROVE m = n
    OBVIOUS
  <2>1. item[q[m]].access_count \in Nat /\ item[q[m]].access_count = item[q[n]].access_count
    BY <1>3
  <2>2. ~(m < n) /\ ~(n < m)
    BY <1>4, <2>1
  <2>. QED BY <2>2
<1>6. \A m, n \in 1 .. l : item[q[m]].key = item[q[n]].key => m = n
  BY <1>2, <1>5, KeysOnce
<1>7. Late(q) \in Nat /\ Late(q) <= l
  <2>1. PICK e \in Nat : e = Entries
    BY Used
  <2>. QED BY <1>1, <2>1 DEF Late
<1>. QED BY <1>1, <1>2, <1>3, <1>4, <1>5, <1>6, <1>7

\* AbstractCache, as the end of the list by age.
LEMMA AgesRead == UsedByAgent /\ IInv => Abstraction
<1>. SUFFICES ASSUME UsedByAgent, IInv, NEW q, Ages(q) PROVE Reads(q)
  BY DEF Abstraction
<1>. DEFINE younger == [i \in Live |-> {j \in Live : item[j].access_count > item[i].access_count}]
            kept == {i \in Live : Cardinality(younger[i]) < Entries}
            byAge == [n \in 1 .. Cardinality(kept) |->
                        CHOOSE i \in kept : Cardinality(younger[i]) = Cardinality(kept) - n]
            holder == [k \in Key |-> {i \in kept : item[i].key = k}]
            value == [k \in Key |-> IF holder[k] = {} THEN NULL
                                    ELSE item[CHOOSE i \in holder[k] : TRUE].value]
<1>1. AbstractCache = [order |-> [n \in DOMAIN byAge |-> item[byAge[n]].key], value |-> value]
  BY DEF AbstractCache
<1>2. PICK L \in Nat : L = Len(q)
  BY AgesIs
<1>3. PICK o \in Nat : o = Late(q) /\ o <= L
  BY <1>2, AgesIs
<1>4. /\ Live = {q[n] : n \in 1 .. L}
      /\ \A m, n \in 1 .. L : /\ item[q[m]].access_count < item[q[n]].access_count <=> m < n
                              /\ q[m] = q[n] => m = n
                              /\ item[q[m]].access_count \in Nat
                              /\ item[q[m]].key = item[q[n]].key => m = n
  <2>1. Live = {q[n] : n \in 1 .. L}
    BY <1>2 DEF Ages, Members
  <2>2. /\ \A n \in 1 .. Len(q) : item[q[n]].access_count \in Nat
        /\ \A m, n \in 1 .. Len(q) : /\ item[q[m]].access_count < item[q[n]].access_count <=> m < n
                                     /\ q[m] = q[n] => m = n
                                     /\ item[q[m]].key = item[q[n]].key => m = n
    BY AgesIs
  <2>. QED BY <1>2, <2>1, <2>2
<1>5. \A n \in 1 .. L : younger[q[n]] = {q[m] : m \in (n + 1) .. L}
  <2>. SUFFICES ASSUME NEW n \in 1 .. L PROVE younger[q[n]] = {q[m] : m \in (n + 1) .. L}
    OBVIOUS
  <2>1. younger[q[n]] = {j \in Live : item[j].access_count > item[q[n]].access_count}
    BY <1>4
  <2>2. \A m \in 1 .. L : item[q[m]].access_count > item[q[n]].access_count <=> m > n
    BY <1>4
  <2>3. \A m \in 1 .. L : m > n <=> m \in (n + 1) .. L
    OBVIOUS
  <2>4. (n + 1) .. L \subseteq 1 .. L
    OBVIOUS
  <2>. QED BY <1>4, <2>1, <2>2, <2>3, <2>4
<1>6. \A a \in Nat : a <= L => Cardinality({q[m] : m \in (a + 1) .. L}) = L - a
  <2>. SUFFICES ASSUME NEW a \in Nat, a <= L PROVE Cardinality({q[m] : m \in (a + 1) .. L}) = L - a
    OBVIOUS
  <2>1. IsFiniteSet((a + 1) .. L) /\ Cardinality((a + 1) .. L) = L - a
    <3>1. PICK b \in Int : b = a + 1
      OBVIOUS
    <3>2. IsFiniteSet(b .. L) /\ Cardinality(b .. L) = IF b > L THEN 0 ELSE L - b + 1
      BY FS_Interval
    <3>3. (IF b > L THEN 0 ELSE L - b + 1) = L - a
      BY <3>1
    <3>. QED BY <3>1, <3>2, <3>3
  <2>2. \A m, n \in (a + 1) .. L : q[m] = q[n] => m = n
    BY <1>4
  <2>. QED BY <2>1, <2>2, ImageSize
<1>. HIDE DEF younger
<1>7. \A n \in 1 .. L : Cardinality(younger[q[n]]) = L - n
  <2>1. \A n \in 1 .. L : n \in Nat /\ n <= L
    OBVIOUS
  <2>. QED BY <1>5, <1>6, <2>1
<1>8. kept = {q[n] : n \in (o + 1) .. L}
  <2>1. PICK e \in Nat : e = Entries
    BY Used
  <2>2. \A n \in 1 .. L : L - n < e <=> n \in (o + 1) .. L
    BY <1>2, <1>3, <2>1 DEF Late
  <2>3. (o + 1) .. L \subseteq 1 .. L
    OBVIOUS
  <2>. QED BY <1>4, <1>7, <2>1, <2>2, <2>3
<1>. HIDE DEF kept
<1>9. Cardinality(kept) = L - o /\ L - o \in Nat
  <2>1. Cardinality({q[n] : n \in (o + 1) .. L}) = L - o
    BY <1>3, <1>6
  <2>. QED BY <1>3, <1>8, <2>1
<1>10. byAge = [n \in 1 .. (L - o) |-> q[n + o]]
  <2>1. ASSUME NEW n \in 1 .. (L - o)
        PROVE (CHOOSE i \in kept : Cardinality(younger[i]) = Cardinality(kept) - n) = q[n + o]
    <3>1. n + o \in (o + 1) .. L /\ n + o \in 1 .. L
      OBVIOUS
    <3>2. q[n + o] \in kept /\ Cardinality(younger[q[n + o]]) = Cardinality(kept) - n
      BY <1>7, <1>8, <1>9, <3>1
    <3>3. ASSUME NEW i \in kept, Cardinality(younger[i]) = Cardinality(kept) - n PROVE i = q[n + o]
      <4>1. PICK m \in (o + 1) .. L : i = q[m]
        BY <1>8
      <4>2. L - m = L - o - n /\ m \in 1 .. L
        BY <1>7, <1>9, <3>3, <4>1
      <4>3. m = n + o
        BY <4>2
      <4>. QED BY <4>1, <4>3
    <3>. QED BY <3>2, <3>3
  <2>. QED BY <1>9, <2>1
<1>. HIDE DEF byAge
<1>11. [n \in DOMAIN byAge |-> item[byAge[n]].key] = [n \in 1 .. (L - o) |-> item[q[n + o]].key]
  BY <1>10
<1>12. value = [k \in Key |-> value[k]] /\ AbstractCache.value = value
  BY <1>1
<1>13. ASSUME NEW k \in Key
       PROVE \/ (\A n \in (o + 1) .. L : item[q[n]].key # k) /\ value[k] = NULL
             \/ \E n \in (o + 1) .. L : item[q[n]].key = k /\ value[k] = item[q[n]].value
  <2>1. value[k] = IF holder[k] = {} THEN NULL ELSE item[CHOOSE i \in holder[k] : TRUE].value
    OBVIOUS
  <2>2. holder[k] = {i \in kept : item[i].key = k}
    OBVIOUS
  <2>. HIDE DEF value, holder
  <2>3. CASE holder[k] = {}
    BY <1>8, <2>1, <2>2, <2>3
  <2>4. CASE holder[k] # {}
    <3>1. PICK i \in holder[k] : i = CHOOSE j \in holder[k] : TRUE
      BY <2>4
    <3>2. value[k] = item[i].value
      BY <2>1, <2>4, <3>1
    <3>3. PICK n \in (o + 1) .. L : i = q[n] /\ item[i].key = k
      BY <1>8, <2>2, <3>1
    <3>. QED BY <3>2, <3>3
  <2>. QED BY <2>3, <2>4
<1>. HIDE DEF value
<1>14. AbstractCache = [order |-> [n \in 1 .. (L - o) |-> item[q[n + o]].key], value |-> AbstractCache.value]
  BY <1>1, <1>11, <1>12
<1>15. \A n \in (o + 1) .. L : value[item[q[n]].key] = item[q[n]].value
  <2>. SUFFICES ASSUME NEW n \in (o + 1) .. L PROVE value[item[q[n]].key] = item[q[n]].value
    OBVIOUS
  <2>1. (o + 1) .. L \subseteq 1 .. L
    OBVIOUS
  <2>2. item[q[n]].key \in Key
    BY <1>2, <2>1, AgesIs
  <2>3. PICK m \in (o + 1) .. L : item[q[m]].key = item[q[n]].key /\ value[item[q[n]].key] = item[q[m]].value
    BY <1>13, <2>2
  <2>4. m = n
    BY <1>4, <2>1, <2>3
  <2>. QED BY <2>3, <2>4
<1>16. \A k \in Key : (\A n \in (o + 1) .. L : item[q[n]].key # k) => value[k] = NULL
  BY <1>13
<1>. QED BY <1>2, <1>3, <1>12, <1>14, <1>15, <1>16 DEF Reads

\* AgesRead, after a step.
LEMMA AgesReadNext ==
  ASSUME UsedByAgent, IInv', NEW q, Ages(q)'
  PROVE Reads(q)'
<1>1. UsedByAgent' /\ IInv' => Abstraction'
  BY AgesRead, PTL
<1>2. UsedByAgent'
  BY DEF UsedByAgent, Length, Entries
<1>. QED BY <1>1, <1>2 DEF Abstraction
-----------------------------------------------------------------------------
(* Each step as one of the abstract cache. *)

\* Between the calls everything is in memory; while an eviction is due there is one too many.
LEMMA InMemory ==
  ASSUME UsedByAgent, IInv, NEW q, Ages(q)
  PROVE /\ Entries \in Nat \ {0} /\ Len(q) \in Nat
        /\ required = 0 => Len(q) <= Entries /\ Late(q) = 0
        /\ free_memory < required => Len(q) = Entries + 1 /\ Late(q) = 1
<1>1. PICK L \in Nat : L = Len(q)
  BY AgesIs
<1>2. Cardinality(Live) = L
  <2>1. Live = {q[n] : n \in 1 .. L} /\ \A m, n \in 1 .. L : q[m] = q[n] => m = n
    BY <1>1, AgesIs, SMTT(30) DEF Ages, Members
  <2>2. IsFiniteSet(1 .. L) /\ Cardinality(1 .. L) = L
    BY FS_Interval
  <2>. QED BY <2>1, <2>2, ImageSize
<1>3. PICK e \in Nat : e = Entries
  BY Used
<1>4. PICK l \in Nat \ {0} : l = Length /\ l <= TotalMemory
  BY Used
<1>5. e # 0
  <2>1. 1 * l <= TotalMemory
    BY <1>4
  <2>2. 1 <= Entries
    BY <1>4, <2>1, Used
  <2>. QED BY <1>3, <2>2
<1>6. ASSUME required = 0 PROVE L <= e
  BY <1>2, <1>3, <1>6, StoredFits
<1>7. ASSUME free_memory < required PROVE L = e + 1
  <2>1. /\ free_memory + l * L = TotalMemory + required /\ free_memory \in Nat
        /\ required \in {0, l} /\ TotalMemory \in Nat
    BY <1>2, <1>4, MemoryAssumption DEF IInv, Balance, TypeOK
  <2>2. required = l /\ free_memory < l
    BY <1>7, <2>1
  <2>3. l * L \in Nat /\ l * L > TotalMemory /\ l * L <= TotalMemory + l
    BY <2>1, <2>2
  <2>4. e * l <= TotalMemory
    <3>1. Entries = TotalMemory \div l
      BY <1>4 DEF Entries, Length
    <3>2. l * (TotalMemory \div l) <= TotalMemory
      BY <1>4, <2>1
    <3>3. e * l = l * e
      BY <1>3, <1>4
    <3>. QED BY <1>3, <3>1, <3>2, <3>3
  <2>5. ~(L <= e)
    <3>1. SUFFICES ASSUME L <= e PROVE FALSE
      OBVIOUS
    <3>2. l * L <= e * l /\ e * l \in Nat
      BY <3>1
    <3>. QED BY <2>1, <2>3, <2>4, <3>2
  <2>6. L - 1 \in Nat
    BY <2>5
  <2>7. (L - 1) * l = l * L - l
    BY <1>1, <1>4
  <2>8. (L - 1) * l <= TotalMemory
    BY <2>1, <2>3, <2>7
  <2>9. L - 1 <= e
    <3>1. \A n \in Nat : n * Length <= TotalMemory => n <= Entries
      BY Used
    <3>2. (L - 1) * Length <= TotalMemory
      BY <1>4, <2>8
    <3>. QED BY <1>3, <2>6, <3>1, <3>2
  <2>. QED BY <2>5, <2>9
<1>. QED BY <1>1, <1>3, <1>5, <1>6, <1>7 DEF Late

\* The order of the abstract cache.
LEMMA OrderIs ==
  ASSUME UsedByAgent, IInv, NEW q, Ages(q), NEW o, o = Late(q)
  PROVE /\ AbstractCache.order \in Seq(Key) /\ Len(AbstractCache.order) = Len(q) - o
        /\ \A n \in 1 .. (Len(q) - o) : AbstractCache.order[n] = item[q[n + o]].key
        /\ \A m, n \in 1 .. (Len(q) - o) : AbstractCache.order[m] = AbstractCache.order[n] => m = n
<1>1. PICK L \in Nat : L = Len(q) /\ o \in Nat /\ o <= L
  BY AgesIs
<1>2. PICK h \in Nat : h = L - o
  BY <1>1
<1>3. \A n \in 1 .. h : n + o \in 1 .. L
  BY <1>1, <1>2
<1>. DEFINE f == [n \in 1 .. h |-> item[q[n + o]].key]
<1>4. AbstractCache.order = f
  <2>1. Reads(q)
    BY AgesRead DEF Abstraction
  <2>2. AbstractCache.order = [n \in 1 .. (Len(q) - Late(q)) |-> item[q[n + Late(q)]].key]
    BY <2>1 DEF Reads
  <2>. QED BY <1>1, <1>2, <2>2
<1>5. f \in [1 .. h -> Key] /\ \A n \in 1 .. h : f[n] = item[q[n + o]].key
  BY <1>1, <1>3, AgesIs
<1>6. \A m, n \in 1 .. h : f[m] = f[n] => m = n
  <2>. SUFFICES ASSUME NEW m \in 1 .. h, NEW n \in 1 .. h, f[m] = f[n] PROVE m = n
    OBVIOUS
  <2>1. m + o = n + o
    BY <1>1, <1>3, <1>5, AgesIs
  <2>. QED BY <1>1, <2>1
<1>. HIDE DEF f
<1>7. f \in Seq(Key) /\ Len(f) = h
  BY <1>5
<1>. QED BY <1>1, <1>2, <1>4, <1>5, <1>6, <1>7

\* RemoveAt, as a cut.
LEMMA CutOfRemove ==
  ASSUME NEW S, NEW s \in Seq(S), NEW p \in 1 .. Len(s)
  PROVE SubSeq(s, 1, p - 1) \o SubSeq(s, p + 1, Len(s)) = Cut(s, p)
<1>. DEFINE front == SubSeq(s, 1, p - 1)
            back == SubSeq(s, p + 1, Len(s))
<1>1. PICK l \in Nat : l = Len(s)
  OBVIOUS
<1>2. front \in Seq(S) /\ Len(front) = p - 1 /\ \A j \in 1 .. (p - 1) : front[j] = s[j]
  <2>1. CASE p = 1
    BY <1>1, <2>1
  <2>2. CASE p # 1
    BY <1>1, <2>2
  <2>. QED BY <2>1, <2>2
<1>3. back \in Seq(S) /\ Len(back) = l - p /\ \A j \in 1 .. (l - p) : back[j] = s[p + j]
  BY <1>1
<1>. HIDE DEF front, back
<1>4. /\ front \o back \in Seq(S) /\ Len(front \o back) = l - 1
      /\ \A j \in 1 .. (l - 1) : (front \o back)[j] = IF j <= p - 1 THEN front[j] ELSE back[j - (p - 1)]
  <2>1. \A f, b \in Seq(S) :
           /\ f \o b \in Seq(S)
           /\ Len(f \o b) = Len(f) + Len(b)
           /\ \A j \in 1 .. (Len(f) + Len(b)) :
                (f \o b)[j] = IF j <= Len(f) THEN f[j] ELSE b[j - Len(f)]
    BY ConcatProperties
  <2>2. front \in Seq(S) /\ back \in Seq(S)
    BY <1>2, <1>3
  <2>3. Len(front) = p - 1 /\ Len(front) + Len(back) = l - 1
    BY <1>1, <1>2, <1>3
  <2>. QED BY <2>1, <2>2, <2>3
<1>5. \A j \in 1 .. (l - 1) : (front \o back)[j] = IF j < p THEN s[j] ELSE s[j + 1]
  <2>. SUFFICES ASSUME NEW j \in 1 .. (l - 1)
                PROVE (front \o back)[j] = IF j < p THEN s[j] ELSE s[j + 1]
    OBVIOUS
  <2>1. CASE j < p
    BY <1>1, <1>2, <1>4, <2>1
  <2>2. CASE ~(j < p)
    <3>1. j - (p - 1) \in 1 .. (l - p) /\ p + (j - (p - 1)) = j + 1
      BY <1>1, <2>2
    <3>2. back[j - (p - 1)] = s[p + (j - (p - 1))]
      BY <1>3, <3>1
    <3>3. (front \o back)[j] = back[j - (p - 1)]
      BY <1>1, <1>4, <2>2
    <3>. QED BY <2>2, <3>1, <3>2, <3>3
  <2>. QED BY <2>1, <2>2
<1>6. front \o back = [j \in 1 .. (l - 1) |-> (front \o back)[j]]
  <2>1. PICK t \in Seq(S) : t = front \o back
    BY <1>4
  <2>2. t \in [1 .. Len(t) -> S]
    BY LenProperties
  <2>. QED BY <1>4, <2>1, <2>2
<1>7. Cut(s, p) = [j \in 1 .. (l - 1) |-> IF j < p THEN s[j] ELSE s[j + 1]]
  BY <1>1 DEF Cut
<1>. QED BY <1>5, <1>6, <1>7 DEF front, back

\* What Without does to an order that holds each key once.
LEMMA WithoutIs ==
  ASSUME NEW S, NEW s \in Seq(S), \A m, n \in 1 .. Len(s) : s[m] = s[n] => m = n, NEW k
  PROVE /\ \A p \in 1 .. Len(s) : s[p] = k => Abstract!Without(s, k) = Cut(s, p)
        /\ (\A p \in 1 .. Len(s) : s[p] # k) => Abstract!Without(s, k) = s
<1>1. ASSUME NEW p \in 1 .. Len(s), s[p] = k PROVE Abstract!Without(s, k) = Cut(s, p)
  <2>1. Abstract!PositionOf(s, k) = p
    BY <1>1 DEF Abstract!PositionOf
  <2>2. Abstract!Without(s, k) = SubSeq(s, 1, p - 1) \o SubSeq(s, p + 1, Len(s))
    BY <1>1, <2>1 DEF Abstract!Without, Abstract!Contains, Abstract!RemoveAt
  <2>. QED BY <2>2, CutOfRemove
<1>2. (\A p \in 1 .. Len(s) : s[p] # k) => Abstract!Without(s, k) = s
  BY DEF Abstract!Without, Abstract!Contains
<1>. QED BY <1>1, <1>2
\* s with its p-th element moved to the end.
LEMMA MovedIs ==
  ASSUME NEW S, NEW s \in Seq(S), NEW p \in 1 .. Len(s), NEW x \in S
  PROVE /\ Append(Cut(s, p), x) \in Seq(S) /\ Len(Append(Cut(s, p), x)) = Len(s)
        /\ Append(Cut(s, p), x) = [n \in 1 .. Len(s) |-> IF n = Len(s) THEN x
                                                         ELSE IF n < p THEN s[n] ELSE s[n + 1]]
<1>1. PICK l \in Nat \ {0} : l = Len(s)
  BY CutIs
<1>. DEFINE c == Cut(s, p)
            a == Append(c, x)
<1>2. c \in Seq(S) /\ Len(c) = l - 1 /\ \A n \in 1 .. (l - 1) : c[n] = IF n < p THEN s[n] ELSE s[n + 1]
  BY <1>1, CutIs
<1>. HIDE DEF c
<1>3. a \in Seq(S) /\ Len(a) = Len(c) + 1 /\ a[Len(c) + 1] = x /\ \A n \in 1 .. Len(c) : a[n] = c[n]
  BY <1>2, AppendProperties
<1>. HIDE DEF a
<1>4. Len(a) = l /\ a[l] = x /\ \A n \in 1 .. (l - 1) : a[n] = c[n]
  BY <1>1, <1>2, <1>3
<1>5. \A n \in 1 .. l : a[n] = IF n = l THEN x ELSE IF n < p THEN s[n] ELSE s[n + 1]
  BY <1>1, <1>2, <1>4
<1>6. a \in [1 .. l -> S]
  BY <1>3, <1>4, LenProperties
<1>7. a = [n \in 1 .. l |-> IF n = l THEN x ELSE IF n < p THEN s[n] ELSE s[n + 1]]
  BY <1>5, <1>6
<1>. QED BY <1>1, <1>3, <1>4, <1>7 DEF a, c

\* The record i becomes the one used last.
LEMMA UsedNow ==
  ASSUME UsedByAgent, IInv, IInv', NEW q, Ages(q), required = 0, required' = 0, Live' = Live,
         NEW p \in 1 .. Len(q), NEW i, i = q[p],
         access_count' = access_count + 1, item'[i].access_count = access_count + 1,
         item'[i].value \in Value, item'[i].key = item[i].key,
         \A j \in Item \ {i} : Same(j)
  PROVE /\ \E r : Ages(r)'
        /\ AbstractCache' = [order |-> Append(Cut(AbstractCache.order, p), item[i].key),
                             value |-> [AbstractCache.value EXCEPT ![item[i].key] = item'[i].value]]
        /\ p \in 1 .. Len(AbstractCache.order) /\ AbstractCache.order[p] = item[i].key
        /\ AbstractCache.value[item[i].key] = item[i].value
<1>1. PICK L \in Nat : L = Len(q) /\ p \in 1 .. L
  BY AgesIs
<1>2. \A n \in 1 .. L : /\ q[n] \in Item /\ q[n] \in Live
                        /\ item[q[n]].key \in Key /\ item[q[n]].access_count \in Nat
                        /\ item[q[n]].access_count <= access_count
                        /\ item[q[n]].value \in Value
  BY <1>1, AgesIs DEF Ages
<1>3. \A m, n \in 1 .. L : /\ item[q[m]].access_count < item[q[n]].access_count <=> m < n
                           /\ q[m] = q[n] => m = n
  BY <1>1, AgesIs
<1>. DEFINE r == Append(Cut(q, p), i)
            from(n) == IF n = L THEN p ELSE IF n < p THEN n ELSE n + 1
<1>4. i \in Item /\ q \in Seq(Item) /\ access_count \in Nat
  BY <1>1, <1>2, BoundAssumption DEF Ages, IInv, TypeOK
<1>5. /\ r \in Seq(Item) /\ Len(r) = L
      /\ \A n \in 1 .. L : r[n] = IF n = L THEN i ELSE IF n < p THEN q[n] ELSE q[n + 1]
  <2>1. /\ r \in Seq(Item) /\ Len(r) = Len(q)
        /\ r = [n \in 1 .. Len(q) |-> IF n = Len(q) THEN i ELSE IF n < p THEN q[n] ELSE q[n + 1]]
    <3>1. \A a \in 1 .. Len(q) : \A x \in Item :
             /\ Append(Cut(q, a), x) \in Seq(Item) /\ Len(Append(Cut(q, a), x)) = Len(q)
             /\ Append(Cut(q, a), x) = [n \in 1 .. Len(q) |-> IF n = Len(q) THEN x
                                                              ELSE IF n < a THEN q[n] ELSE q[n + 1]]
      BY <1>4, MovedIs
    <3>. QED BY <1>4, <3>1
  <2>. HIDE DEF r
  <2>. QED BY <1>1, <2>1
<1>. HIDE DEF r
<1>6. \A n \in 1 .. L : from(n) \in 1 .. L /\ r[n] = q[from(n)] /\ (from(n) = p <=> n = L)
  BY <1>1, <1>5
<1>7. \A n \in 1 .. L : \E m \in 1 .. L : from(m) = n
  <2>. SUFFICES ASSUME NEW n \in 1 .. L PROVE \E m \in 1 .. L : from(m) = n
    OBVIOUS
  <2>1. CASE n < p
    <3>1. n \in 1 .. L /\ from(n) = n
      BY <1>1, <2>1
    <3>. QED BY <3>1
  <2>2. CASE n = p
    <3>1. L \in 1 .. L /\ from(L) = n
      BY <1>1, <2>2
    <3>. QED BY <3>1
  <2>3. CASE n > p
    <3>1. n - 1 \in 1 .. L /\ from(n - 1) = n
      BY <1>1, <2>3
    <3>. QED BY <3>1
  <2>. QED BY <2>1, <2>2, <2>3
<1>8. \A m, n \in 1 .. L : m < n /\ n # L => from(m) < from(n)
  BY <1>1
<1>. HIDE DEF from
<1>9. \A n \in 1 .. L : r[n] = i <=> n = L
  BY <1>1, <1>3, <1>6
<1>10. Members(r) = Live
  <2>1. Members(r) = {r[n] : n \in 1 .. L}
    BY <1>5 DEF Members
  <2>2. Live = {q[n] : n \in 1 .. L}
    BY <1>1 DEF Ages, Members
  <2>3. \A n \in 1 .. L : r[n] \in Live
    BY <1>6, <2>2
  <2>4. ASSUME NEW n \in 1 .. L PROVE q[n] \in Members(r)
    <3>1. PICK m \in 1 .. L : from(m) = n
      BY <1>7
    <3>2. r[m] = q[n]
      BY <1>6, <3>1
    <3>. QED BY <2>1, <3>2
  <2>. QED BY <2>1, <2>2, <2>3, <2>4
<1>11. \A n \in 1 .. L : n # L => /\ item'[r[n]].access_count = item[q[from(n)]].access_count
                                  /\ item'[r[n]].value = item[q[from(n)]].value
                                  /\ item'[r[n]].key = item[q[from(n)]].key
  BY <1>2, <1>6, <1>9 DEF Same
<1>12. Ages(r)'
  <2>1. \A n \in 1 .. L : item'[r[n]].access_count <= access_count' /\ item'[r[n]].value \in Value
    <3>. SUFFICES ASSUME NEW n \in 1 .. L
                  PROVE item'[r[n]].access_count <= access_count' /\ item'[r[n]].value \in Value
      OBVIOUS
    <3>1. CASE n = L
      BY <1>4, <1>9, <3>1
    <3>2. CASE n # L
      <4>1. PICK m \in 1 .. L : m = from(n)
        BY <1>6
      <4>2. /\ item'[r[n]].access_count = item[q[m]].access_count
            /\ item'[r[n]].value = item[q[m]].value
        BY <1>11, <3>2, <4>1
      <4>3. item[q[m]].access_count <= access_count + 1 /\ item[q[m]].value \in Value
        BY <1>2, <1>4
      <4>. QED BY <4>2, <4>3
    <3>. QED BY <3>1, <3>2
  <2>2. \A m, n \in 1 .. L : m < n => item'[r[m]].access_count < item'[r[n]].access_count
    <3>. SUFFICES ASSUME NEW m \in 1 .. L, NEW n \in 1 .. L, m < n
                  PROVE item'[r[m]].access_count < item'[r[n]].access_count
      OBVIOUS
    <3>0. m # L
      OBVIOUS
    <3>1. CASE n = L
      <4>1. PICK j \in 1 .. L : j = from(m)
        BY <1>6
      <4>2. item'[r[m]].access_count = item[q[j]].access_count
        BY <1>11, <3>0, <4>1
      <4>3. item[q[j]].access_count < access_count + 1
        BY <1>2, <1>4
      <4>4. item'[r[n]].access_count = access_count + 1
        BY <1>9, <3>1
      <4>. QED BY <4>2, <4>3, <4>4
    <3>2. CASE n # L
      <4>1. from(m) < from(n) /\ from(m) \in 1 .. L /\ from(n) \in 1 .. L
        BY <1>6, <1>8, <3>2
      <4>. QED BY <1>3, <1>11, <3>0, <3>2, <4>1
    <3>. QED BY <3>1, <3>2
  <2>. QED BY <1>5, <1>10, <2>1, <2>2 DEF Ages
<1>13. Late(q) = 0 /\ Late(r) = 0
  <2>1. Late(q) = 0 /\ L <= Entries
    BY <1>1, InMemory
  <2>. QED BY <1>5, <2>1 DEF Late
<1>. DEFINE k == item[i].key
            A == AbstractCache
<1>14. Reads(q) /\ Reads(r)'
  BY <1>12, AgesRead, AgesReadNext DEF Abstraction
<1>15. /\ A.order = [n \in 1 .. L |-> item[q[n]].key] /\ A.order \in Seq(Key) /\ Len(A.order) = L
       /\ A.value = [j \in Key |-> A.value[j]]
       /\ \A n \in 1 .. L : A.value[item[q[n]].key] = item[q[n]].value
       /\ \A j \in Key : (\A n \in 1 .. L : item[q[n]].key # j) => A.value[j] = NULL
  <2>1. /\ A.order = [n \in 1 .. (Len(q) - Late(q)) |-> item[q[n + Late(q)]].key]
        /\ A.value = [j \in Key |-> A.value[j]]
        /\ \A n \in (Late(q) + 1) .. Len(q) : A.value[item[q[n]].key] = item[q[n]].value
        /\ \A j \in Key : (\A n \in (Late(q) + 1) .. Len(q) : item[q[n]].key # j) => A.value[j] = NULL
    BY <1>14, SMTT(30) DEF Reads
  <2>2. A.order \in Seq(Key) /\ Len(A.order) = L
    BY <1>1, <1>13, OrderIs
  <2>3. \A n \in 1 .. L : n + 0 = n
    OBVIOUS
  <2>. HIDE DEF A
  <2>. QED BY <1>1, <1>13, <2>1, <2>2, <2>3, SMTT(30)
<1>16. /\ A' = [order |-> [n \in 1 .. L |-> item'[r[n]].key], value |-> A'.value]
       /\ A'.value = [j \in Key |-> A'.value[j]]
       /\ \A n \in 1 .. L : A'.value[item'[r[n]].key] = item'[r[n]].value
       /\ \A j \in Key : (\A n \in 1 .. L : item'[r[n]].key # j) => A'.value[j] = NULL
  <2>1. Late(r)' = 0
    BY <1>13 DEF Late, Entries
  <2>2. /\ A' = [order |-> [n \in 1 .. (Len(r) - Late(r)') |-> item'[r[n + Late(r)']].key], value |-> A'.value]
        /\ A'.value = [j \in Key |-> A'.value[j]]
        /\ \A n \in (Late(r)' + 1) .. Len(r) : A'.value[item'[r[n]].key] = item'[r[n]].value
        /\ \A j \in Key : (\A n \in (Late(r)' + 1) .. Len(r) : item'[r[n]].key # j) => A'.value[j] = NULL
    BY <1>14 DEF Reads
  <2>3. \A n \in 1 .. L : n + 0 = n
    OBVIOUS
  <2>. HIDE DEF A
  <2>. QED BY <1>5, <2>1, <2>2, <2>3
<1>17. \A n \in 1 .. L : item'[r[n]].key = item[q[from(n)]].key
  <2>. SUFFICES ASSUME NEW n \in 1 .. L PROVE item'[r[n]].key = item[q[from(n)]].key
    OBVIOUS
  <2>1. CASE n = L
    <3>1. r[n] = i /\ q[from(n)] = i
      BY <1>6, <1>9, <2>1
    <3>. QED BY <3>1
  <2>2. CASE n # L
    BY <1>11, <2>2
  <2>. QED BY <2>1, <2>2
<1>18. k \in Key /\ A.order[p] = k /\ A.value[k] = item[i].value
  <2>1. p \in 1 .. L /\ q[p] = i
    BY <1>1
  <2>. HIDE DEF A
  <2>. QED BY <1>2, <1>15, <2>1
<1>19. A'.order = Append(Cut(A.order, p), k)
  <2>1. Append(Cut(A.order, p), k) = [n \in 1 .. Len(A.order) |-> IF n = Len(A.order) THEN k
                                         ELSE IF n < p THEN A.order[n] ELSE A.order[n + 1]]
    <3>1. p \in 1 .. Len(A.order) /\ A.order \in Seq(Key) /\ k \in Key
      BY <1>1, <1>15, <1>18
    <3>. HIDE DEF A, k
    <3>2. \A s \in Seq(Key) : \A a \in 1 .. Len(s) : \A x \in Key :
             Append(Cut(s, a), x) = [n \in 1 .. Len(s) |-> IF n = Len(s) THEN x
                                                          ELSE IF n < a THEN s[n] ELSE s[n + 1]]
      BY MovedIs
    <3>. QED BY <3>1, <3>2
  <2>2. \A n \in 1 .. L : item'[r[n]].key = IF n = L THEN k ELSE IF n < p THEN A.order[n] ELSE A.order[n + 1]
    <3>. SUFFICES ASSUME NEW n \in 1 .. L
                  PROVE item'[r[n]].key = IF n = L THEN k ELSE IF n < p THEN A.order[n] ELSE A.order[n + 1]
      OBVIOUS
    <3>1. item'[r[n]].key = item[q[from(n)]].key /\ from(n) \in 1 .. L
      BY <1>6, <1>17
    <3>2. \A m \in 1 .. L : A.order[m] = item[q[m]].key
      <4>. HIDE DEF A
      <4>. QED BY <1>15
    <3>3. item'[r[n]].key = A.order[from(n)]
      BY <3>1, <3>2
    <3>4. from(n) = IF n = L THEN p ELSE IF n < p THEN n ELSE n + 1
      BY DEF from
    <3>. HIDE DEF A
    <3>. QED BY <1>18, <3>3, <3>4
  <2>3. A'.order = [n \in 1 .. L |-> item'[r[n]].key]
    <3>. HIDE DEF A
    <3>. QED BY <1>16
  <2>4. Len(A.order) = L
    BY <1>15
  <2>. HIDE DEF A
  <2>. QED BY <2>1, <2>2, <2>3, <2>4
<1>20. \A j \in Key : A'.value[j] = IF j = k THEN item'[i].value ELSE A.value[j]
  <2>. SUFFICES ASSUME NEW j \in Key PROVE A'.value[j] = IF j = k THEN item'[i].value ELSE A.value[j]
    OBVIOUS
  <2>. HIDE DEF A
  <2>1. CASE \E n \in 1 .. L : item[q[n]].key = j
    <3>1. PICK n \in 1 .. L : item[q[n]].key = j
      BY <2>1
    <3>2. PICK m \in 1 .. L : from(m) = n
      BY <1>7
    <3>3. item'[r[m]].key = j /\ A'.value[j] = item'[r[m]].value
      BY <1>16, <1>17, <3>1, <3>2
    <3>4. A.value[j] = item[q[n]].value
      BY <1>15, <3>1
    <3>5. CASE m = L
      <4>1. r[m] = i /\ n = p
        BY <1>6, <1>9, <3>2, <3>5
      <4>. QED BY <3>1, <3>3, <4>1
    <3>6. CASE m # L
      <4>1. item'[r[m]].value = item[q[n]].value
        BY <1>11, <3>2, <3>6
      <4>2. n # p
        BY <1>6, <3>2, <3>6
      <4>3. j # k
        <5>1. \A a, b \in 1 .. L : item[q[a]].key = item[q[b]].key => a = b
          BY <1>1, AgesIs
        <5>. QED BY <1>1, <3>1, <4>2, <5>1
      <4>. QED BY <3>3, <3>4, <4>1, <4>3
    <3>. QED BY <3>5, <3>6
  <2>2. CASE ~\E n \in 1 .. L : item[q[n]].key = j
    <3>1. A.value[j] = NULL
      BY <1>15, <2>2
    <3>2. \A n \in 1 .. L : item'[r[n]].key # j
      BY <1>6, <1>17, <2>2
    <3>3. A'.value[j] = NULL
      BY <1>16, <3>2
    <3>4. j # k
      BY <1>1, <2>2
    <3>. QED BY <3>1, <3>3, <3>4
  <2>. QED BY <2>1, <2>2
<1>21. A'.value = [A.value EXCEPT ![k] = item'[i].value]
  <2>1. A.value = [j \in Key |-> A.value[j]] /\ A'.value = [j \in Key |-> A'.value[j]]
    BY <1>15, <1>16
  <2>. HIDE DEF A, k
  <2>. QED BY <1>20, <2>1
<1>22. A' = [order |-> A'.order, value |-> A'.value]
  <2>. HIDE DEF A
  <2>. QED BY <1>16
<1>23. p \in 1 .. Len(A.order)
  BY <1>1, <1>15
<1>. HIDE DEF A, k
<1>24. A' = [order |-> Append(Cut(A.order, p), k), value |-> [A.value EXCEPT ![k] = item'[i].value]]
  BY <1>19, <1>21, <1>22
<1>. QED BY <1>12, <1>18, <1>23, <1>24 DEF A, k
\* The record i is removed.
LEMMA AgesCut ==
  ASSUME UsedByAgent, IInv, NEW q, Ages(q), NEW p \in 1 .. Len(q), NEW i, i = q[p],
         Live' = Live \ {i}, access_count' = access_count, \A j \in Item \ {i} : Same(j),
         NEW r, r = Cut(q, p)
  PROVE /\ Ages(r)' /\ Len(r) = Len(q) - 1 /\ Len(q) \in Nat \ {0} /\ p \in 1 .. Len(q)
        /\ \A n \in 1 .. (Len(q) - 1) :
             LET m == IF n < p THEN n ELSE n + 1
             IN  /\ m \in 1 .. Len(q) /\ r[n] = q[m]
                 /\ item'[r[n]].key = item[q[m]].key /\ item'[r[n]].value = item[q[m]].value
<1>1. PICK L \in Nat \ {0} : L = Len(q) /\ p \in 1 .. L
  BY CutIs DEF Ages
<1>2. \A n \in 1 .. L : /\ q[n] \in Item
                        /\ item[q[n]].access_count <= access_count
                        /\ item[q[n]].value \in Value
  BY <1>1, AgesIs DEF Ages
<1>3. \A m, n \in 1 .. L : /\ item[q[m]].access_count < item[q[n]].access_count <=> m < n
                           /\ q[m] = q[n] => m = n
  BY <1>1, AgesIs
<1>. DEFINE from(n) == IF n < p THEN n ELSE n + 1
<1>4. /\ r \in Seq(Item) /\ Len(r) = L - 1
      /\ \A n \in 1 .. (L - 1) : r[n] = IF n < p THEN q[n] ELSE q[n + 1]
      /\ Members(r) = Members(q) \ {i}
  <2>1. q \in Seq(Item)
    BY DEF Ages
  <2>2. \A m, n \in 1 .. Len(q) : q[m] = q[n] => m = n
    BY AgesIs
  <2>3. /\ Cut(q, p) \in Seq(Item) /\ Len(Cut(q, p)) = Len(q) - 1
        /\ \A n \in 1 .. (Len(q) - 1) : Cut(q, p)[n] = IF n < p THEN q[n] ELSE q[n + 1]
    BY <2>1, CutIs
  <2>4. Members(Cut(q, p)) = Members(q) \ {q[p]}
    BY <2>1, <2>2, CutMembers
  <2>. QED BY <1>1, <2>3, <2>4
<1>5. \A n \in 1 .. (L - 1) : from(n) \in 1 .. L /\ from(n) # p /\ r[n] = q[from(n)]
  BY <1>1, <1>4
<1>6. \A m, n \in 1 .. (L - 1) : m < n => from(m) < from(n)
  BY <1>1
<1>7. \A n \in 1 .. (L - 1) : /\ item'[r[n]].access_count = item[q[from(n)]].access_count
                              /\ item'[r[n]].value = item[q[from(n)]].value
                              /\ item'[r[n]].key = item[q[from(n)]].key
  <2>. SUFFICES ASSUME NEW n \in 1 .. (L - 1) PROVE Same(r[n]) /\ r[n] = q[from(n)]
    BY SMTT(30) DEF Same
  <2>1. PICK m \in 1 .. L : m = from(n) /\ m # p /\ r[n] = q[m]
    BY <1>5
  <2>2. r[n] \in Item \ {i}
    BY <1>1, <1>2, <1>3, <2>1
  <2>. QED BY <2>1, <2>2
<1>. HIDE DEF from
<1>8. Ages(r)'
  <2>1. \A n \in 1 .. (L - 1) : item'[r[n]].access_count <= access_count' /\ item'[r[n]].value \in Value
    BY <1>2, <1>5, <1>7
  <2>2. \A m, n \in 1 .. (L - 1) : m < n => item'[r[m]].access_count < item'[r[n]].access_count
    <3>. SUFFICES ASSUME NEW m \in 1 .. (L - 1), NEW n \in 1 .. (L - 1), m < n
                  PROVE item'[r[m]].access_count < item'[r[n]].access_count
      OBVIOUS
    <3>1. PICK a \in 1 .. L : a = from(m)
      BY <1>5
    <3>2. PICK b \in 1 .. L : b = from(n)
      BY <1>5
    <3>3. a < b
      BY <1>6, <3>1, <3>2
    <3>4. /\ item'[r[m]].access_count = item[q[a]].access_count
          /\ item'[r[n]].access_count = item[q[b]].access_count
      BY <1>7, <3>1, <3>2
    <3>. QED BY <1>3, <3>3, <3>4
  <2>3. Members(r) = Live'
    BY <1>4 DEF Ages
  <2>. QED BY <1>4, <2>1, <2>2, <2>3 DEF Ages
<1>. QED BY <1>1, <1>4, <1>5, <1>7, <1>8 DEF from

\* A record that is removed leaves the abstract cache.
LEMMA DeletedNow ==
  ASSUME UsedByAgent, IInv, IInv', NEW q, Ages(q), required = 0, required' = 0,
         NEW p \in 1 .. Len(q), NEW i, i = q[p],
         Live' = Live \ {i}, access_count' = access_count, \A j \in Item \ {i} : Same(j)
  PROVE /\ \E r : Ages(r)'
        /\ AbstractCache' = [order |-> Cut(AbstractCache.order, p),
                             value |-> [AbstractCache.value EXCEPT ![item[i].key] = NULL]]
        /\ p \in 1 .. Len(AbstractCache.order) /\ AbstractCache.order[p] = item[i].key
<1>. DEFINE r == Cut(q, p)
            k == item[i].key
            A == AbstractCache
<1>1. /\ Ages(r)' /\ Len(r) = Len(q) - 1 /\ Len(q) \in Nat \ {0} /\ p \in 1 .. Len(q)
      /\ \A n \in 1 .. (Len(q) - 1) :
           LET m == IF n < p THEN n ELSE n + 1
           IN  /\ m \in 1 .. Len(q) /\ r[n] = q[m]
               /\ item'[r[n]].key = item[q[m]].key /\ item'[r[n]].value = item[q[m]].value
  BY AgesCut
<1>. HIDE DEF r
<1>2. PICK L \in Nat \ {0} : L = Len(q) /\ p \in 1 .. L
  BY <1>1
<1>3. Late(q) = 0 /\ Late(r) = 0
  <2>1. Late(q) = 0 /\ L <= Entries /\ Entries \in Nat
    BY <1>2, InMemory
  <2>. QED BY <1>1, <1>2, <2>1 DEF Late
<1>4. Reads(q) /\ Reads(r)'
  BY <1>1, AgesRead, AgesReadNext DEF Abstraction
<1>5. /\ A.order = [n \in 1 .. L |-> item[q[n]].key] /\ A.order \in Seq(Key) /\ Len(A.order) = L
      /\ A.value = [j \in Key |-> A.value[j]]
      /\ \A n \in 1 .. L : A.value[item[q[n]].key] = item[q[n]].value
      /\ \A j \in Key : (\A n \in 1 .. L : item[q[n]].key # j) => A.value[j] = NULL
  <2>1. /\ A.order = [n \in 1 .. (Len(q) - Late(q)) |-> item[q[n + Late(q)]].key]
        /\ A.value = [j \in Key |-> A.value[j]]
        /\ \A n \in (Late(q) + 1) .. Len(q) : A.value[item[q[n]].key] = item[q[n]].value
        /\ \A j \in Key : (\A n \in (Late(q) + 1) .. Len(q) : item[q[n]].key # j) => A.value[j] = NULL
    BY <1>4 DEF Reads
  <2>2. A.order \in Seq(Key) /\ Len(A.order) = L
    BY <1>2, <1>3, OrderIs
  <2>3. \A n \in 1 .. L : n + 0 = n
    OBVIOUS
  <2>. HIDE DEF A
  <2>. QED BY <1>2, <1>3, <2>1, <2>2, <2>3
<1>6. /\ A' = [order |-> [n \in 1 .. (L - 1) |-> item'[r[n]].key], value |-> A'.value]
      /\ A'.value = [j \in Key |-> A'.value[j]]
      /\ \A n \in 1 .. (L - 1) : A'.value[item'[r[n]].key] = item'[r[n]].value
      /\ \A j \in Key : (\A n \in 1 .. (L - 1) : item'[r[n]].key # j) => A'.value[j] = NULL
  <2>1. Late(r)' = 0 /\ Len(r) = L - 1
    BY <1>1, <1>2, <1>3 DEF Late, Entries
  <2>2. /\ A' = [order |-> [n \in 1 .. (Len(r) - Late(r)') |-> item'[r[n + Late(r)']].key], value |-> A'.value]
        /\ A'.value = [j \in Key |-> A'.value[j]]
        /\ \A n \in (Late(r)' + 1) .. Len(r) : A'.value[item'[r[n]].key] = item'[r[n]].value
        /\ \A j \in Key : (\A n \in (Late(r)' + 1) .. Len(r) : item'[r[n]].key # j) => A'.value[j] = NULL
    BY <1>4 DEF Reads
  <2>3. /\ \A n \in 1 .. (L - 1) : n + 0 = n
        /\ (L - 1) - 0 = L - 1 /\ 0 + 1 = 1
    OBVIOUS
  <2>. HIDE DEF A
  <2>. QED BY <2>1, <2>2, <2>3
<1>7. \A n \in 1 .. L : item[q[n]].key \in Key
  BY <1>2, AgesIs
<1>8. \A m, n \in 1 .. L : item[q[m]].key = item[q[n]].key => m = n
  BY <1>2, AgesIs
<1>. DEFINE from(n) == IF n < p THEN n ELSE n + 1
<1>9. \A n \in 1 .. (L - 1) : /\ from(n) \in 1 .. L /\ from(n) # p
                              /\ item'[r[n]].key = item[q[from(n)]].key
                              /\ item'[r[n]].value = item[q[from(n)]].value
  BY <1>1, <1>2
<1>10. \A n \in 1 .. L : n # p => \E m \in 1 .. (L - 1) : from(m) = n
  <2>. SUFFICES ASSUME NEW n \in 1 .. L, n # p PROVE \E m \in 1 .. (L - 1) : from(m) = n
    OBVIOUS
  <2>1. CASE n < p
    <3>1. n \in 1 .. (L - 1) /\ from(n) = n
      BY <1>2, <2>1
    <3>. QED BY <3>1
  <2>2. CASE ~(n < p)
    <3>1. n - 1 \in 1 .. (L - 1) /\ from(n - 1) = n
      BY <1>2, <2>2
    <3>. QED BY <3>1
  <2>. QED BY <2>1, <2>2
<1>11. k \in Key /\ A.order[p] = k
  <2>1. p \in 1 .. L /\ q[p] = i
    BY <1>2
  <2>. HIDE DEF A
  <2>. QED BY <1>5, <1>7, <2>1
<1>12. A'.order = Cut(A.order, p)
  <2>1. Cut(A.order, p) = [n \in 1 .. (Len(A.order) - 1) |-> IF n < p THEN A.order[n] ELSE A.order[n + 1]]
    BY DEF Cut
  <2>2. A'.order = [n \in 1 .. (L - 1) |-> item'[r[n]].key]
    <3>. HIDE DEF A
    <3>. QED BY <1>6
  <2>3. \A n \in 1 .. (L - 1) : item'[r[n]].key = A.order[from(n)]
    <3>1. \A m \in 1 .. L : A.order[m] = item[q[m]].key
      <4>. HIDE DEF A
      <4>. QED BY <1>5
    <3>. HIDE DEF A, from
    <3>. QED BY <1>9, <3>1
  <2>4. \A n \in 1 .. (L - 1) : item'[r[n]].key = IF n < p THEN A.order[n] ELSE A.order[n + 1]
    BY <2>3
  <2>5. Len(A.order) = L
    BY <1>5
  <2>. HIDE DEF A
  <2>. QED BY <2>1, <2>2, <2>4, <2>5
<1>. HIDE DEF from
<1>13. \A j \in Key : A'.value[j] = IF j = k THEN NULL ELSE A.value[j]
  <2>. SUFFICES ASSUME NEW j \in Key PROVE A'.value[j] = IF j = k THEN NULL ELSE A.value[j]
    OBVIOUS
  <2>. HIDE DEF A
  <2>0. p \in 1 .. L /\ k = item[q[p]].key
    BY <1>2
  <2>1. CASE \E n \in 1 .. L : n # p /\ item[q[n]].key = j
    <3>1. PICK n \in 1 .. L : n # p /\ item[q[n]].key = j
      BY <2>1
    <3>2. PICK m \in 1 .. (L - 1) : from(m) = n
      BY <1>10, <3>1
    <3>3. A'.value[j] = item[q[n]].value
      BY <1>6, <1>9, <3>1, <3>2
    <3>4. A.value[j] = item[q[n]].value
      BY <1>5, <3>1
    <3>5. j # k
      BY <1>8, <2>0, <3>1
    <3>. QED BY <3>3, <3>4, <3>5
  <2>2. CASE ~\E n \in 1 .. L : n # p /\ item[q[n]].key = j
    <3>1. \A n \in 1 .. (L - 1) : item'[r[n]].key # j
      BY <1>9, <2>2
    <3>2. A'.value[j] = NULL
      BY <1>6, <3>1
    <3>3. ASSUME j # k PROVE A.value[j] = NULL
      <4>1. \A n \in 1 .. L : item[q[n]].key # j
        BY <2>0, <2>2, <3>3
      <4>. QED BY <1>5, <4>1
    <3>. QED BY <3>2, <3>3
  <2>. QED BY <2>1, <2>2
<1>14. A'.value = [A.value EXCEPT ![k] = NULL]
  <2>1. A.value = [j \in Key |-> A.value[j]] /\ A'.value = [j \in Key |-> A'.value[j]]
    BY <1>5, <1>6
  <2>. HIDE DEF A, k
  <2>. QED BY <1>13, <2>1
<1>15. A' = [order |-> A'.order, value |-> A'.value]
  <2>. HIDE DEF A
  <2>. QED BY <1>6
<1>16. p \in 1 .. Len(A.order)
  BY <1>2, <1>5
<1>. HIDE DEF A, k
<1>17. A' = [order |-> Cut(A.order, p), value |-> [A.value EXCEPT ![k] = NULL]]
  BY <1>12, <1>14, <1>15
<1>. QED BY <1>1, <1>11, <1>16, <1>17 DEF A, k

\* A record in memory, and how the abstract cache reads it.
LEMMA ReadsNow ==
  ASSUME UsedByAgent, IInv, NEW q, Ages(q), Late(q) = 0
  PROVE LET A == AbstractCache
            L == Len(q)
        IN  /\ A = [order |-> A.order, value |-> A.value]
            /\ A.order \in Seq(Key) /\ Len(A.order) = L
            /\ \A n \in 1 .. L : A.order[n] = item[q[n]].key
            /\ A.value = [j \in Key |-> A.value[j]]
            /\ \A n \in 1 .. L : A.value[item[q[n]].key] = item[q[n]].value
            /\ \A j \in Key : (\A n \in 1 .. L : item[q[n]].key # j) => A.value[j] = NULL
<1>1. PICK L \in Nat : L = Len(q)
  BY AgesIs
<1>2. Reads(q)
  BY AgesRead DEF Abstraction
<1>3. /\ AbstractCache.order \in Seq(Key) /\ Len(AbstractCache.order) = L
      /\ \A n \in 1 .. L : AbstractCache.order[n] = item[q[n + 0]].key
  <2>1. \A o : o = Late(q) =>
          /\ AbstractCache.order \in Seq(Key) /\ Len(AbstractCache.order) = Len(q) - o
          /\ \A n \in 1 .. (Len(q) - o) : AbstractCache.order[n] = item[q[n + o]].key
    BY OrderIs
  <2>. QED BY <1>1, <2>1
<1>4. \A n \in 1 .. L : n + 0 = n
  OBVIOUS
<1>5. /\ \A n \in 1 .. L : AbstractCache.value[item[q[n]].key] = item[q[n]].value
      /\ \A j \in Key : (\A n \in 1 .. L : item[q[n]].key # j) => AbstractCache.value[j] = NULL
  <2>1. (Late(q) + 1) .. Len(q) = 1 .. L
    BY <1>1
  <2>. QED BY <1>2, <2>1 DEF Reads
<1>6. /\ AbstractCache = [order |-> AbstractCache.order, value |-> AbstractCache.value]
      /\ AbstractCache.value = [j \in Key |-> AbstractCache.value[j]]
  <2>1. AbstractCache = [order |-> [n \in 1 .. (Len(q) - Late(q)) |-> item[q[n + Late(q)]].key],
                         value |-> AbstractCache.value]
    BY <1>2 DEF Reads
  <2>. QED BY <1>2, <2>1 DEF Reads
<1>. QED BY <1>1, <1>3, <1>4, <1>5, <1>6

\* The record that is evicted is not in the abstract cache any more.
LEMMA EvictedNow ==
  ASSUME UsedByAgent, IInv, IInv', NEW q, Ages(q), free_memory < required, NEW i \in Oldest,
         Live' = Live \ {i}, access_count' = access_count, \A j \in Item \ {i} : Same(j)
  PROVE (\E r : Ages(r)') /\ AbstractCache' = AbstractCache
<1>1. PICK L \in Nat : L = Len(q) /\ L = Entries + 1 /\ Entries \in Nat \ {0} /\ Late(q) = 1
  BY InMemory
<1>2. i = q[1] /\ 1 \in 1 .. L
  <2>1. PICK p \in 1 .. L : i = q[p]
    BY <1>1 DEF Ages, Members, Oldest
  <2>2. 1 \in 1 .. L
    BY <1>1
  <2>3. q[1] \in Live /\ item[q[1]].access_count \in Nat /\ item[q[p]].access_count \in Nat
    BY <1>1, <2>2, AgesIs
  <2>4. item[i].access_count <= item[q[1]].access_count
    BY <2>3 DEF Oldest
  <2>5. item[q[1]].access_count < item[q[p]].access_count <=> 1 < p
    BY <1>1, <2>2, AgesIs
  <2>6. p = 1
    BY <2>1, <2>3, <2>4, <2>5
  <2>. QED BY <2>1, <2>2, <2>6
<1>. DEFINE r == Cut(q, 1)
            A == AbstractCache
<1>3. /\ Ages(r)' /\ Len(r) = Len(q) - 1
      /\ \A n \in 1 .. (Len(q) - 1) :
           LET m == IF n < 1 THEN n ELSE n + 1
           IN  /\ m \in 1 .. Len(q) /\ r[n] = q[m]
               /\ item'[r[n]].key = item[q[m]].key /\ item'[r[n]].value = item[q[m]].value
  <2>1. \A p \in 1 .. Len(q) : \A t : i = q[p] /\ t = Cut(q, p) =>
          /\ Ages(t)' /\ Len(t) = Len(q) - 1
          /\ \A n \in 1 .. (Len(q) - 1) :
               LET m == IF n < p THEN n ELSE n + 1
               IN  /\ m \in 1 .. Len(q) /\ t[n] = q[m]
                   /\ item'[t[n]].key = item[q[m]].key /\ item'[t[n]].value = item[q[m]].value
    BY AgesCut
  <2>2. 1 \in 1 .. Len(q)
    BY <1>1, <1>2
  <2>. QED BY <1>2, <2>1, <2>2
<1>. HIDE DEF r
<1>4. \A n \in 1 .. (L - 1) : /\ item'[r[n]].key = item[q[n + 1]].key
                              /\ item'[r[n]].value = item[q[n + 1]].value
  <2>1. \A n \in 1 .. (L - 1) : ~(n < 1)
    OBVIOUS
  <2>. QED BY <1>1, <1>3, <2>1
<1>5. Late(r) = 0 /\ Len(r) = L - 1
  <2>1. PICK e \in Nat : e = Entries /\ L = e + 1
    BY <1>1
  <2>2. Len(r) = L - 1 /\ L - 1 = e
    <3>1. Len(r) = Len(q) - 1
      BY <1>3
    <3>2. Len(r) = L - 1
      BY <1>1, <3>1
    <3>. QED BY <2>1, <3>2
  <2>. QED BY <2>1, <2>2 DEF Late
<1>6. Reads(q) /\ Reads(r)'
  BY <1>3, AgesRead, AgesReadNext DEF Abstraction
<1>7. /\ A = [order |-> [n \in 1 .. (L - 1) |-> item[q[n + 1]].key], value |-> A.value]
      /\ A.value = [j \in Key |-> A.value[j]]
      /\ \A n \in 2 .. L : A.value[item[q[n]].key] = item[q[n]].value
      /\ \A j \in Key : (\A n \in 2 .. L : item[q[n]].key # j) => A.value[j] = NULL
  BY <1>1, <1>6 DEF Reads
<1>8. /\ A' = [order |-> [n \in 1 .. (L - 1) |-> item'[r[n]].key], value |-> A'.value]
      /\ A'.value = [j \in Key |-> A'.value[j]]
      /\ \A n \in 1 .. (L - 1) : A'.value[item'[r[n]].key] = item'[r[n]].value
      /\ \A j \in Key : (\A n \in 1 .. (L - 1) : item'[r[n]].key # j) => A'.value[j] = NULL
  <2>1. Late(r)' = 0
    BY <1>5 DEF Late, Entries
  <2>2. /\ A' = [order |-> [n \in 1 .. (Len(r) - Late(r)') |-> item'[r[n + Late(r)']].key], value |-> A'.value]
        /\ A'.value = [j \in Key |-> A'.value[j]]
        /\ \A n \in (Late(r)' + 1) .. Len(r) : A'.value[item'[r[n]].key] = item'[r[n]].value
        /\ \A j \in Key : (\A n \in (Late(r)' + 1) .. Len(r) : item'[r[n]].key # j) => A'.value[j] = NULL
    BY <1>6 DEF Reads
  <2>3. /\ \A n \in 1 .. (L - 1) : n + 0 = n
        /\ (L - 1) - 0 = L - 1 /\ 0 + 1 = 1
    BY <1>1
  <2>. HIDE DEF A
  <2>. QED BY <1>5, <2>1, <2>2, <2>3
<1>9. [n \in 1 .. (L - 1) |-> item'[r[n]].key] = [n \in 1 .. (L - 1) |-> item[q[n + 1]].key]
  BY <1>4
<1>10. \A j \in Key : A'.value[j] = A.value[j]
  <2>. SUFFICES ASSUME NEW j \in Key PROVE A'.value[j] = A.value[j]
    OBVIOUS
  <2>. HIDE DEF A
  <2>1. CASE \E n \in 1 .. (L - 1) : item[q[n + 1]].key = j
    <3>1. PICK n \in 1 .. (L - 1) : item[q[n + 1]].key = j
      BY <2>1
    <3>2. n + 1 \in 2 .. L
      BY <1>1
    <3>3. A.value[j] = item[q[n + 1]].value
      BY <1>7, <3>1, <3>2
    <3>4. A'.value[j] = item[q[n + 1]].value
      BY <1>4, <1>8, <3>1
    <3>. QED BY <3>3, <3>4
  <2>2. CASE ~\E n \in 1 .. (L - 1) : item[q[n + 1]].key = j
    <3>1. A'.value[j] = NULL
      BY <1>4, <1>8, <2>2
    <3>2. \A n \in 2 .. L : item[q[n]].key # j
      <4>. SUFFICES ASSUME NEW n \in 2 .. L PROVE item[q[n]].key # j
        OBVIOUS
      <4>1. n - 1 \in 1 .. (L - 1) /\ (n - 1) + 1 = n
        BY <1>1
      <4>. QED BY <2>2, <4>1
    <3>. QED BY <1>7, <3>1, <3>2
  <2>. QED BY <2>1, <2>2
<1>11. A'.value = A.value
  <2>. HIDE DEF A
  <2>. QED BY <1>7, <1>8, <1>10
<1>12. A' = A
  <2>. HIDE DEF A
  <2>. QED BY <1>7, <1>8, <1>9, <1>11
<1>. QED BY <1>3, <1>12 DEF A

\* A record is added, and the oldest one leaves the abstract cache when there is no room.
LEMMA InsertedNow ==
  ASSUME UsedByAgent, IInv, IInv', NEW q, Ages(q), required = 0,
         NEW k \in Key, NEW v \in Value, NEW i \in Item, i \notin Live, Live' = Live \cup {i},
         access_count' = access_count + 1, item'[i].access_count = access_count + 1,
         item'[i].key = k, item'[i].value = v, \A j \in Item \ {i} : Same(j),
         \A n \in 1 .. Len(q) : item[q[n]].key # k
  PROVE /\ \E r : Ages(r)'
        /\ AbstractCache.value[k] = NULL
        /\ \A n \in 1 .. Len(AbstractCache.order) : AbstractCache.order[n] # k
        /\ AbstractCache' =
             IF Len(AbstractCache.order) = Entries
               THEN [order |-> Append(Tail(AbstractCache.order), k),
                     value |-> [j \in Key |-> IF j = k THEN v
                                              ELSE IF j = Head(AbstractCache.order) THEN NULL
                                              ELSE AbstractCache.value[j]]]
               ELSE [order |-> Append(AbstractCache.order, k),
                     value |-> [j \in Key |-> IF j = k THEN v ELSE AbstractCache.value[j]]]
<1>. DEFINE r == Append(q, i)
            A == AbstractCache
<1>1. PICK L \in Nat, e \in Nat \ {0} : L = Len(q) /\ e = Entries /\ L <= e /\ Late(q) = 0
  BY InMemory
<1>2. PICK o \in {0, 1} : o = IF L < e THEN 0 ELSE 1
  OBVIOUS
<1>3. \A n \in 1 .. L : /\ q[n] \in Item \ {i} /\ item[q[n]].access_count \in Nat
                        /\ item[q[n]].access_count <= access_count
                        /\ item[q[n]].value \in Value
  <2>1. \A n \in 1 .. L : q[n] \in Item /\ q[n] \in Live /\ item[q[n]].access_count \in Nat
    BY <1>1, AgesIs
  <2>2. \A n \in 1 .. L : item[q[n]].access_count <= access_count /\ item[q[n]].value \in Value
    BY <1>1 DEF Ages
  <2>. QED BY <2>1, <2>2
<1>4. /\ r \in Seq(Item) /\ Len(r) = L + 1 /\ r[L + 1] = i /\ \A n \in 1 .. L : r[n] = q[n]
  <2>1. q \in Seq(Item)
    BY DEF Ages
  <2>. QED BY <1>1, <2>1, AppendProperties
<1>. HIDE DEF r
<1>5. \A n \in 1 .. L : /\ item'[r[n]].key = item[q[n]].key /\ item'[r[n]].value = item[q[n]].value
                        /\ item'[r[n]].access_count = item[q[n]].access_count
  BY <1>3, <1>4 DEF Same
<1>6. Ages(r)'
  <2>1. Members(r) = Members(q) \cup {i}
    <3>1. \A n \in 1 .. (L + 1) : n = L + 1 \/ n \in 1 .. L
      OBVIOUS
    <3>2. L + 1 \in 1 .. (L + 1) /\ \A n \in 1 .. L : n \in 1 .. (L + 1)
      OBVIOUS
    <3>3. \A x : x \in Members(r) <=> x \in Members(q) \cup {i}
      BY <1>1, <1>4, <3>1, <3>2 DEF Members
    <3>. QED BY <3>3
  <2>2. access_count \in Nat
    BY BoundAssumption DEF IInv, TypeOK
  <2>3. \A n \in 1 .. (L + 1) : item'[r[n]].access_count <= access_count' /\ item'[r[n]].value \in Value
    <3>. SUFFICES ASSUME NEW n \in 1 .. (L + 1)
                  PROVE item'[r[n]].access_count <= access_count' /\ item'[r[n]].value \in Value
      OBVIOUS
    <3>1. CASE n = L + 1
      BY <1>4, <2>2, <3>1
    <3>2. CASE n # L + 1
      <4>1. n \in 1 .. L
        BY <3>2
      <4>. QED BY <1>3, <1>5, <2>2, <4>1
    <3>. QED BY <3>1, <3>2
  <2>4. \A m, n \in 1 .. (L + 1) : m < n => item'[r[m]].access_count < item'[r[n]].access_count
    <3>. SUFFICES ASSUME NEW m \in 1 .. (L + 1), NEW n \in 1 .. (L + 1), m < n
                  PROVE item'[r[m]].access_count < item'[r[n]].access_count
      OBVIOUS
    <3>1. m \in 1 .. L
      OBVIOUS
    <3>2. CASE n = L + 1
      <4>1. item'[r[n]].access_count = access_count + 1
        BY <1>4, <3>2
      <4>. QED BY <1>3, <1>5, <2>2, <3>1, <4>1
    <3>3. CASE n # L + 1
      <4>1. n \in 1 .. L
        BY <3>3
      <4>2. item[q[m]].access_count < item[q[n]].access_count <=> m < n
        BY <1>1, <3>1, <4>1, AgesIs
      <4>. QED BY <1>5, <3>1, <4>1, <4>2
    <3>. QED BY <3>2, <3>3
  <2>. QED BY <1>4, <2>1, <2>3, <2>4 DEF Ages
<1>7. /\ A = [order |-> A.order, value |-> A.value]
      /\ A.order \in Seq(Key) /\ Len(A.order) = L
      /\ \A n \in 1 .. L : A.order[n] = item[q[n]].key
      /\ A.value = [j \in Key |-> A.value[j]]
      /\ \A n \in 1 .. L : A.value[item[q[n]].key] = item[q[n]].value
      /\ \A j \in Key : (\A n \in 1 .. L : item[q[n]].key # j) => A.value[j] = NULL
  BY <1>1, ReadsNow
<1>8. Late(r)' = o
  BY <1>1, <1>2, <1>4 DEF Late, Entries
<1>9. /\ A' = [order |-> [n \in 1 .. ((L + 1) - o) |-> item'[r[n + o]].key], value |-> A'.value]
      /\ A'.value = [j \in Key |-> A'.value[j]]
      /\ \A n \in (o + 1) .. (L + 1) : A'.value[item'[r[n]].key] = item'[r[n]].value
      /\ \A j \in Key : (\A n \in (o + 1) .. (L + 1) : item'[r[n]].key # j) => A'.value[j] = NULL
  <2>1. Reads(r)'
    BY <1>6, AgesReadNext
  <2>2. /\ A' = [order |-> [n \in 1 .. (Len(r) - Late(r)') |-> item'[r[n + Late(r)']].key], value |-> A'.value]
        /\ A'.value = [j \in Key |-> A'.value[j]]
        /\ \A n \in (Late(r)' + 1) .. Len(r) : A'.value[item'[r[n]].key] = item'[r[n]].value
        /\ \A j \in Key : (\A n \in (Late(r)' + 1) .. Len(r) : item'[r[n]].key # j) => A'.value[j] = NULL
    BY <2>1 DEF Reads
  <2>. HIDE DEF A
  <2>. QED BY <1>4, <1>8, <2>2
<1>10. A.value[k] = NULL /\ \A n \in 1 .. L : A.order[n] # k
  <2>1. \A n \in 1 .. L : item[q[n]].key # k
    BY <1>1
  <2>. HIDE DEF A
  <2>. QED BY <1>7, <2>1
<1>. DEFINE kept == IF o = 0 THEN A.order ELSE Tail(A.order)
<1>11. /\ kept \in Seq(Key) /\ Len(kept) = L - o /\ L - o \in Nat
       /\ \A n \in 1 .. (L - o) : kept[n] = A.order[n + o]
  <2>. HIDE DEF A
  <2>1. PICK s \in Seq(Key) : s = A.order /\ Len(s) = L
    BY <1>7
  <2>2. CASE o = 0
    <3>1. \A n \in 1 .. L : n + 0 = n
      OBVIOUS
    <3>. QED BY <2>1, <2>2, <3>1
  <2>3. CASE o = 1
    <3>1. L # 0
      BY <1>1, <1>2, <2>3
    <3>2. s # <<>>
      BY <2>1, <3>1
    <3>3. Tail(s) \in Seq(Key) /\ Len(Tail(s)) = L - 1 /\ \A n \in 1 .. (L - 1) : Tail(s)[n] = s[n + 1]
      BY <2>1, <3>2, HeadTailProperties
    <3>. QED BY <2>1, <2>3, <3>1, <3>3
  <2>. QED BY <2>2, <2>3
<1>. HIDE DEF kept
<1>12. [n \in 1 .. ((L + 1) - o) |-> item'[r[n + o]].key] = Append(kept, k)
  <2>1. PICK h \in Nat : h = L - o
    BY <1>11
  <2>2. PICK t \in Seq(Key) : t = Append(kept, k)
    <3>1. \A s \in Seq(Key) : Append(s, k) \in Seq(Key)
      OBVIOUS
    <3>. QED BY <1>11, <3>1
  <2>3. Len(t) = h + 1 /\ t[h + 1] = k /\ \A n \in 1 .. h : t[n] = kept[n]
    BY <1>11, <2>1, <2>2, AppendProperties
  <2>4. t \in [1 .. (h + 1) -> Key]
    BY <2>3, LenProperties
  <2>5. \A n \in 1 .. (h + 1) : t[n] = item'[r[n + o]].key
    <3>. SUFFICES ASSUME NEW n \in 1 .. (h + 1) PROVE t[n] = item'[r[n + o]].key
      OBVIOUS
    <3>1. CASE n = h + 1
      <4>1. n + o = L + 1
        BY <2>1, <3>1
      <4>. QED BY <1>4, <2>3, <3>1, <4>1
    <3>2. CASE n # h + 1
      <4>1. n \in 1 .. h /\ n + o \in 1 .. L
        BY <1>2, <2>1, <3>2
      <4>2. t[n] = A.order[n + o]
        <5>. HIDE DEF A
        <5>. QED BY <1>11, <2>1, <2>3, <4>1
      <4>3. A.order[n + o] = item[q[n + o]].key
        <5>. HIDE DEF A
        <5>. QED BY <1>7, <4>1
      <4>. QED BY <1>5, <4>1, <4>2, <4>3
    <3>. QED BY <3>1, <3>2
  <2>6. (L + 1) - o = h + 1
    BY <1>2, <2>1
  <2>. QED BY <2>2, <2>4, <2>5, <2>6
<1>13. o = 1 => L # 0 /\ Head(A.order) = item[q[1]].key
  <2>1. o = 1 => L # 0
    BY <1>1, <1>2
  <2>2. L # 0 => A.order # <<>> /\ 1 \in 1 .. L
    <3>. HIDE DEF A
    <3>. QED BY <1>7
  <2>3. L # 0 => Head(A.order) = A.order[1]
    <3>. HIDE DEF A
    <3>. QED BY <1>7, <2>2
  <2>. HIDE DEF A
  <2>. QED BY <1>7, <2>1, <2>2, <2>3
<1>14. ASSUME NEW j \in Key
       PROVE A'.value[j] = IF j = k THEN v
                           ELSE IF o = 1 /\ j = Head(A.order) THEN NULL
                           ELSE A.value[j]
  <2>1. CASE j = k
    <3>1. L + 1 \in (o + 1) .. (L + 1)
      BY <1>1, <1>2, <1>13
    <3>. HIDE DEF A
    <3>. QED BY <1>4, <1>9, <2>1, <3>1
  <2>2. CASE j # k /\ \E n \in (o + 1) .. L : item[q[n]].key = j
    <3>1. PICK n \in (o + 1) .. L : item[q[n]].key = j
      BY <2>2
    <3>2. n \in 1 .. L /\ n \in (o + 1) .. (L + 1)
      BY <1>2
    <3>3. A'.value[j] = item[q[n]].value /\ A.value[j] = item[q[n]].value
      <4>. HIDE DEF A
      <4>. QED BY <1>5, <1>7, <1>9, <3>1, <3>2
    <3>4. o = 1 => j # Head(A.order)
      <4>1. o = 1 => 1 \in 1 .. L /\ n # 1
        BY <1>13, <3>1
      <4>2. \A a, b \in 1 .. L : item[q[a]].key = item[q[b]].key => a = b
        BY <1>1, AgesIs
      <4>. HIDE DEF A
      <4>. QED BY <1>13, <3>1, <3>2, <4>1, <4>2
    <3>. HIDE DEF A
    <3>. QED BY <2>2, <3>3, <3>4
  <2>3. CASE j # k /\ ~\E n \in (o + 1) .. L : item[q[n]].key = j
    <3>1. \A n \in (o + 1) .. (L + 1) : item'[r[n]].key # j
      <4>. SUFFICES ASSUME NEW n \in (o + 1) .. (L + 1) PROVE item'[r[n]].key # j
        OBVIOUS
      <4>1. CASE n = L + 1
        BY <1>4, <2>3, <4>1
      <4>2. CASE n # L + 1
        <5>1. n \in (o + 1) .. L /\ n \in 1 .. L
          BY <1>2, <4>2
        <5>. QED BY <1>5, <2>3, <5>1
      <4>. QED BY <4>1, <4>2
    <3>2. A'.value[j] = NULL
      <4>. HIDE DEF A
      <4>. QED BY <1>9, <3>1
    <3>3. CASE o = 1 /\ j = Head(A.order)
      <4>. HIDE DEF A
      <4>. QED BY <2>3, <3>2, <3>3
    <3>4. CASE ~(o = 1 /\ j = Head(A.order))
      <4>1. \A n \in 1 .. L : item[q[n]].key # j
        <5>. SUFFICES ASSUME NEW n \in 1 .. L PROVE item[q[n]].key # j
          OBVIOUS
        <5>1. n \in (o + 1) .. L \/ (o = 1 /\ n = 1)
          BY <1>2
        <5>. HIDE DEF A
        <5>. QED BY <1>13, <2>3, <3>4, <5>1
      <4>2. A.value[j] = NULL
        <5>. HIDE DEF A
        <5>. QED BY <1>7, <4>1
      <4>. HIDE DEF A
      <4>. QED BY <2>3, <3>2, <3>4, <4>2
    <3>. QED BY <3>3, <3>4
  <2>. QED BY <2>1, <2>2, <2>3
<1>15. A' = [order |-> Append(kept, k),
             value |-> [j \in Key |-> IF j = k THEN v
                                      ELSE IF o = 1 /\ j = Head(A.order) THEN NULL
                                      ELSE A.value[j]]]
  <2>. HIDE DEF A
  <2>. QED BY <1>9, <1>12, <1>14
<1>16. Len(A.order) = Entries <=> o = 1
  <2>. HIDE DEF A
  <2>. QED BY <1>1, <1>2, <1>7
<1>17. A' = IF Len(A.order) = Entries
              THEN [order |-> Append(Tail(A.order), k),
                    value |-> [j \in Key |-> IF j = k THEN v
                                             ELSE IF j = Head(A.order) THEN NULL
                                             ELSE A.value[j]]]
              ELSE [order |-> Append(A.order, k),
                    value |-> [j \in Key |-> IF j = k THEN v ELSE A.value[j]]]
  <2>. HIDE DEF A
  <2>1. CASE o = 1
    BY <1>15, <1>16, <2>1 DEF kept
  <2>2. CASE o = 0
    BY <1>15, <1>16, <2>2 DEF kept
  <2>. QED BY <2>1, <2>2
<1>18. Len(A.order) = L
  <2>. HIDE DEF A
  <2>. QED BY <1>7
<1>. HIDE DEF A
<1>. QED BY <1>6, <1>10, <1>17, <1>18 DEF A
-----------------------------------------------------------------------------
(* The steps implement those of Lru. *)

AInv == IInv /\ \E q : Ages(q)

\* The record that a search finds is one of the records by age.
LEMMA Found ==
  ASSUME UsedByAgent, IInv, NEW q, Ages(q), NEW k \in Key
  PROVE /\ \A i \in Matches(k) : /\ i \in Item /\ item[i] \in Record
                                 /\ item[i].key = k /\ item[i].value \in Value
                                 /\ \E p \in 1 .. Len(q) : q[p] = i
        /\ Matches(k) = {} => \A n \in 1 .. Len(q) : item[q[n]].key # k
<1>1. PICK L \in Nat : L = Len(q)
  BY AgesIs
<1>2. Live = {q[n] : n \in 1 .. L} /\ \A n \in 1 .. L : item[q[n]].value \in Value
  BY <1>1 DEF Ages, Members
<1>3. Hash[k] \in Bucket
  BY TableAssumption
<1>4. \A i \in Live : i \in Item /\ i \in Chain(Hash[item[i].key])
  BY KeysOnce
<1>5. ASSUME NEW i \in Matches(k)
      PROVE /\ i \in Item /\ item[i] \in Record /\ item[i].key = k /\ item[i].value \in Value
            /\ \E p \in 1 .. L : q[p] = i
  <2>1. i \in Live /\ item[i].key = k
    BY <1>3 DEF Matches, Live
  <2>2. PICK p \in 1 .. L : q[p] = i
    BY <1>2, <2>1
  <2>3. i \in Item /\ item[i] \in Record
    BY <1>4, <2>1 DEF IInv, TypeOK
  <2>. QED BY <1>2, <2>1, <2>2, <2>3
<1>6. ASSUME Matches(k) = {}, NEW n \in 1 .. L, item[q[n]].key = k PROVE FALSE
  <2>1. q[n] \in Live
    BY <1>2
  <2>2. q[n] \in Chain(Hash[k])
    BY <1>4, <1>6, <2>1
  <2>. QED BY <1>6, <2>2 DEF Matches
<1>. QED BY <1>1, <1>5, <1>6

\* What the abstract operations compute, for a key that is held at p.
LEMMA HeldOps ==
  ASSUME UsedByAgent, IInv, NEW q, Ages(q), Late(q) = 0, NEW k \in Key,
         NEW p \in 1 .. Len(AbstractCache.order), AbstractCache.order[p] = k,
         AbstractCache.value[k] # NULL
  PROVE /\ Abstract!GetOp(AbstractCache, k) =
             [order |-> Append(Cut(AbstractCache.order, p), k), value |-> AbstractCache.value]
        /\ \A v \in Value : Abstract!SetOp(AbstractCache, k, v) =
             [order |-> Append(Cut(AbstractCache.order, p), k),
              value |-> [AbstractCache.value EXCEPT ![k] = v]]
        /\ Abstract!DeleteOp(AbstractCache, k) =
             [order |-> Cut(AbstractCache.order, p), value |-> [AbstractCache.value EXCEPT ![k] = NULL]]
<1>. DEFINE A == AbstractCache
<1>1. /\ A = [order |-> A.order, value |-> A.value]
      /\ A.order \in Seq(Key) /\ Len(A.order) = Len(q)
      /\ A.value = [j \in Key |-> A.value[j]]
  BY ReadsNow
<1>2. \A m, n \in 1 .. Len(A.order) : A.order[m] = A.order[n] => m = n
  <2>1. \A o : o = Late(q) =>
          \A m, n \in 1 .. (Len(q) - o) : A.order[m] = A.order[n] => m = n
    BY OrderIs
  <2>2. Len(q) \in Nat /\ Len(q) - 0 = Len(q)
    BY AgesIs
  <2>. HIDE DEF A
  <2>. QED BY <1>1, <2>1, <2>2
<1>3. p \in 1 .. Len(A.order) /\ A.order[p] = k /\ A.value[k] # NULL
  OBVIOUS
<1>. HIDE DEF A
<1>4. Abstract!Without(A.order, k) = Cut(A.order, p)
  BY <1>1, <1>2, <1>3, WithoutIs
<1>5. Abstract!GetOp(A, k) = [order |-> Append(Cut(A.order, p), k), value |-> A.value]
  <2>1. Abstract!GetOp(A, k) = [A EXCEPT !.order = Append(Abstract!Without(A.order, k), k)]
    BY <1>3 DEF Abstract!GetOp, Abstract!Cached
  <2>. QED BY <1>1, <1>4, <2>1
<1>6. ASSUME NEW v \in Value
      PROVE Abstract!SetOp(A, k, v) =
              [order |-> Append(Cut(A.order, p), k), value |-> [A.value EXCEPT ![k] = v]]
  <2>1. Abstract!Victim(A, k) = {}
    BY <1>3 DEF Abstract!Victim, Abstract!Cached
  <2>2. Abstract!SetOp(A, k, v) =
          [order |-> Append(Abstract!Without(A.order, k), k),
           value |-> [j \in Key |-> IF j = k THEN v ELSE A.value[j]]]
    BY <2>1 DEF Abstract!SetOp
  <2>3. [j \in Key |-> IF j = k THEN v ELSE A.value[j]] = [A.value EXCEPT ![k] = v]
    BY <1>1
  <2>. QED BY <1>4, <2>2, <2>3
<1>7. Abstract!DeleteOp(A, k) = [order |-> Cut(A.order, p), value |-> [A.value EXCEPT ![k] = NULL]]
  BY <1>4 DEF Abstract!DeleteOp
<1>. QED BY <1>5, <1>6, <1>7 DEF A

\* lruc_get is the abstract Get.
LEMMA GetStep ==
  ASSUME UsedByAgent, AInv, NEW k \in Key, Get(k)
  PROVE AInv' /\ Abstract!Get(k)
<1>1. PICK q : Ages(q)
  BY DEF AInv
<1>2. IInv /\ IInv' /\ Live' = Live
  BY GetInv DEF AInv
<1>3. required = 0 /\ required' = 0 /\ Late(q) = 0
  <2>1. required = 0 /\ required' = 0
    BY <1>2 DEF IInv, Balance, Get
  <2>. QED BY <1>1, <1>2, <2>1, InMemory
<1>4. CASE Matches(k) = {}
  <2>1. out' = NULL /\ item' = item /\ access_count' = access_count
    BY <1>4 DEF Get
  <2>2. AbstractCache' = AbstractCache
    BY <1>2, <2>1 DEF AbstractCache, Entries
  <2>3. Ages(q)'
    BY <1>1, <1>2, <2>1 DEF Ages, Members
  <2>4. AbstractCache.value[k] = NULL
    <3>1. \A n \in 1 .. Len(q) : item[q[n]].key # k
      BY <1>1, <1>2, <1>4, Found
    <3>. QED BY <1>1, <1>2, <1>3, <3>1, ReadsNow
  <2>5. Abstract!GetOp(AbstractCache, k) = AbstractCache
    BY <2>4 DEF Abstract!GetOp, Abstract!Cached
  <2>. QED BY <1>2, <2>1, <2>2, <2>3, <2>4, <2>5 DEF AInv, Abstract!Get
<1>5. CASE Matches(k) # {}
  <2>1. PICK i \in Matches(k) :
              /\ out' = item[i].value
              /\ access_count' = access_count + 1
              /\ item' = [item EXCEPT ![i].access_count = access_count + 1]
    BY <1>5 DEF Get
  <2>2. i \in Item /\ item[i] \in Record /\ item[i].key = k /\ item[i].value \in Value
    BY <1>1, <1>2, Found
  <2>3. PICK p \in 1 .. Len(q) : q[p] = i
    BY <1>1, <1>2, Found
  <2>4. item'[i] = [item[i] EXCEPT !.access_count = access_count + 1] /\ \A j \in Item \ {i} : item'[j] = item[j]
    BY <1>2, <2>1, <2>2 DEF IInv, TypeOK
  <2>5. /\ item'[i].key = item[i].key /\ item'[i].value = item[i].value
        /\ item'[i].access_count = access_count + 1
    BY <2>2, <2>4 DEF Record
  <2>6. \A j \in Item \ {i} : Same(j)
    BY <2>4 DEF Same
  <2>7. /\ \E r : Ages(r)'
        /\ AbstractCache' = [order |-> Append(Cut(AbstractCache.order, p), item[i].key),
                             value |-> [AbstractCache.value EXCEPT ![item[i].key] = item'[i].value]]
        /\ p \in 1 .. Len(AbstractCache.order) /\ AbstractCache.order[p] = item[i].key
        /\ AbstractCache.value[item[i].key] = item[i].value
    BY <1>1, <1>2, <1>3, <2>1, <2>2, <2>3, <2>5, <2>6, UsedNow
  <2>8. AbstractCache.value = [j \in Key |-> AbstractCache.value[j]]
    BY <1>1, <1>2, <1>3, ReadsNow
  <2>9. [AbstractCache.value EXCEPT ![k] = item'[i].value] = AbstractCache.value
    BY <2>2, <2>5, <2>7, <2>8
  <2>10. AbstractCache.value[k] = out' /\ AbstractCache.value[k] # NULL
    BY <2>1, <2>2, <2>7, TableAssumption
  <2>11. Abstract!GetOp(AbstractCache, k) =
             [order |-> Append(Cut(AbstractCache.order, p), k), value |-> AbstractCache.value]
    BY <1>1, <1>2, <1>3, <2>2, <2>7, <2>10, HeldOps
  <2>12. AbstractCache' = Abstract!GetOp(AbstractCache, k)
    BY <2>2, <2>7, <2>9, <2>11
  <2>. QED BY <1>2, <2>7, <2>10, <2>12 DEF AInv, Abstract!Get
<1>. QED BY <1>4, <1>5

\* lruc_set on a held key is the abstract Set.
LEMMA UpdateStep ==
  ASSUME UsedByAgent, AInv, NEW k \in Key, NEW v \in Value, NEW len \in Lengths,
         Set(k, v, len), Update(k, v, len)
  PROVE AInv' /\ Abstract!Set(k, v)
<1>1. PICK q : Ages(q)
  BY DEF AInv
<1>2. IInv /\ IInv' /\ Live' = Live
  BY UpdateInv DEF AInv
<1>3. PICK i \in Matches(k) :
         /\ required' = (len - item[i].value_length) % Wrap
         /\ item' = [item EXCEPT ![i].value = v, ![i].value_length = len,
                                 ![i].access_count = access_count + 1]
  BY DEF Update
<1>4. i \in Item /\ item[i] \in Record /\ item[i].key = k
  BY <1>1, <1>2, Found
<1>5. PICK p \in 1 .. Len(q) : q[p] = i
  BY <1>1, <1>2, Found
<1>6. len = Length /\ item[i].value_length = Length
  <2>1. PICK c : Shape(c)
    BY <1>2 DEF IInv
  <2>. QED BY <2>1, Used, Match
<1>7. required = 0 /\ required' = 0 /\ Late(q) = 0
  <2>1. required = 0
    BY <1>2 DEF IInv, Balance, Set
  <2>2. Length - Length = 0 /\ 0 % Wrap = 0
    BY Used, MemoryAssumption
  <2>. QED BY <1>1, <1>2, <1>3, <1>6, <2>1, <2>2, InMemory
<1>8. /\ item'[i] = [item[i] EXCEPT !.value = v, !.value_length = len, !.access_count = access_count + 1]
      /\ \A j \in Item \ {i} : item'[j] = item[j]
  BY <1>2, <1>3, <1>4 DEF IInv, TypeOK
<1>9. /\ item'[i].key = item[i].key /\ item'[i].value = v
      /\ item'[i].access_count = access_count + 1 /\ item'[i].value_length = item[i].value_length
  BY <1>4, <1>6, <1>8 DEF Record
<1>10. \A j \in Item \ {i} : Same(j)
  BY <1>8 DEF Same
<1>11. access_count' = access_count + 1 /\ out' = out
  BY DEF Set
<1>12. /\ \E r : Ages(r)'
       /\ AbstractCache' = [order |-> Append(Cut(AbstractCache.order, p), item[i].key),
                            value |-> [AbstractCache.value EXCEPT ![item[i].key] = item'[i].value]]
       /\ p \in 1 .. Len(AbstractCache.order) /\ AbstractCache.order[p] = item[i].key
       /\ AbstractCache.value[item[i].key] = item[i].value
  BY <1>1, <1>2, <1>5, <1>7, <1>9, <1>10, <1>11, UsedNow
<1>13. AbstractCache.value[k] # NULL
  <2>1. item[i].value \in Value
    BY <1>1, <1>2, Found
  <2>. QED BY <1>4, <1>12, <2>1, TableAssumption
<1>14. Abstract!SetOp(AbstractCache, k, v) =
             [order |-> Append(Cut(AbstractCache.order, p), k),
              value |-> [AbstractCache.value EXCEPT ![k] = v]]
  BY <1>1, <1>2, <1>4, <1>7, <1>12, <1>13, HeldOps
<1>15. AbstractCache' = Abstract!SetOp(AbstractCache, k, v)
  BY <1>4, <1>9, <1>12, <1>14
<1>. QED BY <1>2, <1>11, <1>12, <1>15 DEF AInv, Abstract!Set

\* lruc_set on a new key is the abstract Set, which drops the oldest key when it is full.
LEMMA InsertStep ==
  ASSUME UsedByAgent, AInv, NEW k \in Key, NEW v \in Value, NEW len \in Lengths,
         Set(k, v, len), Insert(k, v, len)
  PROVE AInv' /\ Abstract!Set(k, v)
<1>1. PICK q : Ages(q)
  BY DEF AInv
<1>2. IInv /\ IInv'
  BY InsertInv DEF AInv
<1>3. PICK i \in Item :
          /\ i \notin Live /\ Live' = Live \cup {i}
          /\ item'[i].key = k /\ item'[i].value = v /\ item'[i].access_count = access_count + 1
          /\ \A j \in Item \ {i} : Same(j)
  BY <1>2, Inserted
<1>4. access_count' = access_count + 1 /\ out' = out /\ required = 0 /\ Matches(k) = {}
  BY <1>2 DEF Set, Insert, IInv, Balance
<1>5. \A n \in 1 .. Len(q) : item[q[n]].key # k
  BY <1>1, <1>2, <1>4, Found
<1>. DEFINE A == AbstractCache
<1>6. /\ \E r : Ages(r)'
      /\ A.value[k] = NULL
      /\ \A n \in 1 .. Len(A.order) : A.order[n] # k
      /\ A' = IF Len(A.order) = Entries
                THEN [order |-> Append(Tail(A.order), k),
                      value |-> [j \in Key |-> IF j = k THEN v
                                               ELSE IF j = Head(A.order) THEN NULL
                                               ELSE A.value[j]]]
                ELSE [order |-> Append(A.order, k),
                      value |-> [j \in Key |-> IF j = k THEN v ELSE A.value[j]]]
  BY <1>1, <1>2, <1>3, <1>4, <1>5, InsertedNow
<1>7. A.order \in Seq(Key)
  <2>1. Late(q) = 0
    BY <1>1, <1>2, <1>4, InMemory
  <2>. QED BY <1>1, <1>2, <2>1, ReadsNow
<1>. HIDE DEF A
<1>8. A' = Abstract!SetOp(A, k, v)
  <2>1. CASE Len(A.order) = Entries
    <3>1. Abstract!Victim(A, k) = {Head(A.order)}
      BY <1>6, <2>1 DEF Abstract!Victim, Abstract!Cached
    <3>2. Abstract!SetOp(A, k, v) =
            [order |-> Append(Tail(A.order), k),
             value |-> [j \in Key |-> IF j = k THEN v
                                      ELSE IF j \in {Head(A.order)} THEN NULL
                                      ELSE A.value[j]]]
      BY <3>1 DEF Abstract!SetOp
    <3>. QED BY <1>6, <2>1, <3>2
  <2>2. CASE Len(A.order) # Entries
    <3>1. Abstract!Victim(A, k) = {}
      BY <2>2 DEF Abstract!Victim
    <3>2. Abstract!Without(A.order, k) = A.order
      BY <1>6, <1>7 DEF Abstract!Without, Abstract!Contains
    <3>3. Abstract!SetOp(A, k, v) =
            [order |-> Append(A.order, k),
             value |-> [j \in Key |-> IF j = k THEN v ELSE A.value[j]]]
      BY <3>1, <3>2 DEF Abstract!SetOp
    <3>. QED BY <1>6, <2>2, <3>3
  <2>. QED BY <2>1, <2>2
<1>. QED BY <1>2, <1>4, <1>6, <1>8 DEF AInv, A, Abstract!Set

\* lruc_delete is the abstract Delete.
LEMMA DeleteStep ==
  ASSUME UsedByAgent, AInv, NEW k \in Key, Delete(k)
  PROVE AInv' /\ Abstract!Delete(k)
<1>1. PICK q : Ages(q)
  BY DEF AInv
<1>2. IInv /\ IInv' /\ \E i \in Matches(k) : Live' = Live \ {i} /\ \A j \in Item \ {i} : Same(j)
  BY DeleteInv DEF AInv
<1>3. PICK i \in Matches(k) : Live' = Live \ {i} /\ \A j \in Item \ {i} : Same(j)
  BY <1>2
<1>4. item[i].key = k /\ item[i].value \in Value
  BY <1>1, <1>2, Found
<1>5. PICK p \in 1 .. Len(q) : q[p] = i
  BY <1>1, <1>2, Found
<1>6. access_count' = access_count /\ out' = out /\ required = 0 /\ required' = 0
  BY <1>2 DEF Delete, IInv, Balance
<1>7. Late(q) = 0
  BY <1>1, <1>2, <1>6, InMemory
<1>8. /\ \E r : Ages(r)'
      /\ AbstractCache' = [order |-> Cut(AbstractCache.order, p),
                           value |-> [AbstractCache.value EXCEPT ![item[i].key] = NULL]]
      /\ p \in 1 .. Len(AbstractCache.order) /\ AbstractCache.order[p] = item[i].key
  BY <1>1, <1>2, <1>3, <1>5, <1>6, DeletedNow
<1>9. AbstractCache.value[k] # NULL
  <2>1. AbstractCache.value[item[q[p]].key] = item[q[p]].value
    BY <1>1, <1>2, <1>7, ReadsNow
  <2>. QED BY <1>4, <1>5, <2>1, TableAssumption
<1>10. Abstract!DeleteOp(AbstractCache, k) =
             [order |-> Cut(AbstractCache.order, p), value |-> [AbstractCache.value EXCEPT ![k] = NULL]]
  BY <1>1, <1>2, <1>4, <1>7, <1>8, <1>9, HeldOps
<1>11. AbstractCache' = Abstract!DeleteOp(AbstractCache, k)
  BY <1>4, <1>8, <1>10
<1>. QED BY <1>2, <1>6, <1>8, <1>11 DEF AInv, Abstract!Delete

\* The rounds of the eviction loop and the end of lruc_set do not show.
LEMMA EvictStep ==
  ASSUME UsedByAgent, AInv, Evict
  PROVE AInv' /\ UNCHANGED Abstract!vars
<1>1. PICK q : Ages(q)
  BY DEF AInv
<1>2. IInv /\ IInv' /\ \E i \in Oldest : Live' = Live \ {i} /\ \A j \in Item \ {i} : Same(j)
  BY EvictInv DEF AInv
<1>3. PICK i \in Oldest : Live' = Live \ {i} /\ \A j \in Item \ {i} : Same(j)
  BY <1>2
<1>4. free_memory < required /\ access_count' = access_count /\ out' = out
  BY DEF Evict
<1>5. (\E r : Ages(r)') /\ AbstractCache' = AbstractCache
  BY <1>1, <1>2, <1>3, <1>4, EvictedNow
<1>. QED BY <1>2, <1>4, <1>5 DEF AInv, Abstract!vars

\* The end of lruc_set changes nothing of the abstract cache.
LEMMA FinishSetStep ==
  ASSUME UsedByAgent, AInv, FinishSet \/ UNCHANGED vars
  PROVE AInv' /\ UNCHANGED Abstract!vars
<1>1. PICK q : Ages(q)
  BY DEF AInv
<1>2. IInv' /\ Live' = Live
  BY FinishSetInv, StutterInv DEF AInv
<1>3. item' = item /\ access_count' = access_count /\ out' = out
  BY DEF FinishSet, vars
<1>4. AbstractCache' = AbstractCache
  BY <1>2, <1>3 DEF AbstractCache, Entries
<1>5. Ages(q)'
  BY <1>1, <1>2, <1>3 DEF Ages, Members
<1>. QED BY <1>2, <1>3, <1>4, <1>5 DEF AInv, Abstract!vars

\* An empty table is an empty cache.
LEMMA InitStep ==
  ASSUME UsedByAgent, Init
  PROVE AInv /\ Abstract!Init
<1>1. IInv
  BY InitInv
<1>2. Live = {}
  <2>1. PICK c : Shape(c)
    BY <1>1 DEF IInv
  <2>2. \A i \in Live : i \in allocated
    <3>1. Live = {i \in Item : \E b \in Bucket : i \in Members(c[b])}
      BY <2>1, Sets DEF Walked
    <3>2. \A b \in Bucket : \A n \in 1 .. Len(c[b]) : c[b][n] \in allocated
      BY <2>1 DEF Shape, Held
    <3>. QED BY <3>1, <3>2 DEF Members
  <2>. QED BY <2>2 DEF Init
<1>3. Ages(<<>>)
  BY <1>2 DEF Ages, Members
<1>4. Late(<<>>) = 0
  BY Used DEF Late
<1>5. AbstractCache = Abstract!EmptyCache
  <2>. DEFINE A == AbstractCache
  <2>1. PICK q : q = <<>> /\ Ages(q) /\ Late(q) = 0 /\ Len(q) = 0
    BY <1>3, <1>4
  <2>2. /\ A = [order |-> A.order, value |-> A.value]
        /\ A.order \in Seq(Key) /\ Len(A.order) = Len(q)
        /\ A.value = [j \in Key |-> A.value[j]]
        /\ \A j \in Key : (\A n \in 1 .. Len(q) : item[q[n]].key # j) => A.value[j] = NULL
    BY <1>1, <2>1, ReadsNow
  <2>. HIDE DEF A
  <2>3. \A j \in Key : A.value[j] = NULL
    BY <2>1, <2>2
  <2>4. A.order = <<>>
    BY <2>1, <2>2, EmptySeq
  <2>5. A = Abstract!EmptyCache
    BY <2>2, <2>3, <2>4 DEF Abstract!EmptyCache
  <2>. QED BY <2>5 DEF A
<1>. QED BY <1>1, <1>3, <1>5 DEF AInv, Abstract!Init, Init

\* Every step is one of the abstract cache, or does not show.
LEMMA ListsStep ==
  ASSUME UsedByAgent, AInv, [Next]_vars
  PROVE AInv' /\ [Abstract!Next]_Abstract!vars
<1>1. ASSUME NEW k \in Key, Get(k) PROVE AInv' /\ Abstract!Next
  BY <1>1, GetStep DEF Abstract!Next
<1>2. ASSUME NEW k \in Key, NEW v \in Value, NEW len \in Lengths, Set(k, v, len)
      PROVE AInv' /\ Abstract!Next
  <2>1. AInv' /\ Abstract!Set(k, v)
    BY <1>2, UpdateStep, InsertStep DEF Set
  <2>. QED BY <2>1 DEF Abstract!Next
<1>3. ASSUME NEW k \in Key, Delete(k) PROVE AInv' /\ Abstract!Next
  BY <1>3, DeleteStep DEF Abstract!Next
<1>4. CASE Evict
  BY <1>4, EvictStep
<1>5. CASE FinishSet \/ UNCHANGED vars
  BY <1>5, FinishSetStep
<1>. QED BY <1>1, <1>2, <1>3, <1>4, <1>5 DEF Next

(***************************************************************************)
(* The calls of lru.c do what those of Lru do: lruc_get returns what a     *)
(* list ordered by last use holds, lruc_set takes effect when it stores,   *)
(* and its eviction loop only removes what that list has given up already. *)
(***************************************************************************)
THEOREM ListsImplementLru == UsedByAgent => (Spec => ImplementsLru)
<1>. SUFFICES ASSUME UsedByAgent PROVE Spec => ImplementsLru
  OBVIOUS
<1>1. Init => AInv /\ Abstract!Init
  BY InitStep
<1>2. AInv /\ [Next]_vars => AInv' /\ [Abstract!Next]_Abstract!vars
  BY ListsStep
<1>. QED BY <1>1, <1>2, PTL DEF Spec, ImplementsLru, Abstract!Spec

-----------------------------------------------------------------------------
(* What the table gives up. *)

\* The order by last use, and where a key is in it.
LEMMA HeldIs ==
  ASSUME UsedByAgent, AInv
  PROVE /\ Entries \in Nat \ {0} /\ AbstractCache.order \in Seq(Key)
        /\ AbstractCache.value = [k \in Key |-> AbstractCache.value[k]]
        /\ \A m, n \in 1 .. Len(AbstractCache.order) :
             AbstractCache.order[m] = AbstractCache.order[n] => m = n
        /\ \A k \in Key : AbstractCache.value[k] # NULL =>
             \E p \in 1 .. Len(AbstractCache.order) : AbstractCache.order[p] = k
<1>1. PICK q : Ages(q)
  BY DEF AInv
<1>2. PICK o : o = Late(q)
  OBVIOUS
<1>3. /\ AbstractCache.order \in Seq(Key) /\ Len(AbstractCache.order) = Len(q) - o
      /\ \A n \in 1 .. (Len(q) - o) : AbstractCache.order[n] = item[q[n + o]].key
      /\ \A m, n \in 1 .. (Len(q) - o) : AbstractCache.order[m] = AbstractCache.order[n] => m = n
  BY <1>1, <1>2, OrderIs DEF AInv
<1>4. Entries \in Nat \ {0} /\ Len(q) \in Nat /\ o \in Nat
  BY <1>1, <1>2, InMemory, AgesIs DEF AInv
<1>5. Reads(q)
  BY <1>1, AgesRead DEF AInv, Abstraction
<1>6. ASSUME NEW k \in Key, AbstractCache.value[k] # NULL
      PROVE \E p \in 1 .. Len(AbstractCache.order) : AbstractCache.order[p] = k
  <2>1. PICK n \in (o + 1) .. Len(q) : item[q[n]].key = k
    BY <1>2, <1>5, <1>6 DEF Reads
  <2>2. n - o \in 1 .. (Len(q) - o) /\ (n - o) + o = n
    BY <1>4
  <2>. QED BY <1>3, <2>1, <2>2
<1>7. AbstractCache.value = [k \in Key |-> AbstractCache.value[k]]
  BY <1>5 DEF Reads
<1>. QED BY <1>3, <1>4, <1>6, <1>7

\* Which keys lruc_set drops, and how many are held then.
LEMMA SetDrops ==
  ASSUME UsedByAgent, AInv, NEW k \in Key, NEW v \in Value, Abstract!Set(k, v), Abstract!Dropped # {}
  PROVE /\ Len(AbstractCache.order) = Entries /\ Len(AbstractCache'.order) = Entries
        /\ Abstract!Dropped = {AbstractCache.order[1]}
<1>. DEFINE A == AbstractCache
<1>1. Entries \in Nat \ {0} /\ A.order \in Seq(Key)
  BY HeldIs
<1>2. AbstractCache' = Abstract!SetOp(A, k, v)
  BY DEF Abstract!Set
<1>3. \A j \in Key : AbstractCache'.value[j] =
                       IF j = k THEN v ELSE IF j \in Abstract!Victim(A, k) THEN NULL ELSE A.value[j]
  BY <1>2 DEF Abstract!SetOp
<1>4. v # NULL
  BY TableAssumption
<1>5. Abstract!Dropped \subseteq Abstract!Victim(A, k)
  BY <1>3, <1>4 DEF Abstract!Dropped, Abstract!Cached
<1>. HIDE DEF A
<1>6. /\ Len(A.order) = Entries /\ Abstract!Victim(A, k) = {Head(A.order)}
      /\ Abstract!Dropped = {Head(A.order)}
  BY <1>5 DEF Abstract!Victim, A
<1>7. AbstractCache'.order = Append(Tail(A.order), k)
  BY <1>2, <1>6 DEF Abstract!SetOp, A
<1>8. A.order # <<>> /\ Head(A.order) = A.order[1]
  BY <1>1, <1>6
<1>9. Tail(A.order) \in Seq(Key) /\ Len(Tail(A.order)) = Entries - 1
  BY <1>1, <1>6, <1>8
<1>10. Len(AbstractCache'.order) = Entries
  BY <1>1, <1>7, <1>9, AppendProperties
<1>. QED BY <1>6, <1>8, <1>10 DEF A

\* lruc_delete drops a key only by making the table smaller.
LEMMA DeleteShrinks ==
  ASSUME UsedByAgent, AInv, NEW k \in Key, Abstract!Delete(k), Abstract!Dropped # {}
  PROVE ~(Len(AbstractCache'.order) >= Len(AbstractCache.order))
<1>. DEFINE A == AbstractCache
<1>1. /\ A.order \in Seq(Key) /\ A.value = [j \in Key |-> A.value[j]]
      /\ \A m, n \in 1 .. Len(A.order) : A.order[m] = A.order[n] => m = n
      /\ \A j \in Key : A.value[j] # NULL => \E p \in 1 .. Len(A.order) : A.order[p] = j
  BY HeldIs
<1>2. /\ AbstractCache'.order = Abstract!Without(A.order, k)
      /\ AbstractCache'.value = [A.value EXCEPT ![k] = NULL]
  BY DEF Abstract!Delete, Abstract!DeleteOp
<1>. HIDE DEF A
<1>3. A.value[k] # NULL
  BY <1>1, <1>2 DEF Abstract!Dropped, Abstract!Cached, A
<1>4. PICK p \in 1 .. Len(A.order) : A.order[p] = k
  BY <1>1, <1>3
<1>5. Abstract!Without(A.order, k) = Cut(A.order, p)
  BY <1>1, <1>4, WithoutIs
<1>6. Len(Cut(A.order, p)) = Len(A.order) - 1 /\ Len(A.order) \in Nat
  BY <1>1, CutIs
<1>. QED BY <1>2, <1>5, <1>6 DEF A

(***************************************************************************)
(* lruc_set gives up a key only when the memory is full, and then the one  *)
(* used least recently; read off the linked lists of lru.c.                *)
(***************************************************************************)
THEOREM ListsEvictOldest == UsedByAgent => (Spec => Abstract!EvictsOldestWhenFull)
<1>. SUFFICES ASSUME UsedByAgent PROVE Spec => Abstract!EvictsOldestWhenFull
  OBVIOUS
<1>. DEFINE Right == Len(AbstractCache'.order) >= Len(AbstractCache.order) /\ Abstract!Dropped # {}
                       => /\ Len(AbstractCache.order) = Entries
                          /\ Len(AbstractCache'.order) = Entries
                          /\ Abstract!Dropped = {AbstractCache.order[1]}
<1>1. Init => AInv
  BY InitStep
<1>2. AInv /\ [Next]_vars => AInv'
  BY ListsStep
<1>3. AInv /\ [Next]_vars => [Right]_Abstract!vars
  <2>. SUFFICES ASSUME AInv, Abstract!Next PROVE Right
    BY ListsStep
  <2>1. ASSUME NEW k \in Key, Abstract!Get(k) PROVE Abstract!Dropped = {}
    BY <2>1 DEF Abstract!Get, Abstract!GetOp, Abstract!Dropped, Abstract!Cached
  <2>2. ASSUME NEW k \in Key, NEW v \in Value, Abstract!Set(k, v) PROVE Right
    BY <2>2, SetDrops
  <2>3. ASSUME NEW k \in Key, Abstract!Delete(k) PROVE Right
    BY <2>3, DeleteShrinks
  <2>. QED BY <2>1, <2>2, <2>3 DEF Abstract!Next
<1>. QED BY <1>1, <1>2, <1>3, PTL DEF Spec, Abstract!EvictsOldestWhenFull
=============================================================================
