---------------------------- MODULE AgentProofs -----------------------------
(***************************************************************************)
(* The safety of the agent for any number of threads, any paths, requests  *)
(* and rules, and any capacity of the cache.  The invariants checked by    *)
(* TLC are inductive once two facts are added: SetUpOrder, what is         *)
(* assigned at each point of init_preload, and Locals, what the local      *)
(* variables of a thread hold at each point of a call.                     *)
(*                                                                         *)
(* First the operators of LruOps, which keep a cache well formed, and what *)
(* follows of the abstract cache Lru.                                      *)
(***************************************************************************)
EXTENDS Agent, SequenceTheorems, TLAPS

-----------------------------------------------------------------------------
(* The operators of LruOps. *)

\* What removing the element at a position does to a sequence.
LEMMA RemoveAtProperties ==
  ASSUME NEW S, NEW s \in Seq(S), NEW i \in DOMAIN s
  PROVE  /\ RemoveAt(s, i) \in Seq(S)
         /\ Len(RemoveAt(s, i)) = Len(s) - 1
         /\ \A j \in 1 .. (Len(s) - 1) :
              RemoveAt(s, i)[j] = IF j < i THEN s[j] ELSE s[j + 1]
<1>. DEFINE front == SubSeq(s, 1, i - 1)
            back == SubSeq(s, i + 1, Len(s))
<1>1. i \in 1 .. Len(s) /\ Len(s) \in Nat
  BY LenProperties
<1>2. /\ front \in Seq(S) /\ Len(front) = i - 1
      /\ \A j \in 1 .. (i - 1) : front[j] = s[j]
  <2>1. CASE i = 1
    BY <1>1, <2>1
  <2>2. CASE i # 1
    BY <1>1, <2>2
  <2>3. QED BY <2>1, <2>2
<1>3. /\ back \in Seq(S) /\ Len(back) = Len(s) - i
      /\ \A j \in 1 .. (Len(s) - i) : back[j] = s[i + j]
  BY <1>1
<1>4. /\ front \o back \in Seq(S)
      /\ Len(front \o back) = Len(s) - 1
      /\ \A j \in 1 .. (Len(s) - 1) :
           (front \o back)[j] = IF j <= i - 1 THEN front[j] ELSE back[j - (i - 1)]
  <2>1. \A f, b \in Seq(S) :
           /\ f \o b \in Seq(S)
           /\ Len(f \o b) = Len(f) + Len(b)
           /\ \A j \in 1 .. (Len(f) + Len(b)) :
                (f \o b)[j] = IF j <= Len(f) THEN f[j] ELSE b[j - Len(f)]
    BY ConcatProperties
  <2>2. front \in Seq(S) /\ back \in Seq(S)
    BY <1>2, <1>3
  <2>. HIDE DEF front, back
  <2>3. Len(front) = i - 1 /\ Len(front) + Len(back) = Len(s) - 1
    BY <1>1, <1>2, <1>3
  <2>4. QED BY <2>1, <2>2, <2>3, SMTT(30)
<1>5. RemoveAt(s, i) = front \o back
  BY DEF RemoveAt
<1>. HIDE DEF front, back
<1>6. \A j \in 1 .. (Len(s) - 1) :
        (front \o back)[j] = IF j < i THEN s[j] ELSE s[j + 1]
  <2>. SUFFICES ASSUME NEW j \in 1 .. (Len(s) - 1)
                PROVE  (front \o back)[j] = IF j < i THEN s[j] ELSE s[j + 1]
    OBVIOUS
  <2>1. CASE j < i
    BY <1>1, <1>2, <1>4, <2>1
  <2>2. CASE ~(j < i)
    <3>1. (front \o back)[j] = back[j - (i - 1)]
      BY <1>1, <1>4, <2>2
    <3>2. j - (i - 1) \in 1 .. (Len(s) - i)
      BY <1>1, <2>2
    <3>3. back[j - (i - 1)] = s[i + (j - (i - 1))]
      BY <1>3, <3>2
    <3>4. i + (j - (i - 1)) = j + 1
      BY <1>1
    <3>5. QED BY <2>2, <3>1, <3>3, <3>4
  <2>3. QED BY <2>1, <2>2
<1>7. QED BY <1>4, <1>5, <1>6

\* Removing a key from a sequence without repetitions removes it, and only it.
LEMMA WithoutProperties ==
  ASSUME NEW S, NEW s \in Seq(S), Distinct(s), NEW k
  PROVE  /\ Without(s, k) \in Seq(S)
         /\ Distinct(Without(s, k))
         /\ Len(Without(s, k)) <= Len(s)
         /\ Contains(s, k) => Len(Without(s, k)) = Len(s) - 1
         /\ \A x : Contains(Without(s, k), x) <=> x # k /\ Contains(s, x)
<1>. DEFINE w == Without(s, k)
<1>0. Len(s) \in Nat /\ DOMAIN s = 1 .. Len(s)
  BY LenProperties
<1>1. CASE ~Contains(s, k)
  <2>1. w = s
    BY <1>1 DEF Without
  <2>2. \A x : Contains(s, x) <=> x # k /\ Contains(s, x)
    BY <1>1
  <2>. HIDE DEF w
  <2>3. Len(w) <= Len(s) /\ w \in Seq(S) /\ Distinct(w)
    BY <1>0, <2>1
  <2>4. \A x : Contains(w, x) <=> x # k /\ Contains(s, x)
    BY <2>1, <2>2
  <2>5. QED BY <1>1, <2>3, <2>4 DEF w
<1>2. CASE Contains(s, k)
  <2>. DEFINE p == PositionOf(s, k)
  <2>1. p \in DOMAIN s /\ s[p] = k
    BY <1>0, <1>2 DEF PositionOf, Contains
  <2>2. w = RemoveAt(s, p)
    BY <1>2 DEF Without
  <2>. HIDE DEF p
  <2>3. /\ w \in Seq(S)
        /\ Len(w) = Len(s) - 1
        /\ \A j \in 1 .. (Len(s) - 1) : w[j] = IF j < p THEN s[j] ELSE s[j + 1]
    BY <2>1, <2>2, RemoveAtProperties
  <2>. HIDE DEF w
  <2>4. DOMAIN w = 1 .. (Len(s) - 1) /\ p \in 1 .. Len(s)
    BY <1>0, <2>1, <2>3, LenProperties
  <2>5. \A i, j \in DOMAIN s : s[i] = s[j] => i = j
    BY DEF Distinct
  <2>6. Distinct(w)
    <3>. SUFFICES ASSUME NEW i \in DOMAIN w, NEW j \in DOMAIN w, w[i] = w[j]
                  PROVE  i = j
      BY DEF Distinct
    <3>. DEFINE from(n) == IF n < p THEN n ELSE n + 1
    <3>1. \A n \in DOMAIN w : from(n) \in DOMAIN s /\ w[n] = s[from(n)]
      BY <1>0, <2>3, <2>4
    <3>2. from(i) = from(j)
      BY <2>5, <3>1
    <3>3. QED BY <1>0, <2>4, <3>2
  <2>7. ASSUME NEW x
        PROVE  Contains(w, x) <=> x # k /\ Contains(s, x)
    <3>1. ASSUME NEW i \in DOMAIN w
          PROVE  w[i] # k /\ \E j \in DOMAIN s : s[j] = w[i]
      <4>. DEFINE j == IF i < p THEN i ELSE i + 1
      <4>1. j \in DOMAIN s /\ j # p /\ w[i] = s[j]
        BY <1>0, <2>3, <2>4
      <4>. HIDE DEF j
      <4>2. QED BY <2>1, <2>5, <4>1
    <3>2. ASSUME NEW i \in DOMAIN s, s[i] # k
          PROVE  \E j \in DOMAIN w : w[j] = s[i]
      <4>1. i # p
        BY <2>1, <3>2
      <4>2. CASE i < p
        <5>1. i \in DOMAIN w /\ w[i] = s[i]
          BY <1>0, <2>3, <2>4, <4>2
        <5>2. QED BY <5>1
      <4>3. CASE ~(i < p)
        <5>1. i - 1 \in DOMAIN w /\ w[i - 1] = s[i - 1 + 1] /\ i - 1 + 1 = i
          BY <1>0, <2>3, <2>4, <4>1, <4>3
        <5>2. QED BY <5>1
      <4>4. QED BY <4>2, <4>3
    <3>3. (\E i \in DOMAIN w : w[i] = x) <=> x # k /\ \E i \in DOMAIN s : s[i] = x
      BY <3>1, <3>2
    <3>4. QED BY <1>0, <2>3, <2>4, <3>3 DEF Contains
  <2>8. QED BY <1>0, <2>3, <2>6, <2>7 DEF w
<1>3. QED BY <1>1, <1>2

\* Adding a key at the end of a sequence that does not have it.
LEMMA AppendDistinct ==
  ASSUME NEW S, NEW s \in Seq(S), NEW k \in S, Distinct(s),
         ~Contains(s, k)
  PROVE  /\ Append(s, k) \in Seq(S)
         /\ Distinct(Append(s, k))
         /\ Len(Append(s, k)) = Len(s) + 1
         /\ \A x : Contains(Append(s, k), x) <=> x = k \/ Contains(s, x)
<1>. DEFINE a == Append(s, k)
<1>1. Len(s) \in Nat /\ DOMAIN s = 1 .. Len(s)
  BY LenProperties
<1>2. /\ a \in Seq(S) /\ Len(a) = Len(s) + 1
      /\ \A i \in 1 .. Len(s) : a[i] = s[i]
      /\ a[Len(s) + 1] = k
  BY AppendProperties
<1>. HIDE DEF a
<1>3. DOMAIN a = 1 .. (Len(s) + 1)
  BY <1>2, LenProperties
<1>4. Distinct(a)
  BY <1>1, <1>2, <1>3 DEF Distinct, Contains
<1>5. ASSUME NEW x
      PROVE  Contains(a, x) <=> x = k \/ Contains(s, x)
  <2>1. ASSUME NEW i \in DOMAIN a
        PROVE  a[i] = k \/ \E j \in DOMAIN s : s[j] = a[i]
    <3>1. CASE i = Len(s) + 1
      BY <1>2, <3>1
    <3>2. CASE i \in DOMAIN s /\ a[i] = s[i]
      BY <3>2
    <3>3. QED BY <1>1, <1>2, <1>3, <3>1, <3>2
  <2>2. Len(s) + 1 \in DOMAIN a /\ \A i \in DOMAIN s : i \in DOMAIN a /\ a[i] = s[i]
    BY <1>1, <1>2, <1>3
  <2>3. (\E i \in DOMAIN a : a[i] = x) <=> x = k \/ \E i \in DOMAIN s : s[i] = x
    BY <1>2, <2>1, <2>2
  <2>4. QED BY <1>1, <1>2, <1>3, <2>3 DEF Contains
<1>6. QED BY <1>2, <1>4, <1>5 DEF a

\* Dropping the front of a sequence without repetitions drops that key only.
LEMMA TailDistinct ==
  ASSUME NEW S, NEW s \in Seq(S), s # <<>>, Distinct(s)
  PROVE  /\ Tail(s) \in Seq(S)
         /\ Distinct(Tail(s))
         /\ Len(Tail(s)) = Len(s) - 1
         /\ Head(s) = s[1] /\ 1 \in DOMAIN s
         /\ \A x : Contains(Tail(s), x) <=> x # Head(s) /\ Contains(s, x)
<1>. DEFINE t == Tail(s)
<1>1. Len(s) \in Nat \ {0} /\ DOMAIN s = 1 .. Len(s)
  BY LenProperties, EmptySeq
<1>2. /\ t \in Seq(S) /\ Len(t) = Len(s) - 1
      /\ \A i \in 1 .. (Len(s) - 1) : t[i] = s[i + 1]
      /\ Head(s) = s[1]
  BY <1>1, HeadTailProperties
<1>. HIDE DEF t
<1>3. DOMAIN t = 1 .. (Len(s) - 1)
  BY <1>2, LenProperties
<1>4. \A i, j \in DOMAIN s : s[i] = s[j] => i = j
  BY DEF Distinct
<1>5. Distinct(t)
  <2>. SUFFICES ASSUME NEW i \in DOMAIN t, NEW j \in DOMAIN t, t[i] = t[j]
                PROVE  i = j
    BY DEF Distinct
  <2>1. i + 1 \in DOMAIN s /\ j + 1 \in DOMAIN s /\ s[i + 1] = s[j + 1]
    BY <1>1, <1>2, <1>3
  <2>2. i + 1 = j + 1
    BY <1>4, <2>1
  <2>3. QED BY <1>1, <1>3, <2>2
<1>6. ASSUME NEW x
      PROVE  Contains(t, x) <=> x # Head(s) /\ Contains(s, x)
  <2>1. ASSUME NEW i \in DOMAIN t
        PROVE  t[i] # Head(s) /\ \E j \in DOMAIN s : s[j] = t[i]
    <3>1. i + 1 \in DOMAIN s /\ i + 1 # 1 /\ t[i] = s[i + 1] /\ 1 \in DOMAIN s
      BY <1>1, <1>2, <1>3
    <3>2. QED BY <1>2, <1>4, <3>1
  <2>2. ASSUME NEW i \in DOMAIN s, s[i] # Head(s)
        PROVE  \E j \in DOMAIN t : t[j] = s[i]
    <3>1. i # 1
      BY <1>2, <2>2
    <3>2. i - 1 \in DOMAIN t /\ t[i - 1] = s[i - 1 + 1] /\ i - 1 + 1 = i
      BY <1>1, <1>2, <1>3, <3>1
    <3>3. QED BY <3>2
  <2>3. (\E i \in DOMAIN t : t[i] = x) <=> x # Head(s) /\ \E i \in DOMAIN s : s[i] = x
    BY <2>1, <2>2
  <2>4. QED BY <1>1, <1>2, <1>3, <2>3 DEF Contains
<1>7. 1 \in DOMAIN s
  BY <1>1
<1>8. QED BY <1>2, <1>5, <1>6, <1>7 DEF t

-----------------------------------------------------------------------------
\* lruc_new gives a well-formed cache that holds nothing.
LEMMA EmptyCacheWellFormed ==
  WellFormed(EmptyCache) /\ \A k \in Key : ~Cached(EmptyCache, k)
<1>1. <<>> \in Seq(Key) /\ Len(<<>>) = 0 /\ DOMAIN <<>> = {}
  BY EmptySeq, LenProperties
<1>2. QED
  BY <1>1, CapacityAssumption
  DEF EmptyCache, WellFormed, Caches, Distinct, Cached, Contains

\* lruc_get keeps the cache well formed and binds what it bound.
LEMMA GetOpWellFormed ==
  ASSUME NEW c, WellFormed(c), NEW k \in Key
  PROVE  WellFormed(GetOp(c, k)) /\ GetOp(c, k).value = c.value
<1>1. /\ c.order \in Seq(Key) /\ c.value \in [Key -> Value \cup {NULL}]
      /\ c = [order |-> c.order, value |-> c.value]
      /\ Distinct(c.order) /\ Len(c.order) <= Capacity
      /\ \A j \in Key : Cached(c, j) <=> Contains(c.order, j)
  BY DEF WellFormed, Caches
<1>2. CASE ~Cached(c, k)
  BY <1>2 DEF GetOp
<1>3. CASE Cached(c, k)
  <2>. DEFINE w == Without(c.order, k)
              a == Append(w, k)
  <2>1. /\ w \in Seq(Key) /\ Distinct(w)
        /\ Len(w) = Len(c.order) - 1
        /\ \A x : Contains(w, x) <=> x # k /\ Contains(c.order, x)
    BY <1>1, <1>3, WithoutProperties
  <2>. HIDE DEF w
  <2>2. /\ a \in Seq(Key) /\ Distinct(a) /\ Len(a) = Len(w) + 1
        /\ \A x : Contains(a, x) <=> x = k \/ Contains(w, x)
    BY <2>1, AppendDistinct
  <2>3. GetOp(c, k) = [order |-> a, value |-> c.value]
    BY <1>1, <1>3 DEF GetOp, w
  <2>. HIDE DEF a
  <2>4. Len(a) <= Capacity
    BY <1>1, <2>1, <2>2, LenProperties
  <2>5. \A j \in Key : c.value[j] # NULL <=> Contains(a, j)
    BY <1>1, <1>3, <2>1, <2>2 DEF Cached
  <2>6. QED BY <1>1, <2>2, <2>3, <2>4, <2>5 DEF WellFormed, Caches, Cached
<1>4. QED BY <1>2, <1>3

\* What lruc_set gives up is the front of the order of a full cache, if anything.
LEMMA VictimProperties ==
  ASSUME NEW c, WellFormed(c), NEW k \in Key
  PROVE  /\ Victim(c, k) \subseteq Key \ {k}
         /\ Victim(c, k) # {} => /\ ~Cached(c, k)
                                 /\ c.order # <<>>
                                 /\ Len(c.order) = Capacity
                                 /\ Victim(c, k) = {c.order[1]}
                                 /\ Head(c.order) = c.order[1]
                                 /\ Cached(c, c.order[1])
         /\ Victim(c, k) = {} => Cached(c, k) \/ Len(c.order) < Capacity
<1>1. /\ c.order \in Seq(Key) /\ Len(c.order) <= Capacity
      /\ \A j \in Key : Cached(c, j) <=> Contains(c.order, j)
  BY DEF WellFormed, Caches
<1>2. Len(c.order) \in Nat /\ DOMAIN c.order = 1 .. Len(c.order)
  BY <1>1, LenProperties
<1>3. CASE ~Cached(c, k) /\ Len(c.order) = Capacity
  <2>1. c.order # <<>> /\ 1 \in 1 .. Len(c.order)
    BY <1>1, <1>2, <1>3, CapacityAssumption, EmptySeq
  <2>2. Head(c.order) = c.order[1] /\ c.order[1] \in Key
    BY <1>1, <1>2, <2>1, HeadTailProperties
  <2>3. Contains(c.order, c.order[1])
    BY <2>1 DEF Contains
  <2>4. Cached(c, c.order[1]) /\ c.order[1] # k
    BY <1>1, <1>3, <2>2, <2>3
  <2>5. QED BY <1>3, <2>1, <2>2, <2>4 DEF Victim
<1>4. CASE ~(~Cached(c, k) /\ Len(c.order) = Capacity)
  <2>1. Victim(c, k) = {}
    BY <1>4 DEF Victim
  <2>2. QED BY <1>1, <1>2, <1>4, <2>1, CapacityAssumption
<1>5. QED BY <1>3, <1>4

\* The values after lruc_set.
LEMMA SetOpValue ==
  ASSUME NEW c, NEW k \in Key, NEW v
  PROVE  /\ SetOp(c, k, v).value = [j \in Key |-> IF j = k THEN v
                                                  ELSE IF j \in Victim(c, k) THEN NULL
                                                  ELSE c.value[j]]
         /\ SetOp(c, k, v).order = Append(IF Victim(c, k) = {} THEN Without(c.order, k)
                                          ELSE Tail(c.order), k)
BY DEF SetOp

\* lruc_set keeps the cache well formed.
LEMMA SetOpWellFormed ==
  ASSUME NEW c, WellFormed(c), NEW k \in Key, NEW v \in Value
  PROVE  WellFormed(SetOp(c, k, v))
<1>. DEFINE V == Victim(c, k)
            kept == IF V = {} THEN Without(c.order, k) ELSE Tail(c.order)
            order == Append(kept, k)
            value == [j \in Key |-> IF j = k THEN v ELSE IF j \in V THEN NULL ELSE c.value[j]]
<1>1. /\ c.order \in Seq(Key) /\ c.value \in [Key -> Value \cup {NULL}]
      /\ Distinct(c.order) /\ Len(c.order) <= Capacity
      /\ \A j \in Key : Cached(c, j) <=> Contains(c.order, j)
  BY DEF WellFormed, Caches
<1>2. Len(c.order) \in Nat
  BY <1>1, LenProperties
<1>3. /\ kept \in Seq(Key) /\ Distinct(kept) /\ Len(kept) < Capacity
      /\ \A j : Contains(kept, j) <=> j # k /\ j \notin V /\ Contains(c.order, j)
  <2>1. CASE V = {}
    <3>1. /\ kept \in Seq(Key) /\ Distinct(kept) /\ Len(kept) <= Len(c.order)
          /\ Contains(c.order, k) => Len(kept) = Len(c.order) - 1
          /\ \A j : Contains(kept, j) <=> j # k /\ Contains(c.order, j)
      BY <1>1, <2>1, WithoutProperties
    <3>2. Cached(c, k) \/ Len(c.order) < Capacity
      BY <2>1, VictimProperties
    <3>. HIDE DEF kept
    <3>3. Len(kept) < Capacity
      BY <1>1, <1>2, <3>1, <3>2, CapacityAssumption, LenProperties
    <3>4. QED BY <2>1, <3>1, <3>3
  <2>2. CASE V # {}
    <3>1. /\ ~Cached(c, k) /\ c.order # <<>> /\ Len(c.order) = Capacity
          /\ V = {Head(c.order)}
      BY <2>2, VictimProperties
    <3>2. /\ kept \in Seq(Key) /\ Distinct(kept) /\ Len(kept) = Len(c.order) - 1
          /\ \A j : Contains(kept, j) <=> j # Head(c.order) /\ Contains(c.order, j)
      BY <1>1, <2>2, <3>1, TailDistinct
    <3>. HIDE DEF kept, V
    <3>3. ~Contains(c.order, k)
      BY <1>1, <3>1
    <3>4. QED BY <1>2, <3>1, <3>2, <3>3, CapacityAssumption
  <2>3. QED BY <2>1, <2>2
<1>. HIDE DEF kept
<1>4. /\ order \in Seq(Key) /\ Distinct(order) /\ Len(order) = Len(kept) + 1
      /\ \A j : Contains(order, j) <=> j = k \/ Contains(kept, j)
  BY <1>3, AppendDistinct
<1>. HIDE DEF order
<1>5. Len(order) <= Capacity
  BY <1>3, <1>4, CapacityAssumption, LenProperties
<1>6. value \in [Key -> Value \cup {NULL}]
  BY <1>1
<1>7. \A j \in Key : value[j] # NULL <=> Contains(order, j)
  BY <1>1, <1>3, <1>4, NullAssumption, VictimProperties DEF Cached
<1>8. SetOp(c, k, v) = [order |-> order, value |-> value]
  BY DEF SetOp, order, kept
<1>. HIDE DEF value
<1>9. QED BY <1>4, <1>5, <1>6, <1>7, <1>8 DEF WellFormed, Caches, Cached

\* lruc_delete keeps the cache well formed.
LEMMA DeleteOpWellFormed ==
  ASSUME NEW c, WellFormed(c), NEW k \in Key
  PROVE  WellFormed(DeleteOp(c, k))
<1>. DEFINE w == Without(c.order, k)
            value == [c.value EXCEPT ![k] = NULL]
<1>1. /\ c.order \in Seq(Key) /\ c.value \in [Key -> Value \cup {NULL}]
      /\ Distinct(c.order) /\ Len(c.order) <= Capacity
      /\ \A j \in Key : Cached(c, j) <=> Contains(c.order, j)
  BY DEF WellFormed, Caches
<1>2. /\ w \in Seq(Key) /\ Distinct(w) /\ Len(w) <= Len(c.order)
      /\ \A j : Contains(w, j) <=> j # k /\ Contains(c.order, j)
  BY <1>1, WithoutProperties
<1>3. DeleteOp(c, k) = [order |-> w, value |-> value]
  BY DEF DeleteOp
<1>4. /\ value \in [Key -> Value \cup {NULL}]
      /\ \A j \in Key : value[j] # NULL <=> j # k /\ Cached(c, j)
  BY <1>1 DEF Cached
<1>. HIDE DEF w, value
<1>5. Len(w) <= Capacity
  BY <1>1, <1>2, CapacityAssumption, LenProperties
<1>6. QED BY <1>1, <1>2, <1>3, <1>4, <1>5 DEF WellFormed, Caches, Cached

-----------------------------------------------------------------------------
(* The cache that only the calls of lru.c change: table, and out, what the *)
(* last lruc_get has stored.                                               *)

VARIABLES table, out
Of == INSTANCE Lru WITH cache <- table

\* Its operators are the agent's.
LEMMA SameOperators ==
  /\ Of!EmptyCache = EmptyCache
  /\ \A c : Of!WellFormed(c) <=> WellFormed(c)
  /\ \A c, k : /\ Of!GetOp(c, k) = GetOp(c, k) /\ Of!DeleteOp(c, k) = DeleteOp(c, k)
                /\ \A v : Of!SetOp(c, k, v) = SetOp(c, k, v)
  /\ Of!Dropped = {k \in Key : Cached(table, k) /\ ~Cached(table', k)}
<1>1. \A s, k : Of!Without(s, k) = Without(s, k)
  BY DEF Without, PositionOf, Contains, RemoveAt, Of!Without, Of!PositionOf, Of!Contains, Of!RemoveAt
<1>2. \A c, k : Of!Cached(c, k) <=> Cached(c, k)
  BY DEF Cached, Of!Cached
<1>3. Of!EmptyCache = EmptyCache
  BY DEF EmptyCache, Of!EmptyCache
<1>4. \A c : Of!WellFormed(c) <=> WellFormed(c)
  BY <1>2 DEF WellFormed, Caches, Distinct, Contains, Of!WellFormed, Of!Caches, Of!Distinct, Of!Contains
<1>5. \A c, k : Of!GetOp(c, k) = GetOp(c, k) /\ Of!DeleteOp(c, k) = DeleteOp(c, k)
  BY <1>1, <1>2 DEF GetOp, DeleteOp, Of!GetOp, Of!DeleteOp
<1>6. \A c, k, v : Of!SetOp(c, k, v) = SetOp(c, k, v)
  <2>1. \A c, k : Of!Victim(c, k) = Victim(c, k)
    BY <1>2 DEF Victim, Of!Victim
  <2>. QED BY <1>1, <2>1 DEF SetOp, Of!SetOp
<1>7. Of!Dropped = {k \in Key : Cached(table, k) /\ ~Cached(table', k)}
  BY <1>2 DEF Of!Dropped
<1>. QED BY <1>3, <1>4, <1>5, <1>6, <1>7

(***************************************************************************)
(* The cache of lru.c never holds a key twice, never more keys than it has *)
(* memory for, and orders exactly the keys that are bound.                 *)
(***************************************************************************)
THEOREM LruTypeCorrect == Of!Spec => []Of!TypeOK
<1>1. Of!Init => Of!TypeOK
  BY EmptyCacheWellFormed, SameOperators DEF Of!Init, Of!TypeOK
<1>2. Of!TypeOK /\ [Of!Next]_Of!vars => Of!TypeOK'
  <2>. SUFFICES ASSUME Of!TypeOK, [Of!Next]_Of!vars
                PROVE  Of!TypeOK'
    OBVIOUS
  <2>1. WellFormed(table) /\ table.value \in [Key -> Value \cup {NULL}] /\ out \in Value \cup {NULL}
    BY SameOperators DEF Of!TypeOK, WellFormed, Caches
  <2>2. ASSUME NEW k \in Key, Of!Get(k)
        PROVE  WellFormed(table') /\ out' \in Value \cup {NULL}
    BY <2>1, <2>2, GetOpWellFormed, SameOperators DEF Of!Get
  <2>3. ASSUME NEW k \in Key, NEW v \in Value, Of!Set(k, v)
        PROVE  WellFormed(table') /\ out' \in Value \cup {NULL}
    BY <2>1, <2>3, SetOpWellFormed, SameOperators DEF Of!Set
  <2>4. ASSUME NEW k \in Key, Of!Delete(k)
        PROVE  WellFormed(table') /\ out' \in Value \cup {NULL}
    BY <2>1, <2>4, DeleteOpWellFormed, SameOperators DEF Of!Delete
  <2>5. ASSUME UNCHANGED Of!vars
        PROVE  WellFormed(table') /\ out' \in Value \cup {NULL}
    BY <2>1, <2>5 DEF Of!vars
  <2>6. WellFormed(table') /\ out' \in Value \cup {NULL}
    BY <2>2, <2>3, <2>4, <2>5 DEF Of!Next
  <2>. QED BY <2>6, SameOperators DEF Of!TypeOK
<1>. QED BY <1>1, <1>2, PTL DEF Of!Spec

\* Which keys lruc_set drops, and how long the order is afterwards.
LEMMA SetDrops ==
  ASSUME Of!TypeOK, NEW k \in Key, NEW v \in Value, Of!Set(k, v), Of!Dropped # {}
  PROVE  /\ Len(table.order) = Capacity
         /\ Len(table'.order) = Capacity
         /\ Of!Dropped = {table.order[1]}
<1>1. WellFormed(table) /\ table' = SetOp(table, k, v)
  BY SameOperators DEF Of!TypeOK, Of!Set
<1>2. table'.value = [j \in Key |-> IF j = k THEN v
                                   ELSE IF j \in Victim(table, k) THEN NULL
                                   ELSE table.value[j]]
  BY <1>1, SetOpValue
<1>3. Of!Dropped = {j \in Victim(table, k) : Cached(table, j)}
  BY <1>1, <1>2, VictimProperties, NullAssumption, SameOperators DEF Cached
<1>4. Victim(table, k) # {}
  BY <1>3
<1>5. /\ table.order # <<>> /\ Len(table.order) = Capacity
      /\ Victim(table, k) = {table.order[1]} /\ Cached(table, table.order[1])
  BY <1>1, <1>4, VictimProperties
<1>6. table.order \in Seq(Key) /\ Distinct(table.order)
  BY <1>1 DEF WellFormed, Caches
<1>7. Tail(table.order) \in Seq(Key) /\ Len(Tail(table.order)) = Len(table.order) - 1
  BY <1>5, <1>6, TailDistinct
<1>8. table'.order = Append(Tail(table.order), k)
  BY <1>1, <1>4, SetOpValue
<1>9. Len(table'.order) = Capacity
  BY <1>5, <1>7, <1>8, CapacityAssumption, AppendProperties
<1>10. QED BY <1>3, <1>5, <1>9

(***************************************************************************)
(* lruc_set evicts from a full cache only, and only what was used least    *)
(* recently, however the calls before it were ordered.                     *)
(***************************************************************************)
THEOREM LruEvictsOldest == Of!Spec => Of!EvictsOldestWhenFull
<1>. DEFINE A == Len(table'.order) >= Len(table.order) /\ Of!Dropped # {}
                   => /\ Len(table.order) = Capacity
                      /\ Len(table'.order) = Capacity
                      /\ Of!Dropped = {table.order[1]}
<1>1. Of!TypeOK /\ [Of!Next]_Of!vars => [A]_Of!vars
  <2>. SUFFICES ASSUME Of!TypeOK, Of!Next, Of!Dropped # {},
                       Len(table'.order) >= Len(table.order)
                PROVE  /\ Len(table.order) = Capacity
                       /\ Len(table'.order) = Capacity
                       /\ Of!Dropped = {table.order[1]}
    OBVIOUS
  <2>1. WellFormed(table) /\ table.order \in Seq(Key) /\ Distinct(table.order)
    BY SameOperators DEF Of!TypeOK, WellFormed, Caches
  <2>2. ASSUME NEW k \in Key, Of!Get(k)
        PROVE  FALSE
    <3>1. table'.value = table.value
      BY <2>1, <2>2, GetOpWellFormed, SameOperators DEF Of!Get
    <3>2. QED BY <3>1, SameOperators DEF Cached
  <2>3. ASSUME NEW k \in Key, NEW v \in Value, Of!Set(k, v)
        PROVE  /\ Len(table.order) = Capacity
               /\ Len(table'.order) = Capacity
               /\ Of!Dropped = {table.order[1]}
    BY <2>3, SetDrops
  <2>4. ASSUME NEW k \in Key, Of!Delete(k)
        PROVE  FALSE
    <3>1. table'.order = Without(table.order, k)
          /\ table'.value = [table.value EXCEPT ![k] = NULL]
      BY <2>4, SameOperators DEF Of!Delete, DeleteOp
    <3>2. Cached(table, k)
      BY <2>1, <3>1, SameOperators DEF Cached, WellFormed, Caches
    <3>3. Contains(table.order, k)
      BY <2>1, <3>2 DEF WellFormed
    <3>4. Len(table'.order) = Len(table.order) - 1 /\ Len(table.order) \in Nat
      BY <2>1, <3>1, <3>3, WithoutProperties, LenProperties
    <3>5. QED BY <3>4
  <2>5. QED BY <2>2, <2>3, <2>4 DEF Of!Next
<1>2. QED BY <1>1, LruTypeCorrect, PTL DEF Of!Spec, Of!EvictsOldestWhenFull

-----------------------------------------------------------------------------
(* The inductive invariant. *)

SetUpOrder ==
  /\ init => ready = Globals /\ map # NULL
  /\ ~init => \A k \in Key : ~Cached(cache, k)
  /\ \A t \in Thread :
       /\ pc[t] = "getcwd" => {"real_call"} \subseteq ready
       /\ pc[t] = "config" => {"real_call", "cwd"} \subseteq ready
       /\ pc[t] = "cache_init" => {"real_call", "cwd", "map"} \subseteq ready /\ map # NULL
       /\ pc[t] = "publish" => ready = Globals /\ map # NULL
       /\ pc[t] \in {"unlock"} \cup CheckSteps => init

Locals ==
  \A t \in Thread : /\ pc[t] # "idle" => req[t] \in Request
                    /\ pc[t] = "deref" => ptr[t] \in Value
                    /\ pc[t] = "insert" => t \notin dangled

Inv == /\ TypeOK /\ SetUpExclusive /\ SetUpOrder /\ Locals
       /\ BuffersOwned /\ EntriesJustified /\ VerdictJustified

-----------------------------------------------------------------------------
LEMMA InitInv == Init => Inv
<1>. SUFFICES ASSUME Init PROVE Inv
  OBVIOUS
<1>1. WellFormed(cache) /\ \A k \in Key : ~Cached(cache, k)
  BY EmptyCacheWellFormed DEF Init
<1>2. TypeOK
  BY <1>1 DEF Init, TypeOK
<1>3. SetUpExclusive /\ SetUpOrder /\ Locals /\ VerdictJustified
  BY <1>1 DEF Init, SetUpExclusive, SetUpOrder, Locals, VerdictJustified,
              LockedSteps, SetUpSteps, CheckSteps
<1>4. BuffersOwned /\ EntriesJustified
  BY <1>1, NullAssumption DEF Init, BuffersOwned, EntriesJustified, Cached
<1>5. QED BY <1>2, <1>3, <1>4 DEF Inv

\* The type invariant.
LEMMA NextTypeOK == TypeOK /\ Locals /\ [Next]_vars => TypeOK'
<1>. SUFFICES ASSUME TypeOK, Locals, [Next]_vars PROVE TypeOK'
  OBVIOUS
<1>. USE DEF TypeOK, At, Go, setup, locals, history, LockedSteps, SetUpSteps, CheckSteps
<1>1. ASSUME NEW t \in Thread, Call(t) PROVE TypeOK'
  BY <1>1 DEF Call
<1>2. ASSUME NEW t \in Thread, QuickCheck(t) PROVE TypeOK'
  BY <1>2 DEF QuickCheck
<1>3. ASSUME NEW t \in Thread, Lock(t) PROVE TypeOK'
  BY <1>3 DEF Lock
<1>4. ASSUME NEW t \in Thread, Recheck(t) PROVE TypeOK'
  BY <1>4 DEF Recheck
<1>5. ASSUME NEW t \in Thread, Resolve(t) PROVE TypeOK'
  BY <1>5 DEF Resolve, Globals
<1>6. ASSUME NEW t \in Thread, GetCwd(t) PROVE TypeOK'
  BY <1>6 DEF GetCwd, Globals
<1>7. ASSUME NEW t \in Thread, LoadConfig(t) PROVE TypeOK'
  BY <1>7 DEF LoadConfig, Globals
<1>8. ASSUME NEW t \in Thread, CacheInit(t) PROVE TypeOK'
  BY <1>8, EmptyCacheWellFormed DEF CacheInit, Globals
<1>9. ASSUME NEW t \in Thread, Publish(t) PROVE TypeOK'
  BY <1>9 DEF Publish
<1>10. ASSUME NEW t \in Thread, Unlock(t) PROVE TypeOK'
  BY <1>10 DEF Unlock
<1>11. ASSUME NEW t \in Thread, SetUpFails(t) PROVE TypeOK'
  BY <1>11 DEF SetUpFails
<1>12. ASSUME NEW t \in Thread, Get(t) PROVE TypeOK'
  <2>1. req[t].path \in Key
    BY <1>12, RequestAssumption DEF Get, Locals
  <2>2. cache.value[req[t].path] \in Value \cup {NULL}
    BY <2>1 DEF WellFormed, Caches
  <2>3. WellFormed(cache')
    BY <1>12, <2>1, GetOpWellFormed DEF Get
  <2>4. QED BY <1>12, <2>2, <2>3 DEF Get
<1>13. ASSUME NEW t \in Thread, Deref(t) PROVE TypeOK'
  BY <1>13 DEF Deref
<1>14. ASSUME NEW t \in Thread, Lookup(t) PROVE TypeOK'
  <2>1. req[t].path \in Key /\ req[t].mode \in Mode
    BY <1>14, RequestAssumption DEF Lookup, Locals
  <2>2. Decide(req[t].path, req[t].mode) \in BOOLEAN
    BY DEF Decide
  <2>3. QED BY <1>14, <2>1, <2>2 DEF Lookup
<1>15. ASSUME NEW t \in Thread, Insert(t) PROVE TypeOK'
  <2>1. req[t].path \in Key
    BY <1>15, RequestAssumption DEF Insert, Locals
  <2>2. WellFormed(cache')
    BY <1>15, <2>1, SetOpWellFormed DEF Insert
  <2>3. heap' \in [Value -> {"A", "F", "free"}]
    BY <1>15 DEF Insert, Stored, Verdict
  <2>4. QED BY <1>15, <2>2, <2>3 DEF Insert
<1>16. ASSUME NEW t \in Thread, Return(t) PROVE TypeOK'
  BY <1>16 DEF Return
<1>17. CASE UNCHANGED vars
  BY <1>17 DEF vars
<1>18. QED
  BY <1>1, <1>2, <1>3, <1>4, <1>5, <1>6, <1>7, <1>8, <1>9, <1>10, <1>11,
     <1>12, <1>13, <1>14, <1>15, <1>16, <1>17
  DEF Next, SetUp, Check, Exited

\* init_preload: mutual exclusion, and what is assigned when.
LEMMA NextSetUp ==
  TypeOK /\ SetUpExclusive /\ SetUpOrder /\ [Next]_vars => SetUpExclusive' /\ SetUpOrder'
<1>. SUFFICES ASSUME TypeOK, SetUpExclusive, SetUpOrder, [Next]_vars
              PROVE  SetUpExclusive' /\ SetUpOrder'
  OBVIOUS
<1>. USE DEF TypeOK, SetUpExclusive, SetUpOrder, At, Go, setup, locals, history,
             LockedSteps, SetUpSteps, CheckSteps
<1>1. ASSUME NEW t \in Thread, Call(t) PROVE SetUpExclusive' /\ SetUpOrder'
  BY <1>1 DEF Call
<1>2. ASSUME NEW t \in Thread, QuickCheck(t) PROVE SetUpExclusive' /\ SetUpOrder'
  BY <1>2 DEF QuickCheck
<1>3. ASSUME NEW t \in Thread, Lock(t) PROVE SetUpExclusive' /\ SetUpOrder'
  BY <1>3, NullIsNoOther DEF Lock
<1>4. ASSUME NEW t \in Thread, Recheck(t) PROVE SetUpExclusive' /\ SetUpOrder'
  BY <1>4 DEF Recheck
<1>5. ASSUME NEW t \in Thread, Resolve(t) PROVE SetUpExclusive' /\ SetUpOrder'
  BY <1>5 DEF Resolve, Globals
<1>6. ASSUME NEW t \in Thread, GetCwd(t) PROVE SetUpExclusive' /\ SetUpOrder'
  BY <1>6 DEF GetCwd, Globals
<1>7. ASSUME NEW t \in Thread, LoadConfig(t) PROVE SetUpExclusive' /\ SetUpOrder'
  BY <1>7, NullIsNoOther, RulesAssumption DEF LoadConfig, Globals
<1>8. ASSUME NEW t \in Thread, CacheInit(t) PROVE SetUpExclusive' /\ SetUpOrder'
  <2>1. \A k \in Key : ~Cached(cache', k)
    BY <1>8, EmptyCacheWellFormed DEF CacheInit
  <2>2. ready' = Globals /\ map' # NULL /\ ~init' /\ mut' = t
    <3>1. ready' = ready \cup {"cache"}
      BY <1>8 DEF CacheInit
    <3>2. {"real_call", "cwd", "map"} \subseteq ready /\ map # NULL /\ ~init /\ mut = t
      BY <1>8 DEF CacheInit
    <3>3. map' = map /\ init' = init /\ mut' = mut
      BY <1>8 DEF CacheInit
    <3>4. ready' = Globals
      BY <3>1, <3>2 DEF Globals
    <3>5. QED BY <3>2, <3>3, <3>4
  <2>3. SetUpExclusive'
    BY <1>8 DEF CacheInit
  <2>4. QED BY <1>8, <2>1, <2>2, <2>3 DEF CacheInit
<1>9. ASSUME NEW t \in Thread, Publish(t) PROVE SetUpExclusive' /\ SetUpOrder'
  BY <1>9 DEF Publish, Globals
<1>10. ASSUME NEW t \in Thread, Unlock(t) PROVE SetUpExclusive' /\ SetUpOrder'
  BY <1>10 DEF Unlock
<1>11. ASSUME NEW t \in Thread, SetUpFails(t) PROVE SetUpExclusive' /\ SetUpOrder'
  BY <1>11 DEF SetUpFails
<1>12. ASSUME NEW t \in Thread, Get(t) PROVE SetUpExclusive' /\ SetUpOrder'
  BY <1>12 DEF Get
<1>13. ASSUME NEW t \in Thread, Deref(t) PROVE SetUpExclusive' /\ SetUpOrder'
  BY <1>13 DEF Deref
<1>14. ASSUME NEW t \in Thread, Lookup(t) PROVE SetUpExclusive' /\ SetUpOrder'
  BY <1>14 DEF Lookup
<1>15. ASSUME NEW t \in Thread, Insert(t) PROVE SetUpExclusive' /\ SetUpOrder'
  BY <1>15 DEF Insert
<1>16. ASSUME NEW t \in Thread, Return(t) PROVE SetUpExclusive' /\ SetUpOrder'
  BY <1>16 DEF Return
<1>17. CASE UNCHANGED vars
  BY <1>17 DEF vars
<1>18. QED
  BY <1>1, <1>2, <1>3, <1>4, <1>5, <1>6, <1>7, <1>8, <1>9, <1>10, <1>11,
     <1>12, <1>13, <1>14, <1>15, <1>16, <1>17
  DEF Next, SetUp, Check, Exited

\* The local variables of the calls.
LEMMA NextLocals == TypeOK /\ Locals /\ [Next]_vars => Locals'
<1>. SUFFICES ASSUME TypeOK, Locals, [Next]_vars PROVE Locals'
  OBVIOUS
<1>. USE DEF TypeOK, Locals, At, Go, setup, locals, history, LockedSteps, SetUpSteps, CheckSteps
<1>1. ASSUME NEW t \in Thread, Call(t) PROVE Locals'
  BY <1>1 DEF Call
<1>2. ASSUME NEW t \in Thread, QuickCheck(t) PROVE Locals'
  BY <1>2 DEF QuickCheck
<1>3. ASSUME NEW t \in Thread, Lock(t) PROVE Locals'
  BY <1>3 DEF Lock
<1>4. ASSUME NEW t \in Thread, Recheck(t) PROVE Locals'
  BY <1>4 DEF Recheck
<1>5. ASSUME NEW t \in Thread, Resolve(t) PROVE Locals'
  BY <1>5 DEF Resolve
<1>6. ASSUME NEW t \in Thread, GetCwd(t) PROVE Locals'
  BY <1>6 DEF GetCwd
<1>7. ASSUME NEW t \in Thread, LoadConfig(t) PROVE Locals'
  BY <1>7 DEF LoadConfig
<1>8. ASSUME NEW t \in Thread, CacheInit(t) PROVE Locals'
  BY <1>8 DEF CacheInit
<1>9. ASSUME NEW t \in Thread, Publish(t) PROVE Locals'
  BY <1>9 DEF Publish
<1>10. ASSUME NEW t \in Thread, Unlock(t) PROVE Locals'
  BY <1>10 DEF Unlock
<1>11. ASSUME NEW t \in Thread, SetUpFails(t) PROVE Locals'
  BY <1>11 DEF SetUpFails
<1>12. ASSUME NEW t \in Thread, Get(t) PROVE Locals'
  <2>1. req[t].path \in Key
    BY <1>12, RequestAssumption DEF Get
  <2>2. cache.value[req[t].path] \in Value \cup {NULL}
    BY <2>1 DEF WellFormed, Caches
  <2>3. QED BY <1>12, <2>1, <2>2 DEF Get, Cached
<1>13. ASSUME NEW t \in Thread, Deref(t) PROVE Locals'
  BY <1>13 DEF Deref
<1>14. ASSUME NEW t \in Thread, Lookup(t) PROVE Locals'
  BY <1>14 DEF Lookup
<1>15. ASSUME NEW t \in Thread, Insert(t) PROVE Locals'
  BY <1>15 DEF Insert
<1>16. ASSUME NEW t \in Thread, Return(t) PROVE Locals'
  BY <1>16 DEF Return
<1>17. CASE UNCHANGED vars
  BY <1>17 DEF vars
<1>18. QED
  BY <1>1, <1>2, <1>3, <1>4, <1>5, <1>6, <1>7, <1>8, <1>9, <1>10, <1>11,
     <1>12, <1>13, <1>14, <1>15, <1>16, <1>17
  DEF Next, SetUp, Check, Exited

-----------------------------------------------------------------------------
\* What lruc_set frees, and which values are bound afterwards.
LEMMA InsertEffect ==
  ASSUME TypeOK, Locals, BuffersOwned, NEW t \in Thread, Insert(t),
         NEW b \in Value, heap[b] = "free", NEW k, k = req[t].path,
         cache' = SetOp(cache, k, b)
  PROVE  /\ k \in Key /\ cache'.value[k] = b
         /\ \A j \in Key \ {k} :
              \/ cache'.value[j] = NULL /\ (Cached(cache, j) => cache.value[j] \in Released(k))
              \/ /\ cache'.value[j] = cache.value[j]
                 /\ cache.value[j] \notin Released(k) \cup {b}
         /\ b \notin Released(k)
         /\ \A a \in Value : a \in Released(k) =>
              \A j \in Key : cache'.value[j] # a
<1>1. k \in Key
  BY RequestAssumption DEF Insert, At, Locals
<1>2. cache'.value = [j \in Key |-> IF j = k THEN b
                                   ELSE IF j \in Victim(cache, k) THEN NULL
                                   ELSE cache.value[j]]
  BY <1>1, SetOpValue
<1>3. Victim(cache, k) \subseteq Key \ {k} /\ cache.value \in [Key -> Value \cup {NULL}]
  BY <1>1, VictimProperties DEF TypeOK, WellFormed, Caches
<1>4. \A j \in Key : cache.value[j] # b
  BY DEF BuffersOwned
<1>5. \A i, j \in Key : cache.value[i] # NULL /\ cache.value[j] = cache.value[i] => j = i
  BY DEF BuffersOwned, Cached
<1>6. \A a : a \in Released(k) <=>
         a # NULL /\ \E j \in {k} \cup Victim(cache, k) : a = cache.value[j]
  BY DEF Released
<1>7. b \notin Released(k)
  BY <1>1, <1>3, <1>4, <1>6
<1>8. ASSUME NEW j \in Key \ {k}
      PROVE  \/ cache'.value[j] = NULL /\ (Cached(cache, j) => cache.value[j] \in Released(k))
             \/ /\ cache'.value[j] = cache.value[j]
                /\ cache.value[j] \notin Released(k) \cup {b}
  <2>1. CASE j \in Victim(cache, k)
    BY <1>2, <1>6, <2>1 DEF Cached
  <2>2. CASE j \notin Victim(cache, k)
    <3>1. cache'.value[j] = cache.value[j]
      BY <1>2, <2>2
    <3>2. cache.value[j] \notin Released(k)
      BY <1>1, <1>3, <1>5, <1>6, <2>2
    <3>3. QED BY <1>4, <3>1, <3>2
  <2>3. QED BY <2>1, <2>2
<1>9. ASSUME NEW a \in Value, a \in Released(k), NEW j \in Key
      PROVE  cache'.value[j] # a
  BY <1>2, <1>7, <1>8, <1>9, NullAssumption
<1>10. QED BY <1>1, <1>2, <1>7, <1>8, <1>9

\* The buffers of cached values: one per path, none leaked.
LEMMA NextBuffersOwned ==
  Inv /\ [Next]_vars => BuffersOwned'
<1>. SUFFICES ASSUME Inv, [Next]_vars PROVE BuffersOwned'
  OBVIOUS
<1>1. CASE UNCHANGED heap /\ cache'.value = cache.value
  BY <1>1 DEF Inv, BuffersOwned, Cached
<1>2. ASSUME NEW t \in Thread, CacheInit(t) PROVE BuffersOwned'
  <2>1. \A k \in Key : cache.value[k] = NULL
    BY <1>2 DEF Inv, SetUpExclusive, SetUpOrder, SetUpSteps, CacheInit, At, Cached
  <2>2. \A k \in Key : cache'.value[k] = NULL
    BY <1>2 DEF CacheInit, EmptyCache
  <2>3. heap' = heap
    BY <1>2 DEF CacheInit
  <2>4. QED BY <2>1, <2>2, <2>3, NullAssumption DEF Inv, BuffersOwned, Cached
<1>3. ASSUME NEW t \in Thread, Get(t) PROVE UNCHANGED heap /\ cache'.value = cache.value
  <2>1. req[t].path \in Key /\ WellFormed(cache)
    BY <1>3, RequestAssumption DEF Inv, Locals, TypeOK, Get, At
  <2>2. QED BY <1>3, <2>1, GetOpWellFormed DEF Get
<1>4. ASSUME NEW t \in Thread, Insert(t) PROVE BuffersOwned'
  <2>. DEFINE k == req[t].path
  <2>1. PICK b \in Value :
          /\ heap[b] = "free" /\ cache' = SetOp(cache, k, b)
          /\ heap' = [a \in Value |-> IF a = b THEN Stored(t)
                                      ELSE IF a \in Released(k) THEN "free" ELSE heap[a]]
    BY <1>4 DEF Insert
  <2>2. /\ k \in Key /\ cache'.value[k] = b /\ b \notin Released(k)
        /\ \A j \in Key \ {k} :
              \/ cache'.value[j] = NULL /\ (Cached(cache, j) => cache.value[j] \in Released(k))
              \/ /\ cache'.value[j] = cache.value[j]
                 /\ cache.value[j] \notin Released(k) \cup {b}
        /\ \A a \in Value : a \in Released(k) => \A j \in Key : cache'.value[j] # a
    BY <1>4, <2>1, InsertEffect DEF Inv
  <2>3. Stored(t) # "free"
    BY DEF Stored, Verdict
  <2>. HIDE DEF k
  <2>4. \A a \in Value : heap[a] # "free" <=> \E j \in Key : cache.value[j] = a
    BY DEF Inv, BuffersOwned
  <2>5. ASSUME NEW a \in Value
        PROVE  heap'[a] # "free" <=> \E j \in Key : cache'.value[j] = a
    <3>1. CASE a = b
      BY <2>1, <2>2, <2>3, <3>1
    <3>2. CASE a # b /\ a \in Released(k)
      BY <2>1, <2>2, <3>2
    <3>3. CASE a # b /\ a \notin Released(k)
      <4>1. heap'[a] = heap[a]
        BY <2>1, <3>3
      <4>2. \A j \in Key : cache'.value[j] = a => cache.value[j] = a
        BY <2>2, <3>3, NullAssumption
      <4>3. ASSUME NEW j \in Key, cache.value[j] = a
            PROVE  \E i \in Key : cache'.value[i] = a
        <5>1. j # k
          BY <3>3, <4>3, NullAssumption DEF Released
        <5>2. QED BY <2>2, <3>3, <4>3, <5>1, NullAssumption DEF Cached
      <4>4. QED BY <2>4, <4>1, <4>2, <4>3
    <3>4. QED BY <3>1, <3>2, <3>3
  <2>6. ASSUME NEW i \in Key, NEW j \in Key, cache'.value[j] # NULL,
               cache'.value[i] = cache'.value[j]
        PROVE  i = j
    BY <2>2, <2>6 DEF Inv, BuffersOwned, Cached
  <2>7. QED BY <2>5, <2>6 DEF BuffersOwned, Cached
<1>5. QED
  BY <1>1, <1>2, <1>3, <1>4
  DEF Next, SetUp, Check, Exited, Call, QuickCheck, Lock, Recheck, Resolve, GetCwd,
      LoadConfig, Publish, Unlock, SetUpFails, Deref, Lookup, Return, vars

-----------------------------------------------------------------------------
\* The rules do not change once a call can be decided, and history only grows.
LEMMA Stable ==
  Inv /\ [Next]_vars =>
    /\ \A k \in Key : asked[k] \subseteq asked'[k]
    /\ map' = map \/ /\ UNCHANGED <<cache, heap, asked, dangled, ret, req>>
                     /\ \A k \in Key : ~Cached(cache, k)
                     /\ \A t \in Thread : pc'[t] \notin CheckSteps
<1>. SUFFICES ASSUME Inv, [Next]_vars
              PROVE  /\ \A k \in Key : asked[k] \subseteq asked'[k]
                     /\ map' = map \/ /\ UNCHANGED <<cache, heap, asked, dangled, ret, req>>
                                      /\ \A k \in Key : ~Cached(cache, k)
                                      /\ \A t \in Thread : pc'[t] \notin CheckSteps
  OBVIOUS
<1>1. CASE UNCHANGED <<map, asked>>
  BY <1>1
<1>2. ASSUME NEW t \in Thread, LoadConfig(t)
      PROVE  /\ UNCHANGED <<cache, heap, asked, dangled, ret, req>>
             /\ \A k \in Key : ~Cached(cache, k)
             /\ \A s \in Thread : pc'[s] \notin CheckSteps
  <2>1. ~init
    BY <1>2 DEF Inv, SetUpExclusive, SetUpSteps, LoadConfig, At
  <2>2. \A s \in Thread : pc[s] \notin CheckSteps
    BY <2>1 DEF Inv, SetUpOrder
  <2>3. pc' = [pc EXCEPT ![t] = "cache_init"]
    BY <1>2 DEF LoadConfig, Go
  <2>4. \A s \in Thread : pc'[s] \notin CheckSteps
    BY <2>2, <2>3 DEF Inv, TypeOK, CheckSteps
  <2>5. QED BY <1>2, <2>1, <2>4 DEF Inv, SetUpOrder, LoadConfig, history
<1>3. ASSUME NEW t \in Thread, Lookup(t)
      PROVE  map' = map /\ \A k \in Key : asked[k] \subseteq asked'[k]
  BY <1>3 DEF Inv, TypeOK, Lookup, setup
<1>4. QED
  BY <1>1, <1>2, <1>3
  DEF Next, SetUp, Check, Exited, Call, QuickCheck, Lock, Recheck, Resolve, GetCwd,
      CacheInit, Publish, Unlock, SetUpFails, Get, Deref, Insert, Return, vars,
      setup, history

\* The verdicts in the cache.
LEMMA NextEntriesJustified ==
  Inv /\ [Next]_vars => EntriesJustified'
<1>. SUFFICES ASSUME Inv, [Next]_vars, NEW k \in Key, Cached(cache', k)
              PROVE  \E m \in asked'[k] : heap'[cache'.value[k]] = Verdict(Decide(k, m)')
  BY DEF EntriesJustified, Cached, Verdict
<1>1. asked[k] \subseteq asked'[k]
  BY Stable
<1>2. CASE map' = map /\ UNCHANGED heap /\ cache'.value = cache.value
  <2>1. Cached(cache, k)
    BY <1>2 DEF Cached
  <2>2. PICK m \in asked[k] : heap[cache.value[k]] = Verdict(Decide(k, m))
    BY <2>1 DEF Inv, EntriesJustified
  <2>3. Decide(k, m)' <=> Decide(k, m)
    BY <1>2 DEF Decide
  <2>4. QED BY <1>1, <1>2, <2>2, <2>3 DEF Verdict
<1>3. CASE map' # map
  BY <1>3, Stable DEF Cached
<1>4. ASSUME NEW t \in Thread, CacheInit(t) PROVE FALSE
  BY <1>4, EmptyCacheWellFormed DEF CacheInit
<1>5. ASSUME NEW t \in Thread, Get(t) PROVE UNCHANGED heap /\ cache'.value = cache.value
  <2>1. req[t].path \in Key /\ WellFormed(cache)
    BY <1>5, RequestAssumption DEF Inv, Locals, TypeOK, Get, At
  <2>2. QED BY <1>5, <2>1, GetOpWellFormed DEF Get
<1>6. ASSUME NEW t \in Thread, Insert(t)
      PROVE  \E m \in asked'[k] : heap'[cache'.value[k]] = Verdict(Decide(k, m)')
  <2>. DEFINE p == req[t].path
  <2>1. PICK b \in Value :
          /\ heap[b] = "free" /\ cache' = SetOp(cache, p, b)
          /\ heap' = [a \in Value |-> IF a = b THEN Stored(t)
                                      ELSE IF a \in Released(p) THEN "free" ELSE heap[a]]
    BY <1>6 DEF Insert
  <2>2. /\ p \in Key /\ cache'.value[p] = b /\ b \notin Released(p)
        /\ \A j \in Key \ {p} :
              \/ cache'.value[j] = NULL /\ (Cached(cache, j) => cache.value[j] \in Released(p))
              \/ /\ cache'.value[j] = cache.value[j]
                 /\ cache.value[j] \notin Released(p) \cup {b}
    BY <1>6, <2>1, InsertEffect DEF Inv
  <2>3. \A m : Decide(k, m)' <=> Decide(k, m)
    BY <1>6 DEF Insert, setup, Decide
  <2>4. CASE k = p
    <3>1. heap'[cache'.value[k]] = Verdict(ret[t])
      BY <2>1, <2>2, <2>4 DEF Stored
    <3>2. t \notin dangled /\ pc[t] = "insert"
      BY <1>6 DEF Inv, Locals, Insert, At
    <3>3. PICK m \in asked[k] : ret[t] = Decide(k, m)
      BY <2>4, <3>2 DEF Inv, VerdictJustified
    <3>4. QED BY <1>1, <2>3, <3>1, <3>3 DEF Verdict
  <2>5. CASE k # p
    <3>1. cache'.value[k] = cache.value[k] /\ cache.value[k] \notin Released(p) \cup {b}
      BY <2>2, <2>5 DEF Cached
    <3>2. Cached(cache, k) /\ cache.value[k] \in Value
      BY <3>1 DEF Cached, Inv, TypeOK, WellFormed, Caches
    <3>3. heap'[cache'.value[k]] = heap[cache.value[k]]
      BY <2>1, <3>1, <3>2
    <3>4. PICK m \in asked[k] : heap[cache.value[k]] = Verdict(Decide(k, m))
      BY <3>2 DEF Inv, EntriesJustified
    <3>5. QED BY <1>1, <2>3, <3>3, <3>4 DEF Verdict
  <2>6. QED BY <2>4, <2>5
<1>7. QED
  BY <1>2, <1>3, <1>4, <1>5, <1>6
  DEF Next, SetUp, Check, Exited, Call, QuickCheck, Lock, Recheck, Resolve, GetCwd,
      LoadConfig, Publish, Unlock, SetUpFails, Deref, Lookup, Return, vars, setup

\* The verdicts of the calls.
LEMMA NextVerdictJustified ==
  Inv /\ [Next]_vars => VerdictJustified'
<1>. SUFFICES ASSUME Inv, [Next]_vars,
                     NEW s \in Thread, s \notin dangled', pc'[s] \in {"insert", "return"}
              PROVE  (\E m \in asked[req[s].path] : ret[s] = Decide(req[s].path, m))'
  BY DEF VerdictJustified
<1>1. map' = map
  BY Stable DEF CheckSteps
<1>2. SUFFICES \E m \in asked'[req'[s].path] : ret'[s] = Decide(req'[s].path, m)
  BY <1>1 DEF Decide
\* A thread that was already past its decision.
<1>3. CASE /\ req'[s] = req[s] /\ ret'[s] = ret[s]
           /\ s \notin dangled /\ pc[s] \in {"insert", "return"}
  <2>1. PICK m \in asked[req[s].path] : ret[s] = Decide(req[s].path, m)
    BY <1>3 DEF Inv, VerdictJustified
  <2>2. req[s].path \in Key
    BY <1>3, RequestAssumption DEF Inv, Locals
  <2>3. m \in asked'[req[s].path]
    BY <2>1, <2>2, Stable
  <2>4. QED BY <1>3, <2>1, <2>3, Zenon
<1>4. ASSUME NEW t \in Thread, Deref(t)
      PROVE  \E m \in asked'[req'[s].path] : ret'[s] = Decide(req'[s].path, m)
  <2>1. PICK c \in Read(ptr[t]) :
           /\ ret' = [ret EXCEPT ![t] = (c = "A")]
           /\ pc' = [pc EXCEPT ![t] = IF c \in {"A", "F"} THEN "return" ELSE "lookup"]
    BY <1>4 DEF Deref, Go
  <2>2. req' = req /\ asked' = asked /\ dangled \subseteq dangled'
    BY <1>4 DEF Deref
  <2>3. CASE s # t
    <3>1. ret'[s] = ret[s] /\ pc'[s] = pc[s] /\ s \notin dangled
      BY <2>1, <2>2, <2>3 DEF Inv, TypeOK
    <3>2. QED BY <1>3, <2>2, <3>1
  <2>4. CASE s = t
    <3>. DEFINE k == req[t].path
    <3>1. ptr[t] = cache.value[k]
      BY <1>4, <2>4 DEF Deref, Inv, TypeOK
    <3>2. k \in Key /\ ptr[t] \in Value
      BY <1>4, RequestAssumption DEF Deref, At, Inv, Locals
    <3>3. PICK m \in asked[k] : heap[ptr[t]] = Verdict(Decide(k, m))
      BY <3>1, <3>2, NullAssumption DEF Inv, EntriesJustified, Cached
    <3>4. c = Verdict(Decide(k, m))
      BY <2>1, <3>3 DEF Read, Verdict
    <3>5. ret'[t] = Decide(k, m)
      <4>1. ret'[t] = (c = "A") /\ Decide(k, m) \in BOOLEAN
        BY <2>1 DEF Inv, TypeOK, Decide
      <4>2. QED BY <3>4, <4>1 DEF Verdict
    <3>6. QED BY <2>2, <2>4, <3>3, <3>5, Zenon
  <2>5. QED BY <2>3, <2>4
<1>5. ASSUME NEW t \in Thread, Lookup(t)
      PROVE  \E m \in asked'[req'[s].path] : ret'[s] = Decide(req'[s].path, m)
  <2>. DEFINE k == req[t].path
              m == req[t].mode
  <2>1. /\ ret' = [ret EXCEPT ![t] = Decide(k, m)]
        /\ asked' = [asked EXCEPT ![k] = @ \cup {m}]
        /\ dangled' = dangled \ {t}
        /\ pc' = [pc EXCEPT ![t] = "insert"]
        /\ req' = req
    BY <1>5 DEF Lookup, Go
  <2>2. k \in Key
    BY <1>5, RequestAssumption DEF Lookup, At, Inv, Locals
  <2>3. CASE s # t
    <3>1. ret'[s] = ret[s] /\ pc'[s] = pc[s] /\ s \notin dangled
      BY <2>1, <2>3 DEF Inv, TypeOK
    <3>2. QED BY <1>3, <2>1, <3>1
  <2>4. CASE s = t
    <3>1. m \in asked'[k] /\ ret'[t] = Decide(k, m)
      BY <2>1, <2>2 DEF Inv, TypeOK
    <3>2. QED BY <2>1, <2>4, <3>1, Zenon
  <2>5. QED BY <2>3, <2>4
<1>6. ASSUME NEW t \in Thread, Insert(t)
      PROVE  /\ req'[s] = req[s] /\ ret'[s] = ret[s]
             /\ s \notin dangled /\ pc[s] \in {"insert", "return"}
  BY <1>6 DEF Insert, At, Go, history, Inv, TypeOK
<1>7. ASSUME NEW t \in Thread, Call(t) \/ SetUp(t) \/ Get(t) \/ Return(t)
      PROVE  /\ req'[s] = req[s] /\ ret'[s] = ret[s]
             /\ s \notin dangled /\ pc[s] \in {"insert", "return"}
  BY <1>7
  DEF Inv, TypeOK, At, Go, SetUp, Call, QuickCheck, Lock, Recheck, Resolve, GetCwd,
      LoadConfig, CacheInit, Publish, Unlock, SetUpFails, Get, Return,
      locals, history
<1>8. CASE UNCHANGED vars
  BY <1>3, <1>8 DEF vars, locals, history
<1>9. QED
  BY <1>3, <1>4, <1>5, <1>6, <1>7, <1>8 DEF Next, Check, Exited

-----------------------------------------------------------------------------
THEOREM Invariance == Spec => []Inv
<1>1. Inv /\ [Next]_vars => Inv'
  <2>. SUFFICES ASSUME Inv, [Next]_vars PROVE Inv'
    OBVIOUS
  <2>1. TypeOK' /\ SetUpExclusive' /\ SetUpOrder' /\ Locals'
    BY NextTypeOK, NextSetUp, NextLocals DEF Inv
  <2>2. BuffersOwned' /\ EntriesJustified' /\ VerdictJustified'
    BY NextBuffersOwned, NextEntriesJustified, NextVerdictJustified
  <2>3. QED BY <2>1, <2>2 DEF Inv
<1>2. QED BY InitInv, <1>1, PTL DEF Spec

(***************************************************************************)
(* The variables of the agent have their types, and the cache is well      *)
(* formed.                                                                 *)
(***************************************************************************)
THEOREM TypeCorrect == Spec => []TypeOK
BY Invariance, PTL DEF Inv

(***************************************************************************)
(* The agent is set up by at most one thread at a time, and never again    *)
(* once init is set (agent.c:62).                                          *)
(***************************************************************************)
THEOREM SetUpOnce == Spec => []SetUpExclusive
BY Invariance, PTL DEF Inv

(***************************************************************************)
(* No call uses the rules, the cache, the working directory or the real    *)
(* functions before init_preload has assigned them.                        *)
(***************************************************************************)
THEOREM NeverUsedBeforeReady == Spec => []ReadyBeforeUse
<1>1. Inv => ReadyBeforeUse
  BY DEF Inv, SetUpOrder, ReadyBeforeUse
<1>2. QED BY Invariance, <1>1, PTL

(***************************************************************************)
(* Cached verdicts come from the rules, and their buffers are owned by the *)
(* cache, whatever the threads, the capacity and the sequence of calls.    *)
(***************************************************************************)
THEOREM VerdictsCached == Spec => []CacheSound
BY Invariance, PTL DEF Inv, CacheSound

(***************************************************************************)
(* Every verdict not read from a freed buffer is one that the rules give   *)
(* for the path of the call.                                               *)
(***************************************************************************)
THEOREM VerdictsSound == Spec => []VerdictJustified
BY Invariance, PTL DEF Inv

-----------------------------------------------------------------------------
\* The history of modes has requests only.
AskedRequested ==
  \A k \in Key : \A m \in asked[k] : [path |-> k, mode |-> m] \in Request

\* One thread is never overtaken between the cache and its verdict.
NotOvertaken == PointerValid /\ dangled = {}

(***************************************************************************)
(* In a program of one thread (as the workers of nginx are) that opens     *)
(* each path in one mode only, the verdict cache is invisible: each call   *)
(* gets the verdict of the rules.                                          *)
(***************************************************************************)
THEOREM TransparentInOneMode ==
  ASSUME \A s, t \in Thread : s = t,
         \A q, r \in Request : q.path = r.path => q.mode = r.mode
  PROVE  Spec => []CacheTransparent
<1>1. Init => AskedRequested /\ NotOvertaken
  BY DEF Init, AskedRequested, NotOvertaken, PointerValid
<1>2. Inv /\ AskedRequested /\ [Next]_vars => AskedRequested'
  <2>. SUFFICES ASSUME Inv, AskedRequested, [Next]_vars PROVE AskedRequested'
    OBVIOUS
  <2>1. CASE UNCHANGED asked
    BY <2>1 DEF AskedRequested
  <2>2. ASSUME NEW t \in Thread, Lookup(t) PROVE AskedRequested'
    <3>1. req[t] \in Request /\ req[t] \in [path : Key, mode : Mode]
      BY <2>2, RequestAssumption DEF Inv, Locals, Lookup, At
    <3>2. req[t] = [path |-> req[t].path, mode |-> req[t].mode]
      BY <3>1
    <3>3. asked' = [asked EXCEPT ![req[t].path] = @ \cup {req[t].mode}]
      BY <2>2 DEF Lookup
    <3>4. QED BY <3>1, <3>2, <3>3 DEF AskedRequested, Inv, TypeOK
  <2>3. QED
    BY <2>1, <2>2
    DEF Next, SetUp, Check, Exited, Call, QuickCheck, Lock, Recheck, Resolve, GetCwd,
        LoadConfig, CacheInit, Publish, Unlock, SetUpFails, Get, Deref, Insert, Return,
        vars, history
<1>3. Inv /\ NotOvertaken /\ [Next]_vars => NotOvertaken'
  <2>. SUFFICES ASSUME Inv, NotOvertaken, [Next]_vars PROVE NotOvertaken'
    OBVIOUS
  <2>1. ASSUME NEW t \in Thread, Get(t) PROVE NotOvertaken'
    <3>1. req[t].path \in Key /\ WellFormed(cache)
      BY <2>1, RequestAssumption DEF Inv, Locals, TypeOK, Get, At
    <3>2. cache'.value = cache.value
      BY <2>1, <3>1, GetOpWellFormed DEF Get
    <3>3. ptr'[t] = cache.value[req[t].path] /\ req' = req /\ dangled' = dangled
      BY <2>1 DEF Get, Inv, TypeOK, history
    <3>4. QED BY <3>2, <3>3 DEF NotOvertaken, PointerValid
  <2>2. ASSUME NEW t \in Thread, Deref(t) PROVE NotOvertaken'
    <3>1. dangled' = dangled /\ pc'[t] # "deref"
      BY <2>2 DEF Deref, At, Go, NotOvertaken, PointerValid, Inv, TypeOK
    <3>2. QED BY <3>1 DEF NotOvertaken, PointerValid
  <2>3. ASSUME NEW t \in Thread, Call(t) \/ SetUp(t) \/ Lookup(t) \/ Insert(t) \/ Return(t)
        PROVE  NotOvertaken'
    <3>1. dangled' = dangled
      BY <2>3 DEF Call, SetUp, QuickCheck, Lock, Recheck, Resolve, GetCwd, LoadConfig,
                  CacheInit, Publish, Unlock, SetUpFails, Lookup, Insert, Return,
                  history, NotOvertaken
    <3>2. pc'[t] # "deref"
      BY <2>3 DEF Call, SetUp, QuickCheck, Lock, Recheck, Resolve, GetCwd, LoadConfig,
                  CacheInit, Publish, Unlock, SetUpFails, Lookup, Insert, Return,
                  At, Go, Inv, TypeOK, locals
    <3>3. QED BY <3>1, <3>2 DEF NotOvertaken, PointerValid
  <2>4. CASE UNCHANGED vars
    BY <2>4 DEF vars, locals, history, NotOvertaken, PointerValid
  <2>5. QED BY <2>1, <2>2, <2>3, <2>4 DEF Next, Check, Exited
<1>4. Inv /\ AskedRequested /\ NotOvertaken => CacheTransparent
  <2>. SUFFICES ASSUME Inv, AskedRequested, NotOvertaken,
                       NEW t \in Thread, pc[t] = "return"
                PROVE  ret[t] = Decide(req[t].path, req[t].mode)
    BY DEF CacheTransparent
  <2>1. req[t] \in Request /\ req[t].path \in Key
    BY RequestAssumption DEF Inv, Locals
  <2>2. PICK m \in asked[req[t].path] : ret[t] = Decide(req[t].path, m)
    BY DEF Inv, VerdictJustified, NotOvertaken
  <2>3. [path |-> req[t].path, mode |-> m] \in Request
    BY <2>1, <2>2 DEF AskedRequested
  <2>4. m = req[t].mode
    BY <2>1, <2>3
  <2>5. QED BY <2>2, <2>4
<1>5. QED BY <1>1, <1>2, <1>3, <1>4, Invariance, PTL DEF Spec
=============================================================================
