--------------------------- MODULE RobinHoodProofs ---------------------------
(***************************************************************************)
(* What is proved of the hash map, for every hash, any keys and values and *)
(* any first capacity from 2 on: TableAlwaysSound, CountAlwaysExact, and   *)
(* MapKept, that the table implements the map of Dictionary.               *)
(*                                                                         *)
(* The order of the table is stated without %: an item is Placed, its home *)
(* lies dib - 1 buckets back, and between its home and its bucket the j-th *)
(* bucket back holds an item of a dib of at least dib - j, its Path.  So   *)
(* the path of an item holds wherever it is carried to, and Reached, which *)
(* names only the bucket before, follows.  While a deletion shifts items   *)
(* back, paths need not hold at the hole, the bucket that is to be filled. *)
(*                                                                         *)
(* Shape keeps the number of buckets a doubling of cap, without which half *)
(* of it could be too small; Counted keeps a free bucket, which is why no  *)
(* distance exceeds the table; OneEach says why a key that is searched or  *)
(* set is not behind; Promised relates the items in the table, in hand and *)
(* taken by resize to the map when the call began.                         *)
(***************************************************************************)
EXTENDS RobinHood, FiniteSetTheorems, TLAPS

-----------------------------------------------------------------------------
(* Paths. *)

\* The bucket that is j before b in a table of n.
Back(b, j, n) == IF j <= b THEN b - j ELSE b - j + n

\* In bucket b an item e is as far from its home as it says.
Placed(e, b, n) == Home(e.item.key, n) = Back(b, e.dib - 1, n)

\* Between the home of e and bucket b the items are no closer to their homes than e is,
\* when it passes them; a bucket of hole does not matter.
Path(t, n, b, e, hole) ==
  \A j \in 1 .. (e.dib - 1) :
    Back(b, j, n) \notin hole => t[Back(b, j, n)].dib >= e.dib - j

Sound(t, n, hole) ==
  \A b \in (0 .. (n - 1)) \ hole :
    t[b].dib # 0 => Placed(t[b], b, n) /\ Path(t, n, b, t[b], hole)

Put(t, b, e) == [t EXCEPT ![b] = e]

Distinct(t, hole) ==
  \A a, b \in DOMAIN t \ hole :
    t[a].dib # 0 /\ t[b].dib # 0 /\ t[a].item.key = t[b].item.key => a = b

LEMMA HomeIn == ASSUME NEW n \in Nat \ {0}, NEW k \in Key PROVE Home(k, n) \in 0 .. (n - 1)
BY HashAssumption DEF Home

LEMMA AfterIs ==
  ASSUME NEW n \in Nat \ {0}, NEW b \in 0 .. (n - 1)
  PROVE After(b, n) = IF b = n - 1 THEN 0 ELSE b + 1
<1>1. CASE b = n - 1
  BY <1>1 DEF After
<1>2. CASE b # n - 1
  BY <1>2 DEF After
<1>3. QED BY <1>1, <1>2

LEMMA TableEntry ==
  ASSUME NEW n \in Nat \ {0}, NEW t \in Table(n), NEW b \in 0 .. (n - 1)
  PROVE /\ DOMAIN t = 0 .. (n - 1)
        /\ t[b] \in {Empty} \cup Filled(n)
        /\ t[b].dib \in 0 .. n
        /\ t[b].dib = 0 => t[b] = Empty
        /\ t[b].dib # 0 => t[b] \in Filled(n)
BY DEF Table, Filled, Empty

LEMMA Stepping ==
  ASSUME NEW n \in Nat \ {0, 1}, NEW b \in 0 .. (n - 1), NEW j \in 1 .. (n - 1)
  PROVE /\ Back(b, j, n) \in 0 .. (n - 1) \ {b}
        /\ Back(After(b, n), 1, n) = b
        /\ Back(After(b, n), j, n) = Back(b, j - 1, n)
        /\ Back(b, 0, n) = b
        /\ After(b, n) \in 0 .. (n - 1) \ {b}
BY AfterIs DEF Back

-----------------------------------------------------------------------------
\* Leaving in a bucket an item that is further from its home than what was there.
LEMMA Raised ==
  ASSUME NEW n \in Nat \ {0, 1}, NEW t \in Table(n), NEW e \in Filled(n), NEW b \in 0 .. (n - 1),
         Sound(t, n, {}), Placed(e, b, n), Path(t, n, b, e, {}),
         t[b].dib < e.dib, NEW u, u = Put(t, b, e)
  PROVE u \in Table(n) /\ Sound(u, n, {})
<1>2. t[b].dib \in 0 .. n /\ e.dib \in 1 .. n
  BY TableEntry DEF Filled
<1>3. u \in Table(n)
  BY DEF Table, Put
<1>4. \A c \in 0 .. (n - 1) : u[c] = IF c = b THEN e ELSE t[c]
  BY DEF Table, Put
<1>5. \A c \in 0 .. (n - 1) : t[c].dib \in 0 .. n /\ t[c].dib <= u[c].dib
  BY <1>2, <1>4, TableEntry
<1>6. Sound(u, n, {})
  <2>. SUFFICES ASSUME NEW c \in 0 .. (n - 1), u[c].dib # 0
                PROVE Placed(u[c], c, n) /\ Path(u, n, c, u[c], {})
    BY DEF Sound
  <2>1. u[c].dib \in 1 .. n
    BY <1>3, TableEntry
  <2>2. Placed(u[c], c, n) /\ Path(t, n, c, u[c], {})
    <3>1. CASE c = b
      BY <1>4, <3>1
    <3>2. CASE c # b
      <4>1. u[c] = t[c] /\ c \in (0 .. (n - 1)) \ {}
        BY <1>4, <3>2
      <4>2. Placed(t[c], c, n) /\ Path(t, n, c, t[c], {})
        BY <4>1 DEF Sound
      <4>. QED BY <4>1, <4>2
    <3>. QED BY <3>1, <3>2
  <2>3. ASSUME NEW j \in 1 .. (u[c].dib - 1) PROVE Back(c, j, n) \in 0 .. (n - 1)
    <3>1. j \in 1 .. (n - 1)
      BY <2>1
    <3>. QED BY <3>1, Stepping
  <2>4. Path(u, n, c, u[c], {})
    <3>. SUFFICES ASSUME NEW j \in 1 .. (u[c].dib - 1)
                  PROVE u[Back(c, j, n)].dib >= u[c].dib - j
      BY DEF Path
    <3>1. t[Back(c, j, n)].dib >= u[c].dib - j
      BY <2>2 DEF Path
    <3>2. t[Back(c, j, n)].dib <= u[Back(c, j, n)].dib
      BY <2>3, <1>5
    <3>3. u[Back(c, j, n)].dib \in Nat /\ t[Back(c, j, n)].dib \in Nat
      BY <2>3, <1>3, <1>5, TableEntry
    <3>. QED BY <2>1, <3>1, <3>2, <3>3
  <2>. QED BY <2>2, <2>4
<1>. QED BY <1>3, <1>6

\* An item displaces one that is closer to its home, which goes on.
LEMMA PassSwap ==
  ASSUME NEW n \in Nat \ {0, 1}, NEW t \in Table(n), NEW e \in Filled(n), NEW b \in 0 .. (n - 1),
         Sound(t, n, {}), Placed(e, b, n), Path(t, n, b, e, {}),
         t[b].dib # 0, t[b].dib < e.dib,
         NEW u, u = Put(t, b, e), NEW f, f = Swapped(t[b], e)
  PROVE /\ u \in Table(n) /\ f \in Filled(n)
        /\ Sound(u, n, {}) /\ Placed(f, After(b, n), n) /\ Path(u, n, After(b, n), f, {})
<1>1. t[b] \in Filled(n)
  BY TableEntry
<1>2. /\ t[b].dib \in 1 .. n /\ e.dib \in 1 .. n
      /\ f \in Filled(n) /\ f.dib = t[b].dib + 1 /\ f.item = t[b].item
  BY <1>1 DEF Swapped, Filled
<1>3. u \in Table(n) /\ Sound(u, n, {})
  BY Raised
<1>4. \A c \in 0 .. (n - 1) : u[c] = IF c = b THEN e ELSE t[c]
  BY DEF Table, Put
<1>5. \A c \in 0 .. (n - 1) : t[c].dib \in 0 .. n
  BY TableEntry
<1>7. Placed(t[b], b, n) /\ Path(t, n, b, t[b], {})
  BY DEF Sound
<1>8. Placed(f, After(b, n), n)
  BY <1>2, <1>7, Stepping DEF Placed
<1>9. Path(u, n, After(b, n), f, {})
  <2>. SUFFICES ASSUME NEW j \in 1 .. (f.dib - 1)
                PROVE u[Back(After(b, n), j, n)].dib >= f.dib - j
    BY DEF Path
  <2>1. j \in 1 .. (n - 1) /\ Back(After(b, n), j, n) = Back(b, j - 1, n)
    BY <1>2, Stepping DEF Filled
  <2>2. CASE j = 1
    BY <1>2, <1>4, <2>1, <2>2, Stepping
  <2>3. CASE j # 1
    <3>1. j - 1 \in 1 .. (t[b].dib - 1) /\ j - 1 \in 1 .. (n - 1)
      BY <1>2, <2>1, <2>3
    <3>2. t[Back(b, j - 1, n)].dib >= t[b].dib - (j - 1)
      BY <1>7, <3>1 DEF Path
    <3>3. Back(b, j - 1, n) \in 0 .. (n - 1) \ {b}
      BY <3>1, Stepping
    <3>4. u[Back(b, j - 1, n)] = t[Back(b, j - 1, n)] /\ t[Back(b, j - 1, n)].dib \in Nat
      BY <3>3, <1>4, <1>5
    <3>. QED BY <1>2, <2>1, <3>1, <3>2, <3>4
  <2>. QED BY <2>2, <2>3
<1>. QED BY <1>2, <1>3, <1>8, <1>9

LEMMA Onto ==
  ASSUME NEW n \in Nat \ {0}, NEW b \in 0 .. (n - 1), NEW c \in 0 .. (n - 1), b # c
  PROVE \E j \in 1 .. (n - 1) : Back(b, j, n) = c
<1>1. CASE c < b
  BY <1>1 DEF Back
<1>2. CASE c > b
  <2>1. b - c + n \in 1 .. (n - 1) /\ Back(b, b - c + n, n) = c
    BY <1>2 DEF Back
  <2>. QED BY <2>1
<1>. QED BY <1>1, <1>2

\* While there is a free bucket, no item is n away from its home.
LEMMA NotAround ==
  ASSUME NEW n \in Nat \ {0, 1}, NEW t \in Table(n), NEW e \in Filled(n), NEW b \in 0 .. (n - 1),
         Path(t, n, b, e, {}), t[b].dib # 0, NEW c \in 0 .. (n - 1), t[c].dib = 0
  PROVE e.dib < n
<1>. SUFFICES ASSUME e.dib = n PROVE FALSE
  BY DEF Filled
<1>1. PICK j \in 1 .. (n - 1) : Back(b, j, n) = c
  BY Onto
<1>2. t[c].dib >= n - j
  BY <1>1 DEF Path
<1>. QED BY <1>2

\* An item passes one that is no closer to its home.
LEMMA PassOn ==
  ASSUME NEW n \in Nat \ {0, 1}, NEW t \in Table(n), NEW e \in Filled(n), NEW b \in 0 .. (n - 1),
         Placed(e, b, n), Path(t, n, b, e, {}),
         t[b].dib # 0, ~ (t[b].dib < e.dib), NEW c \in 0 .. (n - 1), t[c].dib = 0,
         NEW f, f = [e EXCEPT !.dib = @ + 1]
  PROVE f \in Filled(n) /\ Placed(f, After(b, n), n) /\ Path(t, n, After(b, n), f, {})
<1>1. /\ t[b].dib \in 1 .. n /\ e.dib \in 1 .. (n - 1)
      /\ f \in Filled(n) /\ f.dib = e.dib + 1 /\ f.item = e.item
  <2>1. e.dib < n
    BY NotAround
  <2>2. t[b].dib \in 1 .. n
    BY TableEntry DEF Filled
  <2>. QED BY <2>1, <2>2 DEF Filled
<1>2. Placed(f, After(b, n), n)
  BY <1>1, Stepping DEF Placed
<1>3. Path(t, n, After(b, n), f, {})
  <2>. SUFFICES ASSUME NEW j \in 1 .. (f.dib - 1)
                PROVE t[Back(After(b, n), j, n)].dib >= f.dib - j
    BY DEF Path
  <2>1. j \in 1 .. (n - 1) /\ Back(After(b, n), j, n) = Back(b, j - 1, n)
    BY <1>1, Stepping
  <2>2. CASE j = 1
    BY <1>1, <2>1, <2>2, Stepping
  <2>3. CASE j # 1
    <3>1. j - 1 \in 1 .. (e.dib - 1) /\ j - 1 \in 1 .. (n - 1)
      BY <1>1, <2>1, <2>3
    <3>2. t[Back(b, j - 1, n)].dib >= e.dib - (j - 1)
      BY <3>1 DEF Path
    <3>3. Back(b, j - 1, n) \in 0 .. (n - 1)
      BY <3>1, Stepping
    <3>4. t[Back(b, j - 1, n)].dib \in Nat
      BY <3>3, TableEntry
    <3>. QED BY <1>1, <2>1, <3>1, <3>2, <3>4
  <2>. QED BY <2>2, <2>3
<1>. QED BY <1>1, <1>2, <1>3

\* The items between the home of a key and its bucket are no closer to their homes than
\* an item with the same key would be there.
LEMMA Ahead ==
  ASSUME NEW n \in Nat \ {0, 1}, NEW t \in Table(n), NEW e \in Filled(n), NEW b \in 0 .. (n - 1),
         Sound(t, n, {}), Placed(e, b, n),
         NEW a \in 0 .. (n - 1), t[a].dib # 0, t[a].item.key = e.item.key, e.dib <= t[a].dib
  PROVE IF e.dib = t[a].dib THEN a = b ELSE a # b /\ t[b].dib >= e.dib
<1>1. t[a].dib \in 1 .. n /\ e.dib \in 1 .. n
  BY TableEntry DEF Filled
<1>2. Placed(t[a], a, n) /\ Path(t, n, a, t[a], {})
  BY DEF Sound
<1>3. Back(a, t[a].dib - 1, n) = Back(b, e.dib - 1, n)
  BY <1>2 DEF Placed
<1>4. CASE e.dib = t[a].dib
  BY <1>1, <1>3, <1>4 DEF Back
<1>5. CASE e.dib # t[a].dib
  <2>1. t[a].dib - e.dib \in 1 .. (t[a].dib - 1)
    BY <1>1, <1>5
  <2>2. Back(a, t[a].dib - e.dib, n) = b
    BY <1>1, <1>3, <2>1 DEF Back
  <2>3. t[b].dib >= t[a].dib - (t[a].dib - e.dib)
    BY <1>2, <2>1, <2>2 DEF Path
  <2>4. a # b
    BY <1>1, <1>3, <1>5 DEF Back
  <2>. QED BY <1>1, <1>5, <2>3, <2>4
<1>. QED BY <1>4, <1>5

-----------------------------------------------------------------------------
(* Deletion: a hole that is no part of any path moves on. *)

LEMMA EmptyFits == ASSUME NEW n \in Nat \ {0} PROVE Empty.dib = 0 /\ Empty \in {Empty} \cup Filled(n)
BY DEF Empty

LEMMA Dug ==
  ASSUME NEW n \in Nat \ {0, 1}, NEW t \in Table(n), NEW b \in 0 .. (n - 1), Sound(t, n, {}),
         NEW u, u = [t EXCEPT ![b] = Empty]
  PROVE u \in Table(n) /\ Sound(u, n, {b})
<1>1. u \in Table(n)
  BY EmptyFits DEF Table
<1>2. \A c \in (0 .. (n - 1)) \ {b} : u[c] = t[c]
  BY DEF Table
<1>3. ASSUME NEW c \in (0 .. (n - 1)) \ {b}, u[c].dib # 0
      PROVE Placed(u[c], c, n) /\ Path(u, n, c, u[c], {b})
  <2>1. u[c] = t[c] /\ u[c].dib \in 1 .. n
    BY <1>1, <1>2, <1>3, TableEntry
  <2>2. c \in (0 .. (n - 1)) \ {}
    OBVIOUS
  <2>3. Placed(t[c], c, n) /\ Path(t, n, c, t[c], {})
    BY <1>3, <2>1, <2>2 DEF Sound
  <2>4. ASSUME NEW j \in 1 .. (t[c].dib - 1), Back(c, j, n) \notin {b}
        PROVE u[Back(c, j, n)].dib >= t[c].dib - j
    <3>1. j \in 1 .. (n - 1)
      BY <2>1
    <3>2. Back(c, j, n) \in (0 .. (n - 1)) \ {b}
      BY <2>4, <3>1, Stepping
    <3>. QED BY <1>2, <2>3, <3>2 DEF Path
  <2>. QED BY <2>1, <2>3, <2>4 DEF Path
<1>. QED BY <1>1, <1>3 DEF Sound

LEMMA HoleMoves ==
  ASSUME NEW n \in Nat \ {0, 1}, NEW t \in Table(n), NEW b \in 0 .. (n - 1), Sound(t, n, {b}),
         NEW a, a = After(b, n), t[a].dib > 1, NEW u, u = [t EXCEPT ![b] = Shifted(t[a])]
  PROVE u \in Table(n) /\ Sound(u, n, {a})
<1>1. a \in (0 .. (n - 1)) \ {b}
  BY AfterIs
<1>2. t[a] \in Filled(n) /\ t[a].dib \in 2 .. n
  <2>1. t[a].dib \in 0 .. n /\ (t[a].dib # 0 => t[a] \in Filled(n))
    BY <1>1, TableEntry
  <2>. QED BY <2>1
<1>3. /\ Shifted(t[a]) \in Filled(n) /\ Shifted(t[a]).dib = t[a].dib - 1
      /\ Shifted(t[a]).item = t[a].item
  BY <1>2 DEF Shifted, Filled
<1>4. u \in Table(n)
  BY <1>3 DEF Table
<1>5. \A c \in 0 .. (n - 1) : u[c] = IF c = b THEN Shifted(t[a]) ELSE t[c]
  BY DEF Table
<1>6. Placed(t[a], a, n) /\ Path(t, n, a, t[a], {b})
  <2>1. t[a].dib # 0
    BY <1>2
  <2>. QED BY <1>1, <2>1 DEF Sound
<1>7. ASSUME NEW c \in (0 .. (n - 1)) \ {a}, u[c].dib # 0
      PROVE Placed(u[c], c, n) /\ Path(u, n, c, u[c], {a})
  <2>1. CASE c = b
    <3>1. u[c].dib = t[a].dib - 1 /\ u[c].item = t[a].item
      BY <1>3, <1>5, <2>1
    <3>2. Placed(u[c], c, n)
      <4>1. t[a].dib - 1 \in 1 .. (n - 1)
        BY <1>2
      <4>2. Back(a, t[a].dib - 1, n) = Back(b, t[a].dib - 1 - 1, n)
        BY <4>1, Stepping
      <4>. QED BY <1>6, <2>1, <3>1, <4>2 DEF Placed
    <3>3. ASSUME NEW j \in 1 .. (u[c].dib - 1)
          PROVE u[Back(c, j, n)].dib >= u[c].dib - j
      <4>1. j \in 1 .. (n - 1) /\ j + 1 \in 1 .. (n - 1) /\ j + 1 \in 1 .. (t[a].dib - 1)
        BY <1>2, <3>1
      <4>2. Back(a, j + 1, n) = Back(b, j, n)
        <5>1. Back(a, j + 1, n) = Back(b, (j + 1) - 1, n)
          BY <4>1, Stepping
        <5>. QED BY <4>1, <5>1
      <4>3. Back(b, j, n) \in (0 .. (n - 1)) \ {b}
        BY <4>1, Stepping
      <4>4. t[Back(b, j, n)].dib >= t[a].dib - (j + 1)
        BY <1>6, <4>1, <4>2, <4>3 DEF Path
      <4>5. u[Back(b, j, n)] = t[Back(b, j, n)] /\ t[Back(b, j, n)].dib \in Nat
        BY <1>5, <4>3, TableEntry
      <4>. QED BY <1>2, <2>1, <3>1, <4>1, <4>4, <4>5
    <3>. QED BY <3>2, <3>3 DEF Path
  <2>2. CASE c # b
    <3>1. u[c] = t[c] /\ u[c].dib \in 1 .. n
      BY <1>4, <1>5, <1>7, <2>2, TableEntry
    <3>2. Placed(t[c], c, n) /\ Path(t, n, c, t[c], {b})
      BY <1>7, <2>2, <3>1 DEF Sound
    <3>3. ASSUME NEW j \in 1 .. (t[c].dib - 1), Back(c, j, n) # a
          PROVE u[Back(c, j, n)].dib >= t[c].dib - j
      <4>1. j \in 1 .. (n - 1) /\ Back(c, j, n) \in 0 .. (n - 1)
        <5>1. j \in 1 .. (n - 1)
          BY <3>1
        <5>. QED BY <5>1, Stepping
      <4>2. CASE Back(c, j, n) # b
        BY <1>5, <3>2, <4>1, <4>2 DEF Path
      <4>3. CASE Back(c, j, n) = b
        <5>1. j # 1
          BY <1>1, <1>7, <4>1, <4>3, AfterIs DEF Back
        <5>2. Back(c, j - 1, n) = a
          BY <1>1, <4>1, <4>3, <5>1, AfterIs DEF Back
        <5>3. j - 1 \in 1 .. (t[c].dib - 1)
          BY <3>1, <5>1
        <5>4. t[a].dib >= t[c].dib - (j - 1)
          BY <1>1, <3>2, <5>2, <5>3 DEF Path
        <5>. QED BY <1>2, <1>3, <1>5, <3>1, <4>3, <5>3, <5>4
      <4>. QED BY <4>2, <4>3
    <3>. QED BY <3>1, <3>2, <3>3 DEF Path
  <2>. QED BY <2>1, <2>2
<1>. QED BY <1>4, <1>7 DEF Sound

LEMMA HoleCloses ==
  ASSUME NEW n \in Nat \ {0, 1}, NEW t \in Table(n), NEW b \in 0 .. (n - 1), Sound(t, n, {b}),
         t[After(b, n)].dib <= 1, NEW u, u = [t EXCEPT ![b] = Empty]
  PROVE u \in Table(n) /\ Sound(u, n, {})
<1>1. u \in Table(n)
  BY EmptyFits DEF Table
<1>2. \A c \in 0 .. (n - 1) : u[c] = IF c = b THEN Empty ELSE t[c]
  BY DEF Table
<1>3. ASSUME NEW c \in 0 .. (n - 1), u[c].dib # 0
      PROVE Placed(u[c], c, n) /\ Path(u, n, c, u[c], {})
  <2>1. c # b /\ u[c] = t[c] /\ u[c].dib \in 1 .. n
    BY <1>1, <1>2, <1>3, EmptyFits, TableEntry
  <2>2. Placed(t[c], c, n) /\ Path(t, n, c, t[c], {b})
    BY <1>3, <2>1 DEF Sound
  <2>3. ASSUME NEW j \in 1 .. (t[c].dib - 1)
        PROVE u[Back(c, j, n)].dib >= t[c].dib - j
    <3>1. j \in 1 .. (n - 1)
      BY <2>1
    <3>2. Back(c, j, n) \in 0 .. (n - 1)
      BY <3>1, Stepping
    <3>3. Back(c, j, n) # b
      <4>. SUFFICES ASSUME Back(c, j, n) = b PROVE FALSE
        OBVIOUS
      <4>1. After(b, n) \in (0 .. (n - 1)) \ {b} /\ t[After(b, n)].dib \in Nat
        <5>1. After(b, n) \in (0 .. (n - 1)) \ {b}
          BY AfterIs
        <5>. QED BY <5>1, TableEntry
      <4>2. CASE j = 1
        <5>1. c = After(b, n)
          BY <4>2, AfterIs DEF Back
        <5>. QED BY <2>1, <4>2, <5>1
      <4>3. CASE j # 1
        <5>1. Back(c, j - 1, n) = After(b, n)
          BY <3>1, <4>3, AfterIs DEF Back
        <5>2. j - 1 \in 1 .. (t[c].dib - 1)
          BY <2>1, <4>3
        <5>3. t[After(b, n)].dib >= t[c].dib - (j - 1)
          BY <2>2, <4>1, <5>1, <5>2 DEF Path
        <5>. QED BY <2>1, <4>1, <5>2, <5>3
      <4>. QED BY <4>2, <4>3
    <3>. QED BY <1>2, <2>2, <3>2, <3>3 DEF Path
  <2>. QED BY <2>1, <2>2, <2>3 DEF Path
<1>4. \A c \in (0 .. (n - 1)) \ {} : u[c].dib # 0 =>
         Placed(u[c], c, n) /\ Path(u, n, c, u[c], {})
  BY <1>3
<1>. QED BY <1>1, <1>4 DEF Sound

-----------------------------------------------------------------------------
(* The inductive invariant. *)

\* The sizes that a table with this cap may have.
Doublings(c) ==
  {m \in Nat : \A S \in SUBSET Nat : c \in S /\ (\A x \in S : 2 * x \in S) => m \in S}

Rebuilding == op \in {"resize", "move"}
NewSize == IF arg.value # NULL THEN nbuckets * 2 ELSE nbuckets \div 2
Hole == IF op = "shift" THEN {i} ELSE {}

Shape ==
  /\ cap \in Nat \ {0, 1} /\ nbuckets \in Doublings(cap)
  /\ buckets \in Table(nbuckets)
  /\ oom \in BOOLEAN
  /\ op \in {"idle", "set", "resize", "move", "get", "delete", "shift"}
  /\ arg \in [key : Key \cup {NULL}, value : Value \cup {NULL}]
  /\ op # "idle" => arg.key \in Key
  /\ op = "set" => arg.value # NULL /\ entry \in Filled(nbuckets)
  /\ op \in {"get", "delete", "shift"} => arg.value = NULL
  /\ op \in {"set", "get", "delete", "shift"} => i \in 0 .. (nbuckets - 1)
  /\ IF Rebuilding THEN NewSize \in Doublings(cap) /\ new \in Table(NewSize)
                   ELSE new = <<>> /\ src = 0
  /\ op = "move" => /\ entry \in Filled(NewSize) /\ i \in 0 .. (NewSize - 1)
                    /\ src < nbuckets /\ buckets[src].dib # 0
  /\ src \in 0 .. nbuckets
  /\ spare \in Value \cup {NULL} /\ out.value \in Value \cup {NULL}
  /\ before \in [Key -> Value \cup {NULL}]

Counted ==
  /\ count \in Nat
  /\ count = Cardinality(Used(buckets) \ Hole) + (IF op = "shift" THEN 1 ELSE 0)
  /\ IF Rebuilding
       THEN /\ Cardinality(Used(new)) = Cardinality({b \in Used(buckets) : b < src})
            /\ count + (IF arg.value # NULL THEN 1 ELSE 0) <= GrowAt(NewSize)
       ELSE count + (IF op = "set" THEN 1 ELSE 0) <= GrowAt(nbuckets)

Ordered ==
  /\ Sound(buckets, nbuckets, Hole)
  /\ Rebuilding => Sound(new, NewSize, {})
  /\ op = "set" => Placed(entry, i, nbuckets) /\ Path(buckets, nbuckets, i, entry, {})
  /\ op = "move" => Placed(entry, i, NewSize) /\ Path(new, NewSize, i, entry, {})

\* How far the bucket b is behind the bucket h.
Behind(b, h, n) == IF h <= b THEN b - h ELSE b - h + n

OneEach ==
  /\ Distinct(buckets, Hole)
  /\ Rebuilding => Distinct(new, {})
  /\ op = "set" => \A b \in Used(buckets) :
       buckets[b].item.key = entry.item.key =>
         entry.item.key = arg.key /\ entry.dib <= buckets[b].dib
  /\ op \in {"get", "delete"} => \A b \in Used(buckets) :
       buckets[b].item.key = arg.key =>
         Behind(i, Home(arg.key, nbuckets), nbuckets) < buckets[b].dib
  /\ op = "move" => \A b \in Used(new) : new[b].item.key # entry.item.key

Items(t, hole) == {t[b].item : b \in Used(t) \ hole}

\* The items are those of a map, each of its keys once.
MapOf(I, m) == /\ \A x \in I : m[x.key] = x.value
               /\ \A k \in Key : (\A x \in I : x.key # k) => m[k] = NULL

Stored == [before EXCEPT ![arg.key] = arg.value]

\* The items that resize has taken from the old buckets.
Taken == {buckets[b].item : b \in {c \in Used(buckets) : c < src \/ (c = src /\ op = "move")}}

Promised ==
  /\ op = "set" =>
       IF entry.item.key = arg.key
         THEN entry.item = arg /\ MapOf(Items(buckets, {}), before)
         ELSE before[arg.key] = NULL /\ MapOf(Items(buckets, {}) \cup {entry.item}, Stored)
  /\ op \in {"get", "delete"} => MapOf(Items(buckets, {}), before)
  /\ op = "shift" => MapOf(Items(buckets, Hole), Stored)
  /\ Rebuilding => /\ MapOf(Items(buckets, {}), IF arg.value # NULL THEN before ELSE Stored)
                   /\ Items(new, {}) \cup (IF op = "move" THEN {entry.item} ELSE {}) = Taken
  /\ op = "shift" \/ (Rebuilding /\ arg.value = NULL) => spare = before[arg.key]

IInv == Shape /\ Counted /\ Ordered /\ OneEach /\ Promised

-----------------------------------------------------------------------------
(* Sizes, counts and contents. *)

LEMMA DoublingsBase == ASSUME NEW c \in Nat PROVE c \in Doublings(c)
BY DEF Doublings

LEMMA DoublingsType ==
  ASSUME NEW c \in Nat \ {0, 1}, NEW m \in Doublings(c)
  PROVE m \in Nat \ {0, 1} /\ c <= m
<1>. DEFINE S == {x \in Nat : c <= x}
<1>1. S \in SUBSET Nat /\ c \in S /\ \A x \in S : 2 * x \in S
  OBVIOUS
<1>2. m \in S
  BY <1>1 DEF Doublings
<1>. QED BY <1>2

LEMMA DoublingsUp ==
  ASSUME NEW c \in Nat, NEW m \in Doublings(c) PROVE m * 2 \in Doublings(c)
<1>1. m \in Nat /\ m * 2 = 2 * m
  BY DEF Doublings
<1>2. ASSUME NEW S \in SUBSET Nat, c \in S, \A x \in S : 2 * x \in S PROVE 2 * m \in S
  BY <1>2 DEF Doublings
<1>. QED BY <1>1, <1>2 DEF Doublings

LEMMA DoublingsDown ==
  ASSUME NEW c \in Nat, NEW m \in Doublings(c), m # c
  PROVE m \div 2 \in Doublings(c) /\ m = 2 * (m \div 2)
<1>. DEFINE S == {x \in Doublings(c) : x = c \/ \E y \in Doublings(c) : x = 2 * y}
<1>1. S \in SUBSET Nat /\ c \in S
  BY DoublingsBase DEF Doublings
<1>2. ASSUME NEW x \in S PROVE 2 * x \in S
  <2>1. x \in Doublings(c) /\ x \in Nat
    BY DEF Doublings
  <2>2. x * 2 \in Doublings(c) /\ x * 2 = 2 * x
    BY <2>1, DoublingsUp
  <2>. QED BY <2>1, <2>2
<1>3. m \in S
  <2>1. \A T \in SUBSET Nat : c \in T /\ (\A x \in T : 2 * x \in T) => m \in T
    BY DEF Doublings
  <2>. HIDE DEF S
  <2>. QED BY <1>1, <1>2, <2>1
<1>4. PICK y \in Doublings(c) : m = 2 * y
  BY <1>3
<1>5. y \in Nat /\ m \div 2 = y
  BY <1>4 DEF Doublings
<1>. QED BY <1>4, <1>5

LEMMA UsedIn ==
  ASSUME NEW n \in Nat \ {0}, NEW t \in Table(n)
  PROVE /\ Used(t) \subseteq 0 .. (n - 1)
        /\ IsFiniteSet(Used(t)) /\ Cardinality(Used(t)) \in Nat
<1>1. Used(t) \subseteq 0 .. (n - 1)
  BY DEF Used, Table
<1>2. IsFiniteSet(0 .. (n - 1))
  BY FS_Interval
<1>3. IsFiniteSet(Used(t))
  BY <1>1, <1>2, FS_Subset
<1>. QED BY <1>1, <1>3, FS_CardinalityType

LEMMA FreeBucket ==
  ASSUME NEW n \in Nat \ {0}, NEW t \in Table(n), Cardinality(Used(t)) < n
  PROVE \E c \in 0 .. (n - 1) : t[c].dib = 0
<1>. SUFFICES ASSUME \A c \in 0 .. (n - 1) : t[c].dib # 0 PROVE FALSE
  OBVIOUS
<1>1. Used(t) = 0 .. (n - 1)
  BY DEF Used, Table
<1>2. Cardinality(0 .. (n - 1)) = n
  BY FS_Interval
<1>. QED BY <1>1, <1>2

LEMMA SizeOf == ASSUME NEW n \in Nat, NEW t \in Table(n) PROVE Size(t) = n
<1>1. DOMAIN t = 0 .. (n - 1)
  BY DEF Table
<1>2. Cardinality(0 .. (n - 1)) = n
  BY FS_Interval
<1>. QED BY <1>1, <1>2 DEF Size

LEMMA GrowBelow == ASSUME NEW n \in Nat \ {0, 1} PROVE GrowAt(n) \in Nat /\ GrowAt(n) < n
BY DEF GrowAt

LEMMA GrowDouble == ASSUME NEW n \in Nat \ {0, 1} PROVE GrowAt(n) + 1 <= GrowAt(n * 2)
BY DEF GrowAt

LEMMA GrowHalf ==
  ASSUME NEW n \in Nat \ {0, 1}, n = 2 * (n \div 2), NEW c \in Nat, c <= ShrinkAt(n)
  PROVE c <= GrowAt(n \div 2)
<1>1. n \div ShrinkDivisor <= n \div 3
  BY SizeAssumption
<1>2. c <= n \div 3
  BY <1>1, SizeAssumption DEF ShrinkAt
<1>3. PICK m \in Nat : n = 2 * m /\ n \div 2 = m
  OBVIOUS
<1>4. 3 * c <= 2 * m
  BY <1>2, <1>3
<1>5. c <= (m * 3) \div 4
  BY <1>4
<1>. QED BY <1>3, <1>5 DEF GrowAt

LEMMA FreshTable ==
  ASSUME NEW n \in Nat \ {0}
  PROVE /\ Fresh(n) \in Table(n) /\ Used(Fresh(n)) = {} /\ Sound(Fresh(n), n, {})
        /\ Distinct(Fresh(n), {}) /\ Items(Fresh(n), {}) = {} /\ Cardinality(Used(Fresh(n))) = 0
<1>1. \A b \in 0 .. (n - 1) : Fresh(n)[b] = Empty /\ Fresh(n)[b].dib = 0
  BY DEF Fresh, Empty
<1>2. DOMAIN Fresh(n) = 0 .. (n - 1) /\ Fresh(n) \in Table(n)
  BY DEF Fresh, Table
<1>3. Used(Fresh(n)) = {}
  BY <1>1, <1>2 DEF Used
<1>. QED BY <1>1, <1>2, <1>3, FS_EmptySet DEF Sound, Distinct, Items

\* A map is determined by its items.
LEMMA MapUnique ==
  ASSUME NEW I, NEW m \in [Key -> Value \cup {NULL}], NEW p \in [Key -> Value \cup {NULL}],
         MapOf(I, m), MapOf(I, p)
  PROVE m = p
<1>1. ASSUME NEW k \in Key PROVE m[k] = p[k]
  BY DEF MapOf
<1>. QED BY <1>1

LEMMA ContentsMap ==
  ASSUME NEW n \in Nat \ {0}, NEW t \in Table(n), Distinct(t, {})
  PROVE /\ Contents(t) \in [Key -> Value \cup {NULL}]
        /\ MapOf(Items(t, {}), Contents(t))
<1>. DEFINE at(k) == {b \in DOMAIN t : t[b].dib # 0 /\ t[b].item.key = k}
<1>1. \A k \in Key : Contents(t)[k] = IF at(k) = {} THEN NULL ELSE t[CHOOSE b \in at(k) : TRUE].item.value
  BY DEF Contents
<1>2. \A b \in DOMAIN t : t[b].dib # 0 => t[b].item \in Item
  BY TableEntry DEF Table, Filled
<1>3. ASSUME NEW k \in Key, at(k) # {}
      PROVE (CHOOSE b \in at(k) : TRUE) \in at(k)
  BY <1>3
<1>4. Contents(t) \in [Key -> Value \cup {NULL}]
  <2>1. ASSUME NEW k \in Key PROVE Contents(t)[k] \in Value \cup {NULL}
    BY <1>1, <1>2, <1>3 DEF Item
  <2>2. Contents(t) = [k \in Key |-> Contents(t)[k]]
    BY DEF Contents
  <2>. QED BY <2>1, <2>2
<1>5. ASSUME NEW x \in Items(t, {}) PROVE Contents(t)[x.key] = x.value
  <2>1. PICK b \in DOMAIN t : t[b].dib # 0 /\ t[b].item = x
    BY DEF Items, Used
  <2>2. x.key \in Key /\ b \in at(x.key)
    BY <1>2, <2>1 DEF Item
  <2>3. (CHOOSE c \in at(x.key) : TRUE) = b
    <3>1. \A c \in at(x.key) : c = b
      BY <2>1, <2>2 DEF Distinct
    <3>. QED BY <1>3, <2>2, <3>1
  <2>. QED BY <1>1, <2>1, <2>2, <2>3
<1>6. ASSUME NEW k \in Key, \A x \in Items(t, {}) : x.key # k PROVE Contents(t)[k] = NULL
  <2>1. at(k) = {}
    BY <1>6 DEF Items, Used
  <2>. QED BY <1>1, <2>1
<1>. QED BY <1>4, <1>5, <1>6 DEF MapOf

-----------------------------------------------------------------------------
(* What placing an item does to the items of a table. *)

Rewrite(t, b, e) == [t EXCEPT ![b].item = e.item]

LEMMA PutItems ==
  ASSUME NEW n \in Nat \ {0, 1}, NEW t \in Table(n), NEW e \in Filled(n), NEW b \in 0 .. (n - 1),
         t[b].dib = 0, NEW u, u = Put(t, b, e)
  PROVE /\ Used(u) = Used(t) \cup {b} /\ b \notin Used(t)
        /\ Cardinality(Used(u)) = Cardinality(Used(t)) + 1
        /\ Items(u, {}) = Items(t, {}) \cup {e.item}
<1>1. DOMAIN t = 0 .. (n - 1) /\ DOMAIN u = 0 .. (n - 1)
  BY DEF Table, Put
<1>2. \A c \in 0 .. (n - 1) : u[c] = IF c = b THEN e ELSE t[c]
  BY DEF Table, Put
<1>3. e.dib # 0
  BY DEF Filled
<1>4. Used(u) = Used(t) \cup {b} /\ b \notin Used(t)
  BY <1>1, <1>2, <1>3 DEF Used
<1>5. Cardinality(Used(u)) = Cardinality(Used(t)) + 1
  BY <1>4, UsedIn, FS_AddElement, ZenonT(30)
<1>6. Items(u, {}) = Items(t, {}) \cup {e.item}
  <2>1. \A c \in Used(t) : u[c] = t[c]
    BY <1>1, <1>2, <1>4 DEF Used
  <2>2. u[b] = e
    BY <1>2
  <2>3. ASSUME NEW x PROVE x \in Items(u, {}) <=> x \in Items(t, {}) \/ x = e.item
    <3>1. x \in Items(u, {}) <=> x = e.item \/ \E c \in Used(t) : x = u[c].item
      BY <1>4, <2>2 DEF Items
    <3>2. x \in Items(t, {}) <=> \E c \in Used(t) : x = t[c].item
      BY DEF Items
    <3>. QED BY <2>1, <3>1, <3>2
  <2>. QED BY <2>3
<1>. QED BY <1>4, <1>5, <1>6

LEMMA SwapItems ==
  ASSUME NEW n \in Nat \ {0, 1}, NEW t \in Table(n), NEW e \in Filled(n), NEW b \in 0 .. (n - 1),
         t[b].dib # 0, NEW u, u = Put(t, b, e)
  PROVE /\ Used(u) = Used(t)
        /\ Items(u, {}) \cup {t[b].item} = Items(t, {}) \cup {e.item}
<1>1. DOMAIN t = 0 .. (n - 1) /\ DOMAIN u = 0 .. (n - 1)
  BY DEF Table, Put
<1>2. \A c \in 0 .. (n - 1) : u[c] = IF c = b THEN e ELSE t[c]
  BY DEF Table, Put
<1>3. e.dib # 0
  BY DEF Filled
<1>4. Used(u) = Used(t) /\ b \in Used(t)
  BY <1>1, <1>2, <1>3 DEF Used
<1>5. \A c \in Used(t) : u[c] = IF c = b THEN e ELSE t[c]
  BY <1>1, <1>2 DEF Used
<1>6. ASSUME NEW x
      PROVE x \in Items(u, {}) \/ x = t[b].item <=> x \in Items(t, {}) \/ x = e.item
  <2>1. x \in Items(u, {}) <=> x = e.item \/ \E c \in Used(t) \ {b} : x = t[c].item
    BY <1>4, <1>5 DEF Items
  <2>2. x \in Items(t, {}) <=> x = t[b].item \/ \E c \in Used(t) \ {b} : x = t[c].item
    BY <1>4 DEF Items
  <2>. QED BY <2>1, <2>2
<1>. QED BY <1>4, <1>6

LEMMA StaysDistinct ==
  ASSUME NEW n \in Nat \ {0, 1}, NEW t \in Table(n), NEW e, NEW b \in 0 .. (n - 1),
         Distinct(t, {}), \A a \in Used(t) \ {b} : t[a].item.key # e.item.key,
         NEW u, u = Put(t, b, e)
  PROVE Distinct(u, {})
<1>1. DOMAIN t = 0 .. (n - 1) /\ DOMAIN u = 0 .. (n - 1)
  BY DEF Table, Put
<1>2. \A c \in 0 .. (n - 1) : u[c] = IF c = b THEN e ELSE t[c]
  BY DEF Table, Put
<1>3. \A a \in 0 .. (n - 1) : a # b /\ t[a].dib # 0 => t[a].item.key # e.item.key
  BY <1>1 DEF Used
<1>. QED BY <1>1, <1>2, <1>3 DEF Distinct

LEMMA HomeStart ==
  ASSUME NEW n \in Nat \ {0, 1}, NEW e, e.dib = 1, e.item.key \in Key, NEW t
  PROVE /\ Home(e.item.key, n) \in 0 .. (n - 1)
        /\ Placed(e, Home(e.item.key, n), n) /\ Path(t, n, Home(e.item.key, n), e, {})
BY HomeIn DEF Placed, Path, Back

\* What the invariant says of the table in hand.
LEMMA TableFacts ==
  ASSUME IInv
  PROVE /\ nbuckets \in Nat \ {0, 1} /\ cap \in Nat \ {0, 1} /\ cap <= nbuckets
        /\ buckets \in Table(nbuckets) /\ DOMAIN buckets = 0 .. (nbuckets - 1)
        /\ GrowAt(nbuckets) \in Nat /\ GrowAt(nbuckets) < nbuckets
        /\ IsFiniteSet(Used(buckets)) /\ Cardinality(Used(buckets)) \in Nat
        /\ Used(buckets) = {b \in 0 .. (nbuckets - 1) : buckets[b].dib # 0}
<1>1. nbuckets \in Nat \ {0, 1} /\ cap \in Nat \ {0, 1} /\ cap <= nbuckets
  BY DoublingsType DEF IInv, Shape
<1>2. buckets \in Table(nbuckets) /\ DOMAIN buckets = 0 .. (nbuckets - 1)
  BY DEF IInv, Shape, Table
<1>. QED BY <1>1, <1>2, GrowBelow, UsedIn DEF Used

LEMMA InitInv == ASSUME Init PROVE IInv
<1>. USE DEF Init
<1>1. InitialCap \in Nat \ {0, 1}
  BY SizeAssumption
<1>2. Shape
  <2>1. /\ cap \in Nat \ {0, 1} /\ nbuckets \in Doublings(cap)
        /\ buckets \in Table(nbuckets)
    BY <1>1, DoublingsBase, FreshTable
  <2>2. out.value \in Value \cup {NULL} /\ before \in [Key -> Value \cup {NULL}]
    BY DEF Returned
  <2>3. arg \in [key : Key \cup {NULL}, value : Value \cup {NULL}]
    BY DEF None
  <2>4. op = "idle" /\ ~Rebuilding /\ src \in 0 .. nbuckets /\ spare \in Value \cup {NULL}
    BY <1>1 DEF Rebuilding
  <2>5. new = <<>> /\ src = 0 /\ oom \in BOOLEAN
    OBVIOUS
  <2>. HIDE DEF Init
  <2>. QED BY <2>1, <2>2, <2>3, <2>4, <2>5 DEF Shape
<1>3. Counted
  BY <1>1, FreshTable, GrowBelow DEF Counted, Rebuilding, Hole
<1>4. Ordered
  BY <1>1, FreshTable DEF Ordered, Rebuilding, Hole
<1>5. OneEach
  BY <1>1, FreshTable DEF OneEach, Rebuilding, Hole
<1>6. Promised
  BY DEF Promised, Rebuilding
<1>. QED BY <1>2, <1>3, <1>4, <1>5, <1>6 DEF IInv

\* A new call sees the map that is stored.
LEMMA CallBegins ==
  ASSUME IInv, op = "idle"
  PROVE /\ Distinct(buckets, {}) /\ Sound(buckets, nbuckets, {})
        /\ count = Cardinality(Used(buckets)) /\ count <= GrowAt(nbuckets)
        /\ Contents(buckets) \in [Key -> Value \cup {NULL}]
        /\ MapOf(Items(buckets, {}), Contents(buckets))
<1>1. Distinct(buckets, {}) /\ Sound(buckets, nbuckets, {})
  BY DEF IInv, OneEach, Ordered, Hole
<1>2. count = Cardinality(Used(buckets)) /\ count <= GrowAt(nbuckets)
  <2>1. Used(buckets) \ {} = Used(buckets)
    OBVIOUS
  <2>. QED BY <2>1, TableFacts DEF IInv, Counted, Hole, Rebuilding
<1>. QED BY <1>1, <1>2, TableFacts, ContentsMap

-----------------------------------------------------------------------------
(* A step from the table it leaves: the call returns, sets, or rebuilds. *)

\* The table that a step leaves.
LeftTable ==
  /\ cap \in Nat \ {0, 1} /\ nbuckets \in Doublings(cap) /\ buckets \in Table(nbuckets)
  /\ Sound(buckets, nbuckets, {}) /\ Distinct(buckets, {})
  /\ count \in Nat /\ count = Cardinality(Used(buckets))
  /\ oom \in BOOLEAN

LEMMA UnhurtTable == ASSUME IInv, op # "shift" PROVE LeftTable
<1>1. Used(buckets) \ {} = Used(buckets)
  OBVIOUS
<1>. QED BY <1>1, TableFacts DEF IInv, Shape, Counted, Ordered, OneEach, Hole, LeftTable

LEMMA SameTable == ASSUME LeftTable, UNCHANGED table, oom' \in BOOLEAN PROVE LeftTable'
BY DEF LeftTable, table

LEMMA ReturnInv ==
  ASSUME LeftTable', count' <= GrowAt(nbuckets'),
         NEW call, NEW key, NEW value \in Value \cup {NULL}, Return(call, key, value)
  PROVE IInv'
<1>1. op' = "idle" /\ ~Rebuilding' /\ Hole' = {} /\ new' = <<>> /\ src' = 0
  BY DEF Return, Rebuilding, Hole
<1>2. Shape'
  <2>1. arg' \in [key : Key \cup {NULL}, value : Value \cup {NULL}]
    BY DEF Return, None
  <2>2. before' \in [Key -> Value \cup {NULL}]
    BY DEF Return
  <2>3. spare' \in Value \cup {NULL} /\ out'.value \in Value \cup {NULL}
    BY DEF Return, Returned
  <2>4. src' \in 0 .. nbuckets'
    BY DoublingsType DEF Return, LeftTable
  <2>. QED BY <1>1, <2>1, <2>2, <2>3, <2>4 DEF Shape, LeftTable
<1>3. Counted'
  <2>1. Used(buckets)' \ {} = Used(buckets)'
    OBVIOUS
  <2>. QED BY <1>1, <2>1 DEF Counted, LeftTable
<1>4. Ordered'
  BY <1>1 DEF Ordered, LeftTable
<1>5. OneEach'
  BY <1>1 DEF OneEach, LeftTable
<1>6. Promised'
  BY <1>1 DEF Promised
<1>. QED BY <1>2, <1>3, <1>4, <1>5, <1>6 DEF IInv

LEMMA SetInv ==
  ASSUME LeftTable', count' < GrowAt(nbuckets'),
         arg' \in Item, arg'.value # NULL, StartSet(arg', nbuckets'),
         spare' \in Value \cup {NULL}, out'.value \in Value \cup {NULL},
         before' \in [Key -> Value \cup {NULL}], MapOf(Items(buckets', {}), before')
  PROVE IInv'
<1>1. op' = "set" /\ ~Rebuilding' /\ Hole' = {} /\ new' = <<>> /\ src' = 0
  BY DEF StartSet, Rebuilding, Hole
<1>2. nbuckets' \in Nat \ {0, 1} /\ GrowAt(nbuckets') \in Nat /\ count' \in Nat
  BY DoublingsType, GrowBelow DEF LeftTable
<1>3. /\ entry' = [dib |-> 1, item |-> arg'] /\ entry'.dib = 1 /\ entry'.item = arg'
      /\ i' = Home(arg'.key, nbuckets') /\ arg'.key \in Key
  BY DEF StartSet, Item
<1>4. entry' \in Filled(nbuckets')
  BY <1>2, <1>3 DEF Filled
<1>5. /\ i' \in 0 .. (nbuckets' - 1)
      /\ Placed(entry', i', nbuckets') /\ Path(buckets', nbuckets', i', entry', {})
  BY <1>2, <1>3, HomeStart
<1>6. Shape'
  <2>1. arg' \in [key : Key \cup {NULL}, value : Value \cup {NULL}]
    BY DEF Item
  <2>2. src' \in 0 .. nbuckets'
    BY <1>1, <1>2
  <2>. QED BY <1>1, <1>3, <1>4, <1>5, <2>1, <2>2 DEF Shape, LeftTable
<1>7. Counted'
  <2>1. Used(buckets)' \ {} = Used(buckets)'
    OBVIOUS
  <2>2. count' + 1 <= GrowAt(nbuckets')
    BY <1>2
  <2>. QED BY <1>1, <2>1, <2>2 DEF Counted, LeftTable
<1>8. Ordered'
  BY <1>1, <1>5 DEF Ordered, LeftTable
<1>9. OneEach'
  <2>1. \A b \in Used(buckets') : 1 <= buckets'[b].dib
    <3>. SUFFICES ASSUME NEW b \in Used(buckets') PROVE 1 <= buckets'[b].dib
      OBVIOUS
    <3>1. b \in 0 .. (nbuckets' - 1) /\ buckets'[b].dib # 0
      BY DEF LeftTable, Used, Table
    <3>2. buckets'[b].dib \in 0 .. nbuckets'
      BY <1>2, <3>1, TableEntry DEF LeftTable
    <3>. QED BY <1>2, <3>1, <3>2
  <2>. QED BY <1>1, <1>3, <2>1 DEF OneEach, LeftTable
<1>10. Promised'
  BY <1>1, <1>3 DEF Promised
<1>. QED BY <1>6, <1>7, <1>8, <1>9, <1>10 DEF IInv

\* resize begins.
LEMMA ResizeInv ==
  ASSUME LeftTable', StartResize(NewSize'), NewSize' \in Doublings(cap'),
         count' + (IF arg'.value # NULL THEN 1 ELSE 0) <= GrowAt(NewSize'),
         arg' \in [key : Key, value : Value \cup {NULL}],
         spare' \in Value \cup {NULL}, out'.value \in Value \cup {NULL},
         before' \in [Key -> Value \cup {NULL}],
         MapOf(Items(buckets', {}), IF arg'.value # NULL THEN before' ELSE Stored'),
         arg'.value = NULL => spare' = before'[arg'.key]
  PROVE IInv'
<1>1. op' = "resize" /\ Rebuilding' /\ Hole' = {} /\ new' = Fresh(NewSize') /\ src' = 0
  BY DEF StartResize, Rebuilding, Hole
<1>2. nbuckets' \in Nat \ {0, 1} /\ NewSize' \in Nat \ {0, 1}
  BY DoublingsType DEF LeftTable
<1>3. /\ new' \in Table(NewSize') /\ Sound(new', NewSize', {}) /\ Distinct(new', {})
      /\ Items(new', {}) = {} /\ Cardinality(Used(new')) = 0
  BY <1>1, <1>2, FreshTable
<1>4. Shape'
  <2>1. arg'.key \in Key /\ arg' \in [key : Key \cup {NULL}, value : Value \cup {NULL}]
    OBVIOUS
  <2>2. src' \in 0 .. nbuckets'
    BY <1>1, <1>2
  <2>. QED BY <1>1, <1>3, <2>1, <2>2 DEF Shape, LeftTable
<1>5. \A b \in Used(buckets') : ~ (b < 0) /\ b \in Nat
  BY DEF LeftTable, Used, Table
<1>6. Counted'
  <2>1. Used(buckets)' \ {} = Used(buckets)'
    OBVIOUS
  <2>2. {b \in Used(buckets') : b < src'} = {}
    BY <1>1, <1>5
  <2>3. count' = Cardinality(Used(buckets)' \ {}) + 0
    BY <2>1 DEF LeftTable
  <2>. QED BY <1>1, <1>3, <2>2, <2>3, FS_EmptySet DEF Counted, LeftTable
<1>7. Ordered'
  BY <1>1, <1>3 DEF Ordered, LeftTable
<1>8. OneEach'
  BY <1>1, <1>3 DEF OneEach, LeftTable
<1>9. Promised'
  <2>1. Taken' = {}
    BY <1>1, <1>5 DEF Taken
  <2>. QED BY <1>1, <1>3, <2>1 DEF Promised
<1>. QED BY <1>4, <1>6, <1>7, <1>8, <1>9 DEF IInv

-----------------------------------------------------------------------------
(* The steps of the calls: their beginning. *)

LEMMA SetCallInv ==
  ASSUME IInv, NEW k \in Key, NEW v \in Value, SetCall(k, v) PROVE IInv'
<1>1. /\ op = "idle" /\ UNCHANGED <<table, spare, out>> /\ oom' = FALSE
      /\ before' = Contents(buckets) /\ arg' = [key |-> k, value |-> v]
  BY DEF SetCall, Call
<1>2. LeftTable'
  BY <1>1, UnhurtTable, SameTable
<1>3. v # NULL
  BY NullAssumption
<1>4. /\ arg' \in Item /\ arg'.value # NULL /\ arg' \in [key : Key, value : Value \cup {NULL}]
      /\ spare' \in Value \cup {NULL} /\ out'.value \in Value \cup {NULL}
      /\ before' \in [Key -> Value \cup {NULL}] /\ MapOf(Items(buckets', {}), before')
  BY <1>1, <1>3, CallBegins DEF IInv, Shape, table, Item
<1>5. CASE count = GrowAt(nbuckets)
  <2>1. NewSize' = nbuckets * 2 /\ StartResize(nbuckets * 2)
    BY <1>1, <1>4, <1>5 DEF SetCall, NewSize, table
  <2>2. NewSize' \in Doublings(cap')
    BY <1>1, <2>1, DoublingsUp DEF IInv, Shape, table
  <2>3. count' + 1 <= GrowAt(NewSize')
    BY <1>1, <1>5, <2>1, TableFacts, GrowDouble DEF table
  <2>. QED BY <1>2, <1>4, <2>1, <2>2, <2>3, ResizeInv
<1>6. CASE count # GrowAt(nbuckets)
  <2>1. StartSet(arg', nbuckets')
    BY <1>1, <1>6 DEF SetCall, table
  <2>2. count' < GrowAt(nbuckets')
    BY <1>1, <1>6, CallBegins, TableFacts DEF table
  <2>. QED BY <1>2, <1>4, <2>1, <2>2, SetInv
<1>. QED BY <1>5, <1>6

LEMMA SetFailsInv == ASSUME IInv, NEW k \in Key, SetFails(k) PROVE IInv'
<1>1. op = "idle" /\ UNCHANGED table /\ oom' = TRUE /\ Return("failed", k, NULL)
  BY DEF SetFails
<1>2. LeftTable'
  BY <1>1, UnhurtTable, SameTable
<1>3. count' <= GrowAt(nbuckets')
  BY <1>1, CallBegins DEF table
<1>. QED BY <1>1, <1>2, <1>3, ReturnInv

LEMMA SearchCallInv ==
  ASSUME IInv, NEW k \in Key, GetCall(k) \/ DeleteCall(k) PROVE IInv'
<1>1. /\ op = "idle" /\ UNCHANGED <<table, spare, out, new, src>> /\ oom' \in BOOLEAN
      /\ op' \in {"get", "delete"} /\ i' = Home(k, nbuckets)
      /\ before' = Contents(buckets) /\ arg' = [key |-> k, value |-> NULL]
  BY DEF GetCall, DeleteCall, Call, Search, None, IInv, Shape
<1>2. ~Rebuilding' /\ Hole' = {} /\ ~Rebuilding /\ Hole = {}
  BY <1>1 DEF Rebuilding, Hole
<1>3. i' \in 0 .. (nbuckets - 1)
  BY <1>1, TableFacts, HomeIn
<1>4. Shape'
  BY <1>1, <1>2, <1>3, CallBegins DEF IInv, Shape, table
<1>5. Counted'
  BY <1>1, <1>2 DEF IInv, Counted, table
<1>6. Ordered'
  BY <1>1, <1>2 DEF IInv, Ordered, table
<1>7. OneEach'
  <2>1. ASSUME NEW b \in Used(buckets)
        PROVE Behind(i', Home(k, nbuckets), nbuckets) < buckets[b].dib
    <3>1. buckets[b].dib \in 0 .. nbuckets /\ buckets[b].dib # 0
      BY TableFacts, TableEntry
    <3>. QED BY <1>1, <1>3, <3>1 DEF Behind
  <2>. QED BY <1>1, <1>2, <2>1 DEF IInv, OneEach, table
<1>8. Promised'
  BY <1>1, <1>2, CallBegins DEF Promised, table
<1>. QED BY <1>4, <1>5, <1>6, <1>7, <1>8 DEF IInv

LEMMA ClearInv == ASSUME IInv, NEW update_cap \in BOOLEAN, Clear(update_cap) PROVE IInv'
<1>1. /\ op = "idle" /\ UNCHANGED <<oom, op, locals, out, before>>
      /\ nbuckets' = cap' /\ buckets' = Fresh(cap') /\ count' = 0
      /\ cap' \in Nat \ {0, 1} /\ cap' \in Doublings(cap')
  BY TableFacts, DoublingsBase DEF Clear
<1>2. ~Rebuilding' /\ Hole' = {} /\ ~Rebuilding /\ Hole = {}
  BY <1>1 DEF Rebuilding, Hole
<1>3. /\ buckets' \in Table(nbuckets') /\ Sound(buckets', nbuckets', {}) /\ Distinct(buckets', {})
      /\ Cardinality(Used(buckets')) = 0 /\ Used(buckets') = {}
  BY <1>1, FreshTable
<1>4. Shape'
  <2>1. new' = <<>> /\ src' = src /\ arg' = arg /\ spare' = spare
    BY <1>1, <1>2 DEF IInv, Shape, locals
  <2>2. src' = 0 /\ src' \in 0 .. nbuckets'
    BY <1>1, <1>2, <2>1 DEF IInv, Shape
  <2>. QED BY <1>1, <1>2, <1>3, <2>1, <2>2 DEF IInv, Shape
<1>5. Counted'
  <2>1. Used(buckets)' \ {} = Used(buckets)'
    OBVIOUS
  <2>. QED BY <1>1, <1>2, <1>3, <2>1, GrowBelow DEF Counted
<1>6. Ordered'
  BY <1>1, <1>2, <1>3 DEF Ordered
<1>7. OneEach'
  BY <1>1, <1>2, <1>3 DEF OneEach
<1>8. Promised'
  BY <1>1, <1>2 DEF Promised
<1>. QED BY <1>4, <1>5, <1>6, <1>7, <1>8 DEF IInv

-----------------------------------------------------------------------------
(* The rounds of hashmap_set. *)

LEMMA SetFacts ==
  ASSUME IInv, op = "set"
  PROVE /\ entry \in Filled(nbuckets) /\ entry.item \in Item /\ entry.dib \in 1 .. nbuckets
        /\ arg \in Item /\ arg.key \in Key /\ arg.value \in Value /\ arg.value # NULL
        /\ i \in 0 .. (nbuckets - 1) /\ buckets[i].dib \in 0 .. nbuckets
        /\ LeftTable /\ ~Rebuilding /\ Hole = {} /\ new = <<>> /\ src = 0
        /\ Placed(entry, i, nbuckets) /\ Path(buckets, nbuckets, i, entry, {})
        /\ count < GrowAt(nbuckets) /\ Cardinality(Used(buckets)) < nbuckets
        /\ Stored \in [Key -> Value \cup {NULL}]
        /\ before \in [Key -> Value \cup {NULL}]
        /\ \A k \in Key : Stored[k] = IF k = arg.key THEN arg.value ELSE before[k]
<1>1. ~Rebuilding /\ Hole = {} /\ new = <<>> /\ src = 0
  BY DEF Rebuilding, Hole, IInv, Shape
<1>2. LeftTable
  BY UnhurtTable
<1>3. entry \in Filled(nbuckets) /\ i \in 0 .. (nbuckets - 1) /\ arg.key \in Key /\ arg.value # NULL
  BY DEF IInv, Shape
<1>4. arg \in Item /\ arg.value \in Value
  BY <1>3 DEF IInv, Shape, Item
<1>5. entry.item \in Item /\ entry.dib \in 1 .. nbuckets
  BY <1>3 DEF Filled
<1>6. Placed(entry, i, nbuckets) /\ Path(buckets, nbuckets, i, entry, {})
  BY DEF IInv, Ordered
<1>7. count < GrowAt(nbuckets) /\ Cardinality(Used(buckets)) < nbuckets
  <2>1. count + 1 <= GrowAt(nbuckets)
    BY <1>1 DEF IInv, Counted
  <2>. QED BY <1>2, <2>1, TableFacts DEF LeftTable
<1>8. buckets[i].dib \in 0 .. nbuckets
  BY <1>3, TableFacts, TableEntry
<1>9. /\ Stored \in [Key -> Value \cup {NULL}] /\ before \in [Key -> Value \cup {NULL}]
      /\ \A k \in Key : Stored[k] = IF k = arg.key THEN arg.value ELSE before[k]
  BY <1>4 DEF Stored, IInv, Shape
<1>. QED BY <1>1, <1>2, <1>3, <1>4, <1>5, <1>6, <1>7, <1>8, <1>9

\* The key in hand is not in the table, if it is not met before a bucket to take.
LEMMA NotStored ==
  ASSUME IInv, op = "set", buckets[i].dib < entry.dib, NEW b \in Used(buckets) \ {i}
  PROVE buckets[b].item.key # entry.item.key
<1>. SUFFICES ASSUME buckets[b].item.key = entry.item.key PROVE FALSE
  OBVIOUS
<1>1. b \in 0 .. (nbuckets - 1) /\ buckets[b].dib # 0
  BY TableFacts
<1>2. entry.dib <= buckets[b].dib
  BY DEF IInv, OneEach
<1>3. IF entry.dib = buckets[b].dib THEN b = i ELSE b # i /\ buckets[i].dib >= entry.dib
  <2>1. nbuckets \in Nat \ {0, 1} /\ buckets \in Table(nbuckets) /\ Sound(buckets, nbuckets, {})
    BY TableFacts, SetFacts DEF LeftTable
  <2>. QED BY <1>1, <1>2, <2>1, SetFacts, Ahead
<1>. QED BY <1>3, SetFacts

LEMMA InsertInv ==
  ASSUME IInv, Insert
  PROVE IInv' /\ Contents(buckets') = Stored /\ before[arg.key] = NULL
<1>1. /\ op = "set" /\ buckets[i].dib = 0 /\ buckets' = [buckets EXCEPT ![i] = entry]
      /\ count' = count + 1 /\ Return("set", arg.key, NULL) /\ UNCHANGED <<cap, nbuckets, oom>>
  BY DEF Insert
<1>2. nbuckets \in Nat \ {0, 1} /\ buckets \in Table(nbuckets) /\ Sound(buckets, nbuckets, {})
  BY <1>1, TableFacts, SetFacts DEF LeftTable
<1>3. buckets' \in Table(nbuckets) /\ Sound(buckets', nbuckets, {})
  <2>1. buckets[i].dib < entry.dib
    BY <1>1, SetFacts
  <2>. QED BY <1>1, <1>2, <2>1, SetFacts, Raised DEF Put
<1>4. /\ Cardinality(Used(buckets')) = Cardinality(Used(buckets)) + 1
      /\ Items(buckets', {}) = Items(buckets, {}) \cup {entry.item}
      /\ i \notin Used(buckets)
  <2>1. entry \in Filled(nbuckets) /\ i \in 0 .. (nbuckets - 1)
    BY <1>1, SetFacts
  <2>2. buckets[i].dib = 0 /\ buckets' = Put(buckets, i, entry)
    BY <1>1 DEF Put
  <2>. QED BY <1>2, <2>1, <2>2, PutItems
<1>5. \A b \in Used(buckets) : buckets[b].item.key # entry.item.key
  <2>1. buckets[i].dib < entry.dib
    BY <1>1, SetFacts
  <2>. QED BY <1>1, <1>4, <2>1, NotStored
<1>6. Distinct(buckets', {})
  BY <1>1, <1>2, <1>5, SetFacts, StaysDistinct DEF LeftTable, Put
<1>7. LeftTable' /\ count' <= GrowAt(nbuckets')
  BY <1>1, <1>3, <1>4, <1>6, SetFacts, TableFacts DEF LeftTable
<1>8. MapOf(Items(buckets', {}), Stored) /\ before[arg.key] = NULL
  <2>1. CASE entry.item.key = arg.key
    <3>1. entry.item = arg /\ MapOf(Items(buckets, {}), before)
      BY <1>1, <2>1 DEF IInv, Promised
    <3>2. \A x \in Items(buckets, {}) : x.key # arg.key
      BY <1>5, <2>1 DEF Items
    <3>3. /\ arg.key \in Key /\ arg \in Item
          /\ \A k \in Key : Stored[k] = IF k = arg.key THEN arg.value ELSE before[k]
      BY <1>1, SetFacts
    <3>4. \A x \in Items(buckets, {}) : x \in Item
      BY <1>2, TableEntry, UsedIn DEF Items, Used, Filled
    <3>. QED BY <1>4, <3>1, <3>2, <3>3, <3>4 DEF MapOf, Item
  <2>2. CASE entry.item.key # arg.key
    BY <1>1, <1>4, <2>2 DEF IInv, Promised
  <2>. QED BY <2>1, <2>2
<1>9. Contents(buckets') = Stored
  <2>1. Stored \in [Key -> Value \cup {NULL}]
    BY <1>1, SetFacts
  <2>. QED BY <1>2, <1>3, <1>6, <1>8, <2>1, ContentsMap, MapUnique
<1>. QED BY <1>1, <1>7, <1>8, <1>9, ReturnInv

\* An item is replaced by one with the same key.
LEMMA Rewritten ==
  ASSUME NEW n \in Nat \ {0, 1}, NEW t \in Table(n), NEW e \in Filled(n), NEW b \in 0 .. (n - 1),
         Sound(t, n, {}), Distinct(t, {}), t[b].dib # 0, t[b].item.key = e.item.key,
         NEW u, u = Rewrite(t, b, e)
  PROVE /\ u \in Table(n) /\ Sound(u, n, {}) /\ Distinct(u, {}) /\ Used(u) = Used(t)
        /\ \A x : x \in Items(u, {}) <=> x = e.item \/ (x \in Items(t, {}) /\ x.key # e.item.key)
<1>1. t[b] \in Filled(n)
  BY TableEntry
<1>2. /\ u[b] \in Filled(n) /\ u[b].dib = t[b].dib /\ u[b].item = e.item
  BY <1>1 DEF Filled, Table, Rewrite
<1>3. u \in Table(n)
  <2>1. u = Put(t, b, u[b])
    BY DEF Table, Rewrite, Put
  <2>. QED BY <1>2, <2>1 DEF Table, Put
<1>4. \A c \in 0 .. (n - 1) : c # b => u[c] = t[c]
  BY DEF Table, Rewrite
<1>5. \A c \in 0 .. (n - 1) : u[c].dib = t[c].dib /\ u[c].item.key = t[c].item.key
  BY <1>2, <1>4
<1>6. DOMAIN t = 0 .. (n - 1) /\ DOMAIN u = 0 .. (n - 1)
  BY <1>3 DEF Table
<1>7. Used(u) = Used(t) /\ b \in Used(t) /\ Distinct(u, {})
  BY <1>5, <1>6 DEF Used, Distinct
<1>8. ASSUME NEW c \in 0 .. (n - 1), u[c].dib # 0
      PROVE Placed(u[c], c, n) /\ Path(u, n, c, u[c], {})
  <2>1. Placed(t[c], c, n) /\ Path(t, n, c, t[c], {}) /\ t[c].dib \in 1 .. n
    BY <1>5, <1>8, TableEntry DEF Sound
  <2>2. ASSUME NEW j \in 1 .. (u[c].dib - 1) PROVE u[Back(c, j, n)].dib >= u[c].dib - j
    <3>1. j \in 1 .. (t[c].dib - 1) /\ u[c].dib = t[c].dib
      BY <1>5
    <3>2. j \in 1 .. (n - 1)
      BY <2>1, <3>1
    <3>3. Back(c, j, n) \in 0 .. (n - 1)
      BY <3>2, Stepping
    <3>. QED BY <1>5, <2>1, <3>1, <3>3 DEF Path
  <2>. QED BY <1>5, <2>1, <2>2 DEF Placed, Path
<1>9. Sound(u, n, {})
  BY <1>8 DEF Sound
<1>10. ASSUME NEW x
       PROVE x \in Items(u, {}) <=> x = e.item \/ (x \in Items(t, {}) /\ x.key # e.item.key)
  <2>1. x \in Items(u, {}) <=> x = e.item \/ \E c \in Used(t) \ {b} : x = t[c].item
    <3>1. \A c \in Used(t) \ {b} : u[c] = t[c]
      BY <1>4, <1>6 DEF Used
    <3>2. x \in Items(u, {}) <=> x = u[b].item \/ \E c \in Used(t) \ {b} : x = u[c].item
      BY <1>7 DEF Items
    <3>. QED BY <1>2, <3>1, <3>2
  <2>2. x \in Items(t, {}) <=> x = t[b].item \/ \E c \in Used(t) \ {b} : x = t[c].item
    BY <1>7 DEF Items
  <2>3. \A c \in Used(t) \ {b} : t[c].item.key # e.item.key
    BY <1>7 DEF Distinct, Used
  <2>. QED BY <2>1, <2>2, <2>3
<1>. QED BY <1>3, <1>7, <1>9, <1>10

LEMMA ReplaceInv ==
  ASSUME IInv, Replace
  PROVE IInv' /\ Contents(buckets') = Stored /\ before[arg.key] = buckets[i].item.value
<1>1. /\ op = "set" /\ buckets[i].dib # 0 /\ buckets[i].item.key = entry.item.key
      /\ buckets' = [buckets EXCEPT ![i].item = entry.item]
      /\ Return("set", arg.key, buckets[i].item.value) /\ UNCHANGED <<cap, nbuckets, count, oom>>
  BY DEF Replace
<1>2. /\ nbuckets \in Nat \ {0, 1} /\ buckets \in Table(nbuckets)
      /\ Sound(buckets, nbuckets, {}) /\ Distinct(buckets, {})
  BY <1>1, TableFacts, SetFacts DEF LeftTable
<1>3. i \in Used(buckets)
  BY <1>1, TableFacts, SetFacts
<1>4. entry.item = arg /\ MapOf(Items(buckets, {}), before)
  BY <1>1, <1>3 DEF IInv, OneEach, Promised
<1>5. /\ buckets' \in Table(nbuckets) /\ Sound(buckets', nbuckets, {}) /\ Distinct(buckets', {})
      /\ Used(buckets') = Used(buckets)
      /\ \A x : x \in Items(buckets', {}) <=>
                  x = entry.item \/ (x \in Items(buckets, {}) /\ x.key # entry.item.key)
  <2>1. entry \in Filled(nbuckets) /\ i \in 0 .. (nbuckets - 1)
    BY <1>1, SetFacts
  <2>2. /\ buckets[i].dib # 0 /\ buckets[i].item.key = entry.item.key
        /\ buckets' = Rewrite(buckets, i, entry)
    BY <1>1 DEF Rewrite
  <2>. QED BY <1>2, <2>1, <2>2, Rewritten
<1>6. LeftTable' /\ count' <= GrowAt(nbuckets')
  BY <1>1, <1>5, SetFacts, TableFacts DEF LeftTable
<1>7. before[arg.key] = buckets[i].item.value
  BY <1>1, <1>3, <1>4 DEF MapOf, Items
<1>8. buckets[i].item.value \in Value \cup {NULL}
  BY <1>1, <1>2, SetFacts, TableEntry DEF Filled, Item
<1>9. MapOf(Items(buckets', {}), Stored)
  <2>. \A k \in Key : Stored[k] = IF k = arg.key THEN arg.value ELSE before[k]
    BY <1>1, SetFacts
  <2>1. ASSUME NEW x \in Items(buckets', {}) PROVE Stored[x.key] = x.value
    <3>1. CASE x = entry.item
      BY <1>1, <1>4, <3>1, SetFacts
    <3>2. CASE x # entry.item
      <4>1. x \in Items(buckets, {}) /\ x.key # arg.key
        BY <1>4, <1>5, <3>2
      <4>2. x.key \in Key
        BY <1>2, <4>1, UsedIn, TableEntry DEF Items, Used, Filled, Item
      <4>. QED BY <1>4, <4>1, <4>2 DEF MapOf
    <3>. QED BY <3>1, <3>2
  <2>2. ASSUME NEW k \in Key, \A x \in Items(buckets', {}) : x.key # k PROVE Stored[k] = NULL
    <3>1. k # arg.key
      BY <1>4, <1>5, <2>2
    <3>2. \A x \in Items(buckets, {}) : x.key # k
      BY <1>4, <1>5, <2>2, <3>1
    <3>. QED BY <1>4, <3>1, <3>2 DEF MapOf
  <2>. QED BY <2>1, <2>2 DEF MapOf
<1>10. Contents(buckets') = Stored
  <2>1. Stored \in [Key -> Value \cup {NULL}]
    BY <1>1, SetFacts
  <2>. QED BY <1>2, <1>5, <1>9, <2>1, ContentsMap, MapUnique
<1>. QED BY <1>1, <1>6, <1>7, <1>8, <1>10, ReturnInv

\* An item of a new key joins a map, or the only item of a key leaves it.
LEMMA MapGains ==
  ASSUME NEW I \in SUBSET Item, NEW x \in Item, \A y \in I : y.key # x.key,
         NEW m, MapOf(I, m), NEW p, \A k \in Key : p[k] = IF k = x.key THEN x.value ELSE m[k]
  PROVE m[x.key] = NULL /\ MapOf(I \cup {x}, p)
<1>1. x.key \in Key /\ \A y \in I : y.key \in Key
  BY DEF Item
<1>. QED BY <1>1 DEF MapOf

LEMMA MapLoses ==
  ASSUME NEW J \in SUBSET Item, NEW x \in J, NEW m, MapOf(J, m),
         NEW I, \A y : y \in I <=> y \in J /\ y.key # x.key, \A y \in J : y.key = x.key => y = x,
         NEW p, p[x.key] = NULL, \A k \in Key : k # x.key => p[k] = m[k]
  PROVE m[x.key] = x.value /\ MapOf(I, p)
<1>1. x.key \in Key /\ \A y \in J : y.key \in Key
  BY DEF Item
<1>2. ASSUME NEW k \in Key, \A y \in I : y.key # k PROVE p[k] = NULL
  BY <1>1, <1>2 DEF MapOf
<1>. QED BY <1>1, <1>2 DEF MapOf

LEMMA ItemsIn ==
  ASSUME NEW n \in Nat \ {0}, NEW t \in Table(n), NEW hole PROVE Items(t, hole) \in SUBSET Item
<1>1. ASSUME NEW x \in Items(t, hole) PROVE x \in Item
  <2>1. PICK b \in Used(t) \ hole : x = t[b].item
    BY DEF Items
  <2>2. b \in 0 .. (n - 1) /\ t[b].dib # 0
    BY <2>1, UsedIn DEF Used
  <2>3. t[b] \in Filled(n)
    BY <2>2, TableEntry
  <2>. QED BY <2>1, <2>3 DEF Filled
<1>. QED BY <1>1

\* The loop goes on, with an item in hand.
LEMMA SetGoesOn ==
  ASSUME IInv, op = "set", UNCHANGED <<cap, nbuckets, count, oom, op, arg, new, src, spare, out, before>>,
         LeftTable', i' \in 0 .. (nbuckets - 1), entry' \in Filled(nbuckets),
         Placed(entry', i', nbuckets), Path(buckets', nbuckets, i', entry', {}),
         \A b \in Used(buckets') : buckets'[b].item.key = entry'.item.key =>
           entry'.item.key = arg.key /\ entry'.dib <= buckets'[b].dib,
         IF entry'.item.key = arg.key
           THEN entry'.item = arg /\ MapOf(Items(buckets', {}), before)
           ELSE before[arg.key] = NULL /\ MapOf(Items(buckets', {}) \cup {entry'.item}, Stored)
  PROVE IInv'
<1>1. ~Rebuilding /\ Hole = {} /\ ~Rebuilding' /\ Hole' = {} /\ op' = "set"
  BY DEF Rebuilding, Hole
<1>2. Shape'
  BY <1>1 DEF IInv, Shape, LeftTable
<1>3. Counted'
  <2>1. Used(buckets)' \ {} = Used(buckets)'
    OBVIOUS
  <2>2. count + 1 <= GrowAt(nbuckets)
    BY <1>1 DEF IInv, Counted
  <2>. QED BY <1>1, <2>1, <2>2 DEF Counted, LeftTable
<1>4. Ordered'
  BY <1>1 DEF Ordered, LeftTable
<1>5. OneEach'
  BY <1>1 DEF OneEach, LeftTable
<1>6. Promised'
  <2>1. Stored' = Stored
    BY DEF Stored
  <2>. QED BY <1>1, <2>1 DEF Promised
<1>. QED BY <1>2, <1>3, <1>4, <1>5, <1>6 DEF IInv

LEMMA SetPassOn ==
  ASSUME IInv, SetPass, ~ (buckets[i].dib < entry.dib) PROVE IInv'
<1>1. /\ op = "set" /\ buckets[i].dib # 0 /\ buckets[i].item.key # entry.item.key
      /\ entry' = [entry EXCEPT !.dib = @ + 1] /\ UNCHANGED buckets /\ i' = After(i, nbuckets)
      /\ UNCHANGED <<cap, nbuckets, count, oom, op, arg, new, src, spare, out, before>>
  BY DEF SetPass, PassBy
<1>2. /\ nbuckets \in Nat \ {0, 1} /\ buckets \in Table(nbuckets) /\ Sound(buckets, nbuckets, {})
      /\ entry \in Filled(nbuckets) /\ i \in 0 .. (nbuckets - 1)
      /\ Placed(entry, i, nbuckets) /\ Path(buckets, nbuckets, i, entry, {})
      /\ ~ (buckets[i].dib < entry.dib) /\ buckets[i].dib # 0
  BY <1>1, TableFacts, SetFacts DEF LeftTable
<1>3. PICK c \in 0 .. (nbuckets - 1) : buckets[c].dib = 0
  BY <1>1, <1>2, FreeBucket, SetFacts
<1>4. entry' \in Filled(nbuckets) /\ Placed(entry', i', nbuckets) /\ Path(buckets, nbuckets, i', entry', {})
  BY <1>1, <1>2, <1>3, PassOn
<1>5. i' \in 0 .. (nbuckets - 1)
  BY <1>1, <1>2, AfterIs
<1>6. entry'.dib = entry.dib + 1 /\ entry'.item = entry.item /\ entry.dib \in Nat
  BY <1>1, <1>2 DEF Filled
<1>7. LeftTable'
  BY <1>1, SetFacts, SameTable DEF table, LeftTable
<1>8. ASSUME NEW b \in Used(buckets), buckets[b].item.key = entry.item.key
      PROVE entry.item.key = arg.key /\ entry.dib + 1 <= buckets[b].dib
  <2>1. entry.item.key = arg.key /\ entry.dib <= buckets[b].dib
    BY <1>1, <1>8 DEF IInv, OneEach
  <2>2. b \in 0 .. (nbuckets - 1) /\ buckets[b].dib # 0
    BY TableFacts
  <2>3. IF entry.dib = buckets[b].dib THEN b = i ELSE b # i /\ buckets[i].dib >= entry.dib
    BY <1>2, <1>8, <2>1, <2>2, Ahead
  <2>4. entry.dib # buckets[b].dib
    BY <1>1, <1>8, <2>3
  <2>5. buckets[b].dib \in Nat
    BY <1>2, <2>2, TableEntry
  <2>. QED BY <1>6, <2>1, <2>4, <2>5
<1>9. IF entry.item.key = arg.key
        THEN entry.item = arg /\ MapOf(Items(buckets, {}), before)
        ELSE before[arg.key] = NULL /\ MapOf(Items(buckets, {}) \cup {entry.item}, Stored)
  BY <1>1 DEF IInv, Promised
<1>. QED BY <1>1, <1>4, <1>5, <1>6, <1>7, <1>8, <1>9, SetGoesOn

LEMMA SetPassSwap ==
  ASSUME IInv, SetPass, buckets[i].dib < entry.dib PROVE IInv'
<1>1. /\ op = "set" /\ buckets[i].dib # 0 /\ buckets[i].item.key # entry.item.key
      /\ entry' = Swapped(buckets[i], entry) /\ buckets' = [buckets EXCEPT ![i] = entry]
      /\ i' = After(i, nbuckets)
      /\ UNCHANGED <<cap, nbuckets, count, oom, op, arg, new, src, spare, out, before>>
  BY DEF SetPass, PassBy
<1>2. /\ nbuckets \in Nat \ {0, 1} /\ buckets \in Table(nbuckets) /\ Sound(buckets, nbuckets, {})
      /\ entry \in Filled(nbuckets) /\ i \in 0 .. (nbuckets - 1)
      /\ Placed(entry, i, nbuckets) /\ Path(buckets, nbuckets, i, entry, {})
      /\ buckets[i].dib < entry.dib /\ buckets[i].dib # 0 /\ Distinct(buckets, {})
  BY <1>1, TableFacts, SetFacts DEF LeftTable
<1>3. /\ buckets' \in Table(nbuckets) /\ entry' \in Filled(nbuckets)
      /\ Sound(buckets', nbuckets, {}) /\ Placed(entry', i', nbuckets)
      /\ Path(buckets', nbuckets, i', entry', {})
  BY <1>1, <1>2, PassSwap DEF Put
<1>4. i' \in 0 .. (nbuckets - 1)
  BY <1>1, <1>2, AfterIs
<1>5. entry'.item = buckets[i].item /\ buckets[i].item \in Item /\ entry.item \in Item
  <2>1. buckets[i] \in Filled(nbuckets)
    BY <1>2, TableEntry
  <2>. QED BY <1>1, <1>2, <2>1 DEF Swapped, Filled
<1>6. /\ Used(buckets') = Used(buckets)
      /\ Items(buckets', {}) \cup {entry'.item} = Items(buckets, {}) \cup {entry.item}
  <2>1. buckets' = Put(buckets, i, entry)
    BY <1>1 DEF Put
  <2>. QED BY <1>2, <1>5, <2>1, SwapItems
<1>7. \A b \in Used(buckets) \ {i} : buckets[b].item.key # entry.item.key
  BY <1>1, NotStored
<1>8. Distinct(buckets', {})
  BY <1>1, <1>2, <1>7, StaysDistinct DEF Put
<1>9. LeftTable'
  BY <1>1, <1>3, <1>6, <1>8, SetFacts DEF LeftTable
<1>10. /\ i \in Used(buckets)
       /\ \A b \in Used(buckets) : b # i => buckets'[b] = buckets[b]
       /\ buckets'[i] = entry
  BY <1>1, <1>2, TableFacts
<1>11. ASSUME NEW b \in Used(buckets') PROVE buckets'[b].item.key # entry'.item.key
  <2>1. CASE b = i
    BY <1>1, <1>5, <1>10, <2>1
  <2>2. CASE b # i
    <3>1. b \in Used(buckets) /\ buckets'[b] = buckets[b]
      BY <1>6, <1>10, <2>2
    <3>2. buckets[b].item.key # buckets[i].item.key
      BY <1>2, <1>10, <2>2, <3>1 DEF Distinct, Used
    <3>. QED BY <1>5, <3>1, <3>2
  <2>. QED BY <2>1, <2>2
<1>12. /\ \A y \in Items(buckets', {}) : y.key # entry'.item.key
       /\ Items(buckets', {}) \in SUBSET Item /\ Items(buckets, {}) \in SUBSET Item
  BY <1>2, <1>3, <1>11, ItemsIn DEF Items
<1>13. /\ arg \in Item /\ arg.key \in Key
       /\ \A k \in Key : Stored[k] = IF k = arg.key THEN arg.value ELSE before[k]
  BY <1>1, SetFacts
<1>14. CASE entry.item.key = arg.key
  <2>1. entry.item = arg /\ MapOf(Items(buckets, {}), before)
    BY <1>1, <1>14 DEF IInv, Promised
  <2>2. \A y \in Items(buckets, {}) : y.key # arg.key
    BY <1>1, <1>7, <1>14 DEF Items
  <2>3. before[arg.key] = NULL /\ MapOf(Items(buckets, {}) \cup {arg}, Stored)
    <3>1. Items(buckets, {}) \in SUBSET Item /\ arg \in Item /\ MapOf(Items(buckets, {}), before)
      BY <1>12, <1>13, <2>1
    <3>2. \A k \in Key : Stored[k] = IF k = arg.key THEN arg.value ELSE before[k]
      BY <1>13
    <3>. QED BY <2>2, <3>1, <3>2, MapGains
  <2>4. entry'.item.key # arg.key
    BY <1>1, <1>5, <1>14
  <2>. QED BY <1>1, <1>3, <1>4, <1>6, <1>9, <1>11, <2>1, <2>3, <2>4, SetGoesOn
<1>15. CASE entry.item.key # arg.key
  <2>1. before[arg.key] = NULL /\ MapOf(Items(buckets', {}) \cup {entry'.item}, Stored)
    BY <1>1, <1>6, <1>15 DEF IInv, Promised
  <2>2. ASSUME entry'.item.key = arg.key
        PROVE entry'.item = arg /\ MapOf(Items(buckets', {}), before)
    <3>1. /\ before[entry'.item.key] = NULL
          /\ \A k \in Key : k # entry'.item.key => before[k] = Stored[k]
      BY <1>13, <2>1, <2>2
    <3>2. Stored[entry'.item.key] = entry'.item.value /\ MapOf(Items(buckets', {}), before)
      <4>. DEFINE J == Items(buckets', {}) \cup {entry'.item}
      <4>1. /\ J \in SUBSET Item /\ entry'.item \in J /\ MapOf(J, Stored)
            /\ \A y : y \in Items(buckets', {}) <=> y \in J /\ y.key # entry'.item.key
            /\ \A y \in J : y.key = entry'.item.key => y = entry'.item
        BY <1>5, <1>12, <2>1
      <4>. HIDE DEF J
      <4>. QED BY <3>1, <4>1, MapLoses
    <3>3. entry'.item.value = arg.value
      BY <1>13, <2>2, <3>2
    <3>4. entry'.item = arg
      BY <1>5, <1>13, <2>2, <3>3 DEF Item
    <3>. QED BY <3>2, <3>4
  <2>. QED BY <1>1, <1>3, <1>4, <1>9, <1>11, <2>1, <2>2, SetGoesOn
<1>. QED BY <1>14, <1>15

LEMMA SetPassInv == ASSUME IInv, SetPass PROVE IInv'
BY SetPassOn, SetPassSwap

-----------------------------------------------------------------------------
(* The rounds of resize. *)

\* The old buckets that resize is through with.
Passed == {b \in Used(buckets) : b < src}

LEMMA RebuildFacts ==
  ASSUME IInv, Rebuilding
  PROVE /\ NewSize \in Nat \ {0, 1} /\ NewSize \in Doublings(cap) /\ new \in Table(NewSize)
        /\ DOMAIN new = 0 .. (NewSize - 1) /\ Size(new) = NewSize
        /\ LeftTable /\ Hole = {} /\ src \in 0 .. nbuckets /\ src \in Nat
        /\ arg.key \in Key /\ arg.value \in Value \cup {NULL}
        /\ Sound(new, NewSize, {}) /\ Distinct(new, {})
        /\ Cardinality(Used(new)) = Cardinality(Passed)
        /\ IsFiniteSet(Passed) /\ Cardinality(Passed) \in Nat
        /\ count <= GrowAt(NewSize) /\ GrowAt(NewSize) \in Nat /\ GrowAt(NewSize) < NewSize
        /\ before \in [Key -> Value \cup {NULL}]
<1>1. op # "shift" /\ Hole = {} /\ op # "idle"
  BY DEF Rebuilding, Hole
<1>2. /\ NewSize \in Doublings(cap) /\ new \in Table(NewSize) /\ src \in 0 .. nbuckets
      /\ arg.key \in Key /\ arg.value \in Value \cup {NULL}
      /\ before \in [Key -> Value \cup {NULL}]
  BY <1>1 DEF IInv, Shape
<1>3. NewSize \in Nat \ {0, 1} /\ nbuckets \in Nat
  BY <1>2, TableFacts, DoublingsType
<1>4. DOMAIN new = 0 .. (NewSize - 1) /\ Size(new) = NewSize
  BY <1>2, <1>3, SizeOf DEF Table
<1>5. LeftTable
  BY <1>1, UnhurtTable
<1>6. Sound(new, NewSize, {}) /\ Distinct(new, {})
  BY DEF IInv, Ordered, OneEach
<1>7. Cardinality(Used(new)) = Cardinality(Passed)
  BY DEF IInv, Counted, Passed
<1>8. IsFiniteSet(Passed) /\ Cardinality(Passed) \in Nat
  <2>1. Passed \subseteq Used(buckets)
    BY DEF Passed
  <2>. QED BY <2>1, TableFacts, FS_Subset, FS_CardinalityType
<1>9. count <= GrowAt(NewSize) /\ GrowAt(NewSize) \in Nat /\ GrowAt(NewSize) < NewSize
  <2>1. GrowAt(NewSize) \in Nat /\ GrowAt(NewSize) < NewSize
    BY <1>3, GrowBelow
  <2>2. count \in Nat /\ count + (IF arg.value # NULL THEN 1 ELSE 0) <= GrowAt(NewSize)
    BY DEF IInv, Counted
  <2>. QED BY <2>1, <2>2
<1>10. src \in Nat
  BY <1>2, <1>3
<1>. QED BY <1>1, <1>2, <1>3, <1>4, <1>5, <1>6, <1>7, <1>8, <1>9, <1>10

LEMMA RebuildGoesOn ==
  ASSUME IInv, Rebuilding, UNCHANGED <<table, oom, arg, spare, out, before>>,
         op' \in {"resize", "move"}, new' \in Table(NewSize), src' \in 0 .. nbuckets,
         Sound(new', NewSize, {}), Distinct(new', {}),
         Cardinality(Used(new')) = Cardinality(Passed'),
         op' = "move" =>
           /\ entry' \in Filled(NewSize) /\ i' \in 0 .. (NewSize - 1)
           /\ src' < nbuckets /\ buckets[src'].dib # 0
           /\ Placed(entry', i', NewSize) /\ Path(new', NewSize, i', entry', {})
           /\ \A b \in Used(new') : new'[b].item.key # entry'.item.key,
         Items(new', {}) \cup (IF op' = "move" THEN {entry'.item} ELSE {}) = Taken'
  PROVE IInv'
<1>1. Rebuilding' /\ Hole = {} /\ Hole' = {} /\ NewSize' = NewSize /\ UNCHANGED <<cap, nbuckets, count, buckets>>
  BY DEF Rebuilding, Hole, NewSize, table
<1>2. Shape'
  <2>1. arg' = arg /\ oom' = oom /\ spare' = spare /\ out' = out /\ before' = before
    OBVIOUS
  <2>2. /\ arg' \in [key : Key \cup {NULL}, value : Value \cup {NULL}] /\ arg'.key \in Key
        /\ oom' \in BOOLEAN /\ spare' \in Value \cup {NULL} /\ out'.value \in Value \cup {NULL}
        /\ before' \in [Key -> Value \cup {NULL}]
    BY <2>1, RebuildFacts DEF IInv, Shape
  <2>3. cap' \in Nat \ {0, 1} /\ nbuckets' \in Doublings(cap') /\ buckets' \in Table(nbuckets')
        /\ NewSize' \in Doublings(cap')
    BY <1>1, RebuildFacts DEF IInv, Shape
  <2>. QED BY <1>1, <2>2, <2>3 DEF Shape
<1>3. Counted'
  <2>1. op # "shift" /\ op' # "shift"
    BY DEF Rebuilding
  <2>2. /\ count \in Nat /\ count = Cardinality(Used(buckets) \ {}) + 0
        /\ count + (IF arg.value # NULL THEN 1 ELSE 0) <= GrowAt(NewSize)
    BY <1>1, <2>1 DEF IInv, Counted
  <2>3. Cardinality(Used(new)') = Cardinality({b \in Used(buckets) : b < src}')
    BY DEF Passed
  <2>. QED BY <1>1, <2>1, <2>2, <2>3 DEF Counted
<1>4. Ordered'
  BY <1>1, RebuildFacts DEF Ordered, LeftTable
<1>5. OneEach'
  BY <1>1, RebuildFacts DEF OneEach, LeftTable
<1>6. Promised'
  <2>1. Stored' = Stored
    BY DEF Stored
  <2>2. /\ MapOf(Items(buckets, {}), IF arg.value # NULL THEN before ELSE Stored)
        /\ arg.value = NULL => spare = before[arg.key]
    BY DEF IInv, Promised
  <2>. QED BY <1>1, <2>1, <2>2 DEF Promised
<1>. QED BY <1>2, <1>3, <1>4, <1>5, <1>6 DEF IInv

LEMMA ResizeScanInv == ASSUME IInv, ResizeScan PROVE IInv'
<1>1. /\ op = "resize" /\ Rebuilding /\ src < nbuckets
      /\ UNCHANGED <<table, oom, arg, new, spare, out, before>>
  BY DEF ResizeScan, Rebuilding
<1>2. /\ src \in 0 .. (nbuckets - 1) /\ buckets \in Table(nbuckets) /\ nbuckets \in Nat \ {0, 1}
      /\ UNCHANGED <<buckets, nbuckets>>
      /\ Used(buckets) = {b \in 0 .. (nbuckets - 1) : buckets[b].dib # 0}
  BY <1>1, TableFacts, RebuildFacts DEF table
<1>3. Items(new, {}) = Taken
  BY <1>1 DEF IInv, Promised
<1>4. CASE buckets[src].dib = 0
  <2>1. src' = src + 1 /\ UNCHANGED <<op, entry, i>>
    BY <1>1, <1>4 DEF ResizeScan
  <2>2. Passed' = Passed
    BY <1>2, <1>4, <2>1 DEF Passed
  <2>3. Taken' = Taken
    BY <1>1, <1>2, <1>4, <2>1 DEF Taken
  <2>4. src' \in 0 .. nbuckets
    BY <1>2, <2>1
  <2>. QED BY <1>1, <1>3, <2>1, <2>2, <2>3, <2>4, RebuildFacts, RebuildGoesOn
<1>5. CASE buckets[src].dib # 0
  <2>1. op' = "move" /\ entry' = [buckets[src] EXCEPT !.dib = 1] /\ src' = src
        /\ i' = Home(buckets[src].item.key, NewSize)
    BY <1>1, <1>5, RebuildFacts DEF ResizeScan
  <2>2. buckets[src] \in Filled(nbuckets)
    BY <1>2, <1>5, TableEntry
  <2>3. /\ entry' \in Filled(NewSize) /\ entry'.dib = 1 /\ entry'.item = buckets[src].item
        /\ entry'.item.key \in Key
    <3>1. NewSize \in Nat \ {0, 1}
      BY <1>1, RebuildFacts
    <3>. QED BY <2>1, <2>2, <3>1 DEF Filled, Item
  <2>4. /\ i' \in 0 .. (NewSize - 1) /\ Placed(entry', i', NewSize)
        /\ Path(new', NewSize, i', entry', {})
    BY <1>1, <2>1, <2>3, RebuildFacts, HomeStart
  <2>5. Passed' = Passed
    BY <1>2, <2>1 DEF Passed
  <2>6. Taken' = Taken \cup {entry'.item}
    <3>1. ASSUME NEW x PROVE x \in Taken' <=> x \in Taken \/ x = buckets[src].item
      <4>1. src \in Used(buckets)
        BY <1>2, <1>5
      <4>2. x \in Taken' <=> \E c \in Used(buckets) : (c < src \/ c = src) /\ x = buckets[c].item
        BY <1>2, <2>1 DEF Taken
      <4>3. x \in Taken <=> \E c \in Used(buckets) : c < src /\ x = buckets[c].item
        BY <1>1 DEF Taken
      <4>. QED BY <4>1, <4>2, <4>3
    <3>. QED BY <2>3, <3>1
  <2>7. ASSUME NEW b \in Used(new) PROVE new[b].item.key # entry'.item.key
    <3>1. new[b].item \in Taken
      BY <1>3 DEF Items
    <3>2. PICK c \in Used(buckets) : c < src /\ new[b].item = buckets[c].item
      BY <1>1, <3>1 DEF Taken
    <3>3. src \in Used(buckets) /\ c # src /\ Distinct(buckets, {})
      BY <1>1, <1>2, <1>5, <3>2, RebuildFacts DEF LeftTable
    <3>4. buckets[c].item.key # buckets[src].item.key
      BY <3>2, <3>3 DEF Distinct, Used
    <3>. QED BY <2>3, <3>2, <3>4
  <2>. QED BY <1>1, <1>3, <1>5, <2>1, <2>3, <2>4, <2>5, <2>6, <2>7, RebuildFacts, RebuildGoesOn
<1>. QED BY <1>4, <1>5

\* What is in hand while an item is placed in the new buckets.
LEMMA MoveFacts ==
  ASSUME IInv, op = "move"
  PROVE /\ Rebuilding /\ entry \in Filled(NewSize) /\ entry.dib \in 1 .. NewSize /\ entry.item \in Item
        /\ i \in 0 .. (NewSize - 1) /\ new[i].dib \in 0 .. NewSize
        /\ src \in 0 .. (nbuckets - 1) /\ buckets[src].dib # 0 /\ src \in Used(buckets)
        /\ Placed(entry, i, NewSize) /\ Path(new, NewSize, i, entry, {})
        /\ \A b \in Used(new) : new[b].item.key # entry.item.key
        /\ Items(new, {}) \cup {entry.item} = Taken
        /\ \E c \in 0 .. (NewSize - 1) : new[c].dib = 0
<1>1. Rebuilding
  BY DEF Rebuilding
<1>2. /\ entry \in Filled(NewSize) /\ i \in 0 .. (NewSize - 1)
      /\ src \in 0 .. nbuckets /\ src < nbuckets /\ buckets[src].dib # 0
  BY <1>1 DEF IInv, Shape
<1>3. src \in 0 .. (nbuckets - 1) /\ src \in Used(buckets)
  BY <1>2, TableFacts
<1>4. entry.dib \in 1 .. NewSize /\ entry.item \in Item /\ new[i].dib \in 0 .. NewSize
  BY <1>1, <1>2, RebuildFacts, TableEntry DEF Filled
<1>5. Placed(entry, i, NewSize) /\ Path(new, NewSize, i, entry, {})
  BY DEF IInv, Ordered
<1>6. \A b \in Used(new) : new[b].item.key # entry.item.key
  BY DEF IInv, OneEach
<1>7. Items(new, {}) \cup {entry.item} = Taken
  BY <1>1 DEF IInv, Promised
<1>8. \E c \in 0 .. (NewSize - 1) : new[c].dib = 0
  <2>1. Passed \subseteq Used(buckets) /\ src \notin Passed
    BY <1>3 DEF Passed
  <2>2. Cardinality(Passed) < Cardinality(Used(buckets))
    <3>1. Cardinality(Passed) <= Cardinality(Used(buckets))
      BY <2>1, TableFacts, FS_Subset
    <3>2. Cardinality(Passed) # Cardinality(Used(buckets))
      BY <1>3, <2>1, TableFacts, FS_Subset
    <3>. QED BY <1>1, <3>1, <3>2, TableFacts, RebuildFacts
  <2>3. Cardinality(Used(new)) < NewSize
    <3>1. count = Cardinality(Used(buckets)) /\ count \in Nat
      BY <1>1, RebuildFacts DEF LeftTable
    <3>. QED BY <1>1, <2>2, <3>1, RebuildFacts
  <2>. QED BY <1>1, <2>3, RebuildFacts, FreeBucket
<1>. QED BY <1>1, <1>2, <1>3, <1>4, <1>5, <1>6, <1>7, <1>8

LEMMA MovePassOn ==
  ASSUME IInv, MovePass, ~ (new[i].dib < entry.dib) PROVE IInv'
<1>1. op = "move" /\ Rebuilding /\ UNCHANGED <<table, oom, op, arg, src, spare, out, before>>
  BY DEF MovePass, Rebuilding
<1>2. /\ new[i].dib # 0 /\ entry' = [entry EXCEPT !.dib = @ + 1] /\ UNCHANGED new
      /\ i' = After(i, NewSize)
  BY <1>1, RebuildFacts DEF MovePass, PassBy
<1>3. /\ NewSize \in Nat \ {0, 1} /\ new \in Table(NewSize)
      /\ entry \in Filled(NewSize) /\ i \in 0 .. (NewSize - 1)
      /\ Placed(entry, i, NewSize) /\ Path(new, NewSize, i, entry, {})
  BY <1>1, RebuildFacts, MoveFacts
<1>4. PICK c \in 0 .. (NewSize - 1) : new[c].dib = 0
  BY <1>1, MoveFacts
<1>5. /\ entry' \in Filled(NewSize) /\ Placed(entry', i', NewSize)
      /\ Path(new, NewSize, i', entry', {})
  BY <1>2, <1>3, <1>4, PassOn
<1>6. i' \in 0 .. (NewSize - 1)
  BY <1>2, <1>3, AfterIs
<1>7. entry'.item = entry.item
  BY <1>2, <1>3 DEF Filled
<1>8. Passed' = Passed /\ Taken' = Taken
  BY <1>1 DEF Passed, Taken, table
<1>9. /\ new' \in Table(NewSize) /\ Sound(new', NewSize, {}) /\ Distinct(new', {})
      /\ Cardinality(Used(new')) = Cardinality(Passed')
      /\ Items(new', {}) \cup {entry'.item} = Taken'
      /\ \A b \in Used(new') : new'[b].item.key # entry'.item.key
  BY <1>1, <1>2, <1>7, <1>8, RebuildFacts, MoveFacts
<1>10. src' \in 0 .. nbuckets /\ src' < nbuckets /\ buckets[src'].dib # 0
  BY <1>1, RebuildFacts, MoveFacts, TableFacts
<1>. QED BY <1>1, <1>2, <1>5, <1>6, <1>9, <1>10, RebuildGoesOn

LEMMA MovePassSwap ==
  ASSUME IInv, MovePass, new[i].dib < entry.dib PROVE IInv'
<1>1. op = "move" /\ Rebuilding /\ UNCHANGED <<table, oom, op, arg, src, spare, out, before>>
  BY DEF MovePass, Rebuilding
<1>2. /\ new[i].dib # 0 /\ entry' = Swapped(new[i], entry) /\ new' = [new EXCEPT ![i] = entry]
      /\ i' = After(i, NewSize)
  BY <1>1, RebuildFacts DEF MovePass, PassBy
<1>3. /\ NewSize \in Nat \ {0, 1} /\ new \in Table(NewSize) /\ Sound(new, NewSize, {})
      /\ entry \in Filled(NewSize) /\ i \in 0 .. (NewSize - 1)
      /\ Placed(entry, i, NewSize) /\ Path(new, NewSize, i, entry, {})
      /\ Distinct(new, {}) /\ DOMAIN new = 0 .. (NewSize - 1)
  BY <1>1, RebuildFacts, MoveFacts
<1>4. /\ new' \in Table(NewSize) /\ entry' \in Filled(NewSize)
      /\ Sound(new', NewSize, {}) /\ Placed(entry', i', NewSize)
      /\ Path(new', NewSize, i', entry', {})
  BY <1>2, <1>3, PassSwap DEF Put
<1>5. i' \in 0 .. (NewSize - 1)
  BY <1>2, <1>3, AfterIs
<1>6. entry'.item = new[i].item
  <2>1. new[i] \in Filled(NewSize)
    BY <1>2, <1>3, TableEntry
  <2>. QED BY <1>2, <2>1 DEF Swapped, Filled
<1>7. Used(new') = Used(new) /\ Items(new', {}) \cup {entry'.item} = Items(new, {}) \cup {entry.item}
  <2>1. new[i].dib # 0 /\ new' = Put(new, i, entry)
    BY <1>2 DEF Put
  <2>. QED BY <1>3, <1>6, <2>1, SwapItems
<1>8. \A b \in Used(new) : new[b].item.key # entry.item.key
  BY <1>1, MoveFacts
<1>9. Distinct(new', {})
  BY <1>2, <1>3, <1>8, StaysDistinct DEF Put
<1>10. /\ i \in Used(new)
       /\ \A b \in Used(new) : b # i => new'[b] = new[b]
       /\ new'[i] = entry
  BY <1>2, <1>3 DEF Used
<1>11. ASSUME NEW b \in Used(new') PROVE new'[b].item.key # entry'.item.key
  <2>1. CASE b = i
    BY <1>6, <1>8, <1>10, <2>1
  <2>2. CASE b # i
    <3>1. b \in Used(new) /\ new'[b] = new[b]
      BY <1>7, <1>10, <2>2
    <3>2. new[b].item.key # new[i].item.key
      BY <1>3, <1>10, <2>2, <3>1 DEF Distinct, Used
    <3>. QED BY <1>6, <3>1, <3>2
  <2>. QED BY <2>1, <2>2
<1>12. Passed' = Passed /\ Taken' = Taken
  BY <1>1 DEF Passed, Taken, table
<1>13. Items(new', {}) \cup {entry'.item} = Taken'
  BY <1>1, <1>7, <1>12, MoveFacts
<1>14. Cardinality(Used(new')) = Cardinality(Passed') /\ src' \in 0 .. nbuckets
       /\ src' < nbuckets /\ buckets[src'].dib # 0
  <2>1. Cardinality(Used(new')) = Cardinality(Passed')
    BY <1>1, <1>7, <1>12, RebuildFacts
  <2>2. src' \in 0 .. nbuckets /\ src' < nbuckets /\ buckets[src'].dib # 0
    BY <1>1, RebuildFacts, MoveFacts, TableFacts
  <2>. QED BY <2>1, <2>2
<1>. QED BY <1>1, <1>4, <1>5, <1>9, <1>11, <1>13, <1>14, RebuildGoesOn

LEMMA MoveEndInv == ASSUME IInv, MoveEnd PROVE IInv'
<1>1. /\ op = "move" /\ Rebuilding /\ UNCHANGED <<table, oom, arg, entry, i, spare, out, before>>
      /\ new[i].dib = 0 /\ new' = [new EXCEPT ![i] = entry] /\ src' = src + 1 /\ op' = "resize"
  BY DEF MoveEnd, Rebuilding
<1>2. /\ NewSize \in Nat \ {0, 1} /\ new \in Table(NewSize) /\ Sound(new, NewSize, {})
      /\ entry \in Filled(NewSize) /\ i \in 0 .. (NewSize - 1)
      /\ Placed(entry, i, NewSize) /\ Path(new, NewSize, i, entry, {})
      /\ Distinct(new, {}) /\ nbuckets \in Nat /\ UNCHANGED buckets
  BY <1>1, RebuildFacts, MoveFacts, TableFacts DEF table
<1>3. new' \in Table(NewSize) /\ Sound(new', NewSize, {})
  <2>1. new[i].dib < entry.dib
    BY <1>1, MoveFacts
  <2>. QED BY <1>1, <1>2, <2>1, Raised DEF Put
<1>4. /\ Cardinality(Used(new')) = Cardinality(Used(new)) + 1
      /\ Items(new', {}) = Items(new, {}) \cup {entry.item}
  <2>1. new[i].dib = 0 /\ new' = Put(new, i, entry)
    BY <1>1 DEF Put
  <2>. QED BY <1>2, <2>1, PutItems
<1>5. Distinct(new', {})
  <2>1. \A b \in Used(new) \ {i} : new[b].item.key # entry.item.key
    BY <1>1, MoveFacts
  <2>. QED BY <1>1, <1>2, <2>1, StaysDistinct DEF Put
<1>6. /\ src \in 0 .. (nbuckets - 1) /\ src \in Used(buckets)
      /\ \A b \in Used(buckets) : b \in Nat
  BY <1>1, MoveFacts, TableFacts
<1>7. /\ \A b \in Used(buckets) : b < src' <=> b < src \/ b = src
      /\ ~ (src < src)
  BY <1>1, <1>6
<1>8. Cardinality(Used(new')) = Cardinality(Passed')
  <2>1. Passed' = {b \in Used(buckets) : b < src'}
    BY <1>2 DEF Passed
  <2>2. Passed' = Passed \cup {src} /\ src \notin Passed
    BY <1>6, <1>7, <2>1 DEF Passed
  <2>3. Cardinality(Passed') = Cardinality(Passed) + 1
    BY <1>1, <2>2, RebuildFacts, FS_AddElement
  <2>4. Cardinality(Used(new)) = Cardinality(Passed)
    BY <1>1, RebuildFacts
  <2>. QED BY <1>4, <2>3, <2>4
<1>9. Taken' = Taken
  <2>1. Taken' = {buckets[b].item : b \in {c \in Used(buckets) : c < src'}}
    BY <1>1, <1>2 DEF Taken
  <2>2. Taken = {buckets[b].item : b \in {c \in Used(buckets) : c < src \/ c = src}}
    BY <1>1 DEF Taken
  <2>3. {c \in Used(buckets) : c < src'} = {c \in Used(buckets) : c < src \/ c = src}
    BY <1>7
  <2>. QED BY <2>1, <2>2, <2>3
<1>10. Items(new', {}) = Taken'
  BY <1>1, <1>4, <1>9, MoveFacts
<1>11. src' \in 0 .. nbuckets
  BY <1>1, <1>2, <1>6
<1>. QED BY <1>1, <1>3, <1>5, <1>8, <1>10, <1>11, RebuildGoesOn

LEMMA ResizeEndInv ==
  ASSUME IInv, ResizeEnd
  PROVE /\ IInv'
        /\ arg.value # NULL => op' = "set"
        /\ arg.value = NULL => Contents(buckets') = Stored /\ spare = before[arg.key]
<1>1. /\ op = "resize" /\ Rebuilding /\ src = nbuckets /\ buckets' = new /\ nbuckets' = NewSize
      /\ UNCHANGED <<cap, count, oom>>
  BY RebuildFacts DEF ResizeEnd, Rebuilding
<1>2. Passed = Used(buckets) /\ \A b \in Used(buckets) : b < src
  BY <1>1, TableFacts DEF Passed
<1>3. LeftTable'
  BY <1>1, <1>2, RebuildFacts DEF LeftTable
<1>4. Items(buckets', {}) = Items(buckets, {})
  <2>1. Items(new, {}) = Taken
    BY <1>1 DEF IInv, Promised
  <2>2. Taken = {buckets[b].item : b \in Used(buckets)}
    BY <1>2 DEF Taken
  <2>3. Items(buckets, {}) = {buckets[b].item : b \in Used(buckets)}
    BY DEF Items
  <2>. QED BY <1>1, <2>1, <2>2, <2>3
<1>5. /\ MapOf(Items(buckets', {}), IF arg.value # NULL THEN before ELSE Stored)
      /\ arg.value = NULL => spare = before[arg.key]
  BY <1>1, <1>4 DEF IInv, Promised
<1>6. CASE arg.value # NULL
  <2>1. StartSet(arg', nbuckets') /\ UNCHANGED <<arg, spare, out, before>>
    BY <1>6 DEF ResizeEnd
  <2>2. arg' \in Item /\ arg'.value # NULL
    BY <1>1, <1>6, <2>1, RebuildFacts DEF Item, IInv, Shape
  <2>3. count' < GrowAt(nbuckets')
    <3>1. count \in Nat /\ count + 1 <= GrowAt(NewSize)
      BY <1>1, <1>6 DEF IInv, Counted
    <3>. QED BY <1>1, <3>1, RebuildFacts
  <2>4. /\ spare' \in Value \cup {NULL} /\ out'.value \in Value \cup {NULL}
        /\ before' \in [Key -> Value \cup {NULL}] /\ MapOf(Items(buckets', {}), before')
    BY <1>5, <1>6, <2>1 DEF IInv, Shape
  <2>5. op' = "set"
    BY <2>1 DEF StartSet
  <2>. QED BY <1>3, <1>6, <2>1, <2>2, <2>3, <2>4, <2>5, SetInv
<1>7. CASE arg.value = NULL
  <2>1. Return("delete", arg.key, spare) /\ spare \in Value \cup {NULL}
    BY <1>7 DEF ResizeEnd, IInv, Shape
  <2>2. count' <= GrowAt(nbuckets')
    BY <1>1, RebuildFacts
  <2>3. IInv'
    BY <1>3, <2>1, <2>2, ReturnInv
  <2>4. Contents(buckets') = Stored
    <3>1. Stored \in [Key -> Value \cup {NULL}]
      BY <1>1, <1>7, RebuildFacts DEF Stored
    <3>2. /\ NewSize \in Nat \ {0} /\ new \in Table(NewSize) /\ Distinct(new, {})
          /\ MapOf(Items(new, {}), Stored)
      BY <1>1, <1>5, <1>7, RebuildFacts
    <3>. QED BY <1>1, <3>1, <3>2, ContentsMap, MapUnique
  <2>. QED BY <1>5, <1>7, <2>3, <2>4
<1>. QED BY <1>6, <1>7

-----------------------------------------------------------------------------
(* The rounds of a search. *)

LEMMA SearchFacts ==
  ASSUME IInv, op \in {"get", "delete"}
  PROVE /\ LeftTable /\ ~Rebuilding /\ Hole = {} /\ new = <<>> /\ src = 0
        /\ i \in 0 .. (nbuckets - 1) /\ buckets[i].dib \in 0 .. nbuckets
        /\ arg.key \in Key /\ arg.value = NULL
        /\ MapOf(Items(buckets, {}), before) /\ before \in [Key -> Value \cup {NULL}]
        /\ Contents(buckets) = before /\ count <= GrowAt(nbuckets)
<1>1. ~Rebuilding /\ Hole = {} /\ new = <<>> /\ src = 0
  BY DEF Rebuilding, Hole, IInv, Shape
<1>2. LeftTable
  BY UnhurtTable
<1>3. i \in 0 .. (nbuckets - 1) /\ arg.key \in Key /\ arg.value = NULL
  BY DEF IInv, Shape
<1>4. buckets[i].dib \in 0 .. nbuckets
  BY <1>3, TableFacts, TableEntry
<1>5. MapOf(Items(buckets, {}), before) /\ before \in [Key -> Value \cup {NULL}]
  BY DEF IInv, Promised, Shape
<1>6. Contents(buckets) = before
  BY <1>2, <1>5, TableFacts, ContentsMap, MapUnique DEF LeftTable
<1>7. count <= GrowAt(nbuckets)
  <2>1. count + 0 <= GrowAt(nbuckets)
    BY <1>1 DEF IInv, Counted
  <2>. QED BY <1>2, <2>1 DEF LeftTable
<1>. QED BY <1>1, <1>2, <1>3, <1>4, <1>5, <1>6, <1>7

\* The bucket of the key is this one, or one further on, with none free before it.
LEMMA SearchAhead ==
  ASSUME NEW n \in Nat \ {0, 1}, NEW t \in Table(n), Sound(t, n, {}), NEW c \in 0 .. (n - 1),
         NEW k \in Key, NEW b \in 0 .. (n - 1), t[b].dib # 0, t[b].item.key = k,
         Behind(c, Home(k, n), n) < t[b].dib
  PROVE /\ t[c].dib # 0
        /\ b # c => Behind(After(c, n), Home(k, n), n) < t[b].dib
<1>. DEFINE h == Home(k, n)
            d == Behind(c, h, n)
            e == [dib |-> d + 1, item |-> t[b].item]
<1>1. t[c].dib \in 0 .. n /\ t[b] \in Filled(n) /\ t[b].dib \in 1 .. n
  BY TableEntry DEF Filled
<1>2. h \in 0 .. (n - 1)
  BY HomeIn
<1>3. d \in Nat /\ d < t[b].dib
  BY <1>2 DEF Behind
<1>4. e.dib = d + 1 /\ e.item = t[b].item /\ e \in Filled(n) /\ e.dib <= t[b].dib
  <2>1. d + 1 \in 1 .. n /\ t[b].item \in Item
    BY <1>1, <1>3 DEF Filled
  <2>. HIDE DEF d
  <2>. QED BY <1>1, <1>3, <2>1 DEF Filled
<1>5. Placed(e, c, n)
  <2>1. h = Back(c, d, n)
    BY <1>2 DEF Back, Behind
  <2>2. e.dib - 1 = d /\ e.item.key = k
    BY <1>3, <1>4
  <2>. QED BY <2>1, <2>2 DEF Placed
<1>6. IF e.dib = t[b].dib THEN b = c ELSE b # c /\ t[c].dib >= e.dib
  <2>1. t[b].item.key = e.item.key
    BY <1>4
  <2>2. e \in Filled(n) /\ e.dib <= t[b].dib
    BY <1>4
  <2>. HIDE DEF e, d
  <2>. QED BY <1>5, <2>1, <2>2, Ahead
<1>7. t[c].dib # 0
  BY <1>1, <1>3, <1>4, <1>6
<1>8. ASSUME b # c PROVE Behind(After(c, n), h, n) < t[b].dib
  <2>1. d + 1 < t[b].dib
    BY <1>1, <1>3, <1>4, <1>6, <1>8
  <2>2. Behind(After(c, n), h, n) \in {0, d + 1}
    BY <1>2, AfterIs DEF Behind
  <2>. HIDE DEF d
  <2>. QED BY <1>1, <1>3, <2>1, <2>2
<1>. QED BY <1>7, <1>8

LEMMA KeyAhead ==
  ASSUME IInv, op \in {"get", "delete"}, NEW b \in Used(buckets), buckets[b].item.key = arg.key
  PROVE /\ buckets[i].dib # 0
        /\ b # i => Behind(After(i, nbuckets), Home(arg.key, nbuckets), nbuckets) < buckets[b].dib
<1>1. /\ nbuckets \in Nat \ {0, 1} /\ buckets \in Table(nbuckets) /\ Sound(buckets, nbuckets, {})
      /\ i \in 0 .. (nbuckets - 1) /\ arg.key \in Key
  BY TableFacts, SearchFacts DEF LeftTable
<1>2. b \in 0 .. (nbuckets - 1) /\ buckets[b].dib # 0
  BY TableFacts
<1>3. Behind(i, Home(arg.key, nbuckets), nbuckets) < buckets[b].dib
  BY DEF IInv, OneEach
<1>. QED BY <1>1, <1>2, <1>3, SearchAhead

LEMMA NotFoundInv ==
  ASSUME IInv, NotFound
  PROVE IInv' /\ before[arg.key] = NULL
<1>1. op \in {"get", "delete"} /\ buckets[i].dib = 0 /\ Return(op, arg.key, NULL)
      /\ UNCHANGED table /\ UNCHANGED oom
  BY DEF NotFound
<1>2. \A x \in Items(buckets, {}) : x.key # arg.key
  BY <1>1, KeyAhead DEF Items
<1>3. before[arg.key] = NULL
  BY <1>1, <1>2, SearchFacts DEF MapOf
<1>4. LeftTable' /\ count' <= GrowAt(nbuckets')
  <2>1. oom' \in BOOLEAN
    BY <1>1 DEF IInv, Shape
  <2>2. LeftTable'
    BY <1>1, <2>1, SearchFacts, SameTable
  <2>3. count' <= GrowAt(nbuckets')
    BY <1>1, SearchFacts DEF table
  <2>. QED BY <2>2, <2>3
<1>. QED BY <1>1, <1>3, <1>4, ReturnInv

\* The value found is the one that the key has.
LEMMA FoundValue ==
  ASSUME IInv, op \in {"get", "delete"}, Found
  PROVE /\ i \in Used(buckets) /\ buckets[i].item \in Item /\ buckets[i].item.key = arg.key
        /\ buckets[i].item \in Items(buckets, {}) /\ before[arg.key] = buckets[i].item.value
<1>1. i \in Used(buckets) /\ buckets[i].item.key = arg.key
  BY TableFacts, SearchFacts DEF Found
<1>2. buckets[i].item \in Items(buckets, {})
  BY <1>1 DEF Items
<1>3. buckets[i].item \in Item
  BY <1>2, TableFacts, ItemsIn
<1>4. before[arg.key] = buckets[i].item.value
  BY <1>1, <1>2, SearchFacts DEF MapOf
<1>. QED BY <1>1, <1>2, <1>3, <1>4

LEMMA GetFoundInv ==
  ASSUME IInv, GetFound
  PROVE IInv' /\ before[arg.key] = buckets[i].item.value
<1>1. op = "get" /\ Found /\ Return("get", arg.key, buckets[i].item.value)
      /\ UNCHANGED table /\ UNCHANGED oom
  BY DEF GetFound
<1>2. oom' \in BOOLEAN
  BY <1>1 DEF IInv, Shape
<1>3. LeftTable'
  BY <1>1, <1>2, SearchFacts, SameTable
<1>4. count' <= GrowAt(nbuckets')
  BY <1>1, SearchFacts DEF table
<1>5. before[arg.key] = buckets[i].item.value /\ buckets[i].item.value \in Value \cup {NULL}
  BY <1>1, FoundValue DEF Item
<1>. QED BY <1>1, <1>3, <1>4, <1>5, ReturnInv

LEMMA SearchPassInv == ASSUME IInv, SearchPass PROVE IInv'
<1>1. /\ op \in {"get", "delete"} /\ buckets[i].dib # 0 /\ ~Found /\ i' = After(i, nbuckets)
      /\ UNCHANGED <<table, oom, op, arg, entry, new, src, spare, out, before>>
  BY DEF SearchPass
<1>2. UNCHANGED <<cap, nbuckets, count, buckets>> /\ Hole = {} /\ Hole' = {} /\ ~Rebuilding /\ ~Rebuilding'
  BY <1>1 DEF table, Hole, Rebuilding
<1>3. i' \in 0 .. (nbuckets - 1)
  BY <1>1, SearchFacts, TableFacts, AfterIs
<1>4. Shape'
  BY <1>1, <1>2, <1>3 DEF IInv, Shape
<1>5. Counted'
  BY <1>1, <1>2 DEF IInv, Counted
<1>6. Ordered'
  BY <1>1, <1>2 DEF IInv, Ordered
<1>7. OneEach'
  <2>1. ASSUME NEW b \in Used(buckets), buckets[b].item.key = arg.key
        PROVE Behind(i', Home(arg.key, nbuckets), nbuckets) < buckets[b].dib
    BY <1>1, <2>1, KeyAhead DEF Found
  <2>. QED BY <1>1, <1>2, <2>1 DEF IInv, OneEach
<1>8. Promised'
  BY <1>1, <1>2 DEF IInv, Promised
<1>. QED BY <1>4, <1>5, <1>6, <1>7, <1>8 DEF IInv

-----------------------------------------------------------------------------
(* The rounds of a deletion. *)

LEMMA Emptied ==
  ASSUME NEW n \in Nat \ {0, 1}, NEW t \in Table(n), NEW b \in 0 .. (n - 1), NEW u, u = Put(t, b, Empty)
  PROVE /\ Used(u) = Used(t) \ {b} /\ Used(u) \ {b} = Used(u)
        /\ Items(u, {}) = Items(t, {b}) /\ Items(u, {b}) = Items(t, {b})
        /\ Distinct(t, {b}) => Distinct(u, {}) /\ Distinct(u, {b})
<1>1. DOMAIN t = 0 .. (n - 1) /\ DOMAIN u = 0 .. (n - 1)
  BY DEF Table, Put
<1>2. \A c \in 0 .. (n - 1) : u[c] = IF c = b THEN Empty ELSE t[c]
  BY DEF Table, Put
<1>3. u[b].dib = 0
  BY <1>2, EmptyFits
<1>4. Used(u) = Used(t) \ {b} /\ Used(u) \ {b} = Used(u)
  BY <1>1, <1>2, <1>3 DEF Used
<1>5. \A c \in Used(u) : u[c] = t[c]
  BY <1>1, <1>2, <1>4 DEF Used
<1>6. Items(u, {}) = Items(t, {b}) /\ Items(u, {b}) = Items(t, {b})
  BY <1>4, <1>5 DEF Items
<1>7. Distinct(t, {b}) => Distinct(u, {}) /\ Distinct(u, {b})
  BY <1>1, <1>2, <1>3 DEF Distinct
<1>. QED BY <1>4, <1>6, <1>7

LEMMA ShiftedItems ==
  ASSUME NEW n \in Nat \ {0, 1}, NEW t \in Table(n), NEW b \in 0 .. (n - 1),
         NEW hole, hole = {b}, Distinct(t, hole),
         NEW a, a = After(b, n), t[a].dib > 1, NEW f, f = Shifted(t[a]),
         NEW u, u = Put(t, b, f), NEW left, left = {a}
  PROVE /\ Cardinality(Used(u) \ left) = Cardinality(Used(t) \ hole)
        /\ Items(u, left) = Items(t, hole) /\ Distinct(u, left)
<1>1. DOMAIN t = 0 .. (n - 1) /\ DOMAIN u = 0 .. (n - 1)
  BY DEF Table, Put
<1>2. \A c \in 0 .. (n - 1) : u[c] = IF c = b THEN Shifted(t[a]) ELSE t[c]
  BY DEF Table, Put
<1>3. a \in (0 .. (n - 1)) \ {b}
  BY AfterIs
<1>4. t[a].dib \in 2 .. n /\ t[a].dib # 0 /\ t[a] \in Filled(n)
  <2>1. t[a].dib \in 0 .. n /\ (t[a].dib # 0 => t[a] \in Filled(n))
    BY <1>3, TableEntry
  <2>. QED BY <2>1
<1>5. u[b].item = t[a].item /\ u[b].dib # 0
  BY <1>2, <1>4 DEF Shifted, Filled
<1>. DEFINE U == Used(t) \ {a, b}
<1>6. /\ Used(t) \ {b} = U \cup {a} /\ Used(u) \ {a} = U \cup {b} /\ a \notin U /\ b \notin U
      /\ \A c \in U : u[c] = t[c]
  BY <1>1, <1>2, <1>3, <1>4, <1>5 DEF Used
<1>7. IsFiniteSet(U)
  BY UsedIn, FS_Subset
<1>. HIDE DEF U
<1>8. Cardinality(Used(u) \ {a}) = Cardinality(Used(t) \ {b})
  <2>1. Cardinality(U \cup {a}) = Cardinality(U) + 1
    BY <1>6, <1>7, FS_AddElement
  <2>2. Cardinality(U \cup {b}) = Cardinality(U) + 1
    BY <1>6, <1>7, FS_AddElement
  <2>. QED BY <1>6, <2>1, <2>2
<1>9. Items(u, {a}) = Items(t, {b})
  <2>1. ASSUME NEW x PROVE x \in Items(u, {a}) <=> x \in Items(t, {b})
    <3>1. x \in Items(u, {a}) <=> x = u[b].item \/ \E c \in U : x = u[c].item
      BY <1>6 DEF Items
    <3>2. x \in Items(t, {b}) <=> x = t[a].item \/ \E c \in U : x = t[c].item
      BY <1>6 DEF Items
    <3>. QED BY <1>5, <1>6, <3>1, <3>2
  <2>. QED BY <2>1
<1>10. Distinct(u, {a})
  <2>. SUFFICES ASSUME NEW c \in (0 .. (n - 1)) \ {a}, NEW d \in (0 .. (n - 1)) \ {a},
                       u[c].dib # 0, u[d].dib # 0, u[c].item.key = u[d].item.key
                PROVE c = d
    BY <1>1 DEF Distinct
  <2>. DEFINE from(x) == IF x = b THEN a ELSE x
  <2>1. \A x \in (0 .. (n - 1)) \ {a} :
          /\ from(x) \in (0 .. (n - 1)) \ {b} /\ u[x].item.key = t[from(x)].item.key
          /\ u[x].dib # 0 => t[from(x)].dib # 0
    BY <1>2, <1>3, <1>4, <1>5
  <2>2. from(c) = from(d)
    <3>. HIDE DEF from
    <3>. QED BY <1>1, <2>1 DEF Distinct
  <2>. QED BY <2>2
<1>. QED BY <1>8, <1>9, <1>10

LEMMA DeleteFoundInv == ASSUME IInv, DeleteFound PROVE IInv'
<1>1. /\ op = "delete" /\ Found /\ spare' = buckets[i].item.value
      /\ buckets' = [buckets EXCEPT ![i] = Empty] /\ op' = "shift"
      /\ UNCHANGED <<cap, nbuckets, count, oom, arg, entry, i, new, src, out, before>>
  BY DEF DeleteFound
<1>2. /\ nbuckets \in Nat \ {0, 1} /\ buckets \in Table(nbuckets) /\ Sound(buckets, nbuckets, {})
      /\ Distinct(buckets, {}) /\ i \in 0 .. (nbuckets - 1) /\ i \in Used(buckets)
      /\ count = Cardinality(Used(buckets)) /\ IsFiniteSet(Used(buckets)) /\ count \in Nat
  BY <1>1, TableFacts, SearchFacts, FoundValue DEF LeftTable
<1>3. ~Rebuilding /\ ~Rebuilding' /\ Hole' = {i} /\ new' = <<>> /\ src' = 0
  BY <1>1, SearchFacts DEF Rebuilding, Hole
<1>4. buckets' \in Table(nbuckets) /\ Sound(buckets', nbuckets, {i})
  BY <1>1, <1>2, Dug
<1>5. /\ Used(buckets') \ {i} = Used(buckets) \ {i} /\ Distinct(buckets', {i})
      /\ Items(buckets', {i}) = Items(buckets, {i})
  <2>1. buckets' = Put(buckets, i, Empty)
    BY <1>1 DEF Put
  <2>2. Distinct(buckets, {i})
    BY <1>2 DEF Distinct
  <2>3. Used(buckets') = Used(buckets) \ {i}
    BY <1>2, <2>1, Emptied
  <2>4. Distinct(buckets', {i}) /\ Items(buckets', {i}) = Items(buckets, {i})
    BY <1>2, <2>1, <2>2, Emptied
  <2>. QED BY <2>3, <2>4
<1>6. spare' = before[arg.key] /\ spare' \in Value \cup {NULL}
  BY <1>1, FoundValue DEF Item
<1>7. Shape'
  BY <1>1, <1>2, <1>3, <1>4, <1>6, SearchFacts DEF IInv, Shape
<1>8. Counted'
  <2>1. Cardinality(Used(buckets) \ {i}) = Cardinality(Used(buckets)) - 1
    BY <1>2, FS_RemoveElement
  <2>2. count = Cardinality(Used(buckets') \ {i}) + 1
    <3>1. Cardinality(Used(buckets') \ {i}) = Cardinality(Used(buckets) \ {i})
      BY <1>5
    <3>. QED BY <1>2, <2>1, <3>1
  <2>3. count <= GrowAt(nbuckets)
    BY <1>1, SearchFacts
  <2>4. GrowAt(nbuckets) \in Nat
    BY TableFacts
  <2>. QED BY <1>1, <1>2, <1>3, <2>2, <2>3, <2>4 DEF Counted
<1>9. Ordered'
  BY <1>1, <1>3, <1>4 DEF Ordered
<1>10. OneEach'
  BY <1>1, <1>3, <1>5 DEF OneEach
<1>11. MapOf(Items(buckets, {i}), Stored)
  <2>. DEFINE x == buckets[i].item
  <2>1. /\ Items(buckets, {}) \in SUBSET Item /\ x \in Items(buckets, {}) /\ x.key = arg.key
        /\ MapOf(Items(buckets, {}), before)
    BY <1>1, <1>2, FoundValue, SearchFacts, ItemsIn
  <2>2. \A b \in Used(buckets) : b # i => buckets[b].item.key # x.key
    BY <1>2 DEF Distinct, Used
  <2>3. \A y : y \in Items(buckets, {i}) <=> y \in Items(buckets, {}) /\ y.key # x.key
    BY <1>2, <2>2 DEF Items
  <2>4. \A y \in Items(buckets, {}) : y.key = x.key => y = x
    BY <1>2, <2>2 DEF Items
  <2>5. Stored[x.key] = NULL /\ \A k \in Key : k # x.key => Stored[k] = before[k]
    BY <1>1, <2>1, SearchFacts DEF Stored
  <2>. HIDE DEF x
  <2>. QED BY <2>1, <2>3, <2>4, <2>5, MapLoses, SMTT(30)
<1>12. Promised'
  <2>1. Stored' = Stored
    BY <1>1 DEF Stored
  <2>. QED BY <1>1, <1>3, <1>5, <1>6, <1>11, <2>1 DEF Promised
<1>. QED BY <1>7, <1>8, <1>9, <1>10, <1>12 DEF IInv

LEMMA ShiftFacts ==
  ASSUME IInv, op = "shift"
  PROVE /\ ~Rebuilding /\ Hole = {i} /\ new = <<>> /\ src = 0 /\ i \in 0 .. (nbuckets - 1)
        /\ arg.key \in Key /\ arg.value = NULL
        /\ Sound(buckets, nbuckets, {i}) /\ Distinct(buckets, {i})
        /\ count = Cardinality(Used(buckets) \ {i}) + 1 /\ count <= GrowAt(nbuckets)
        /\ Cardinality(Used(buckets) \ {i}) \in Nat
        /\ MapOf(Items(buckets, {i}), Stored) /\ Stored \in [Key -> Value \cup {NULL}]
        /\ spare = before[arg.key] /\ spare \in Value \cup {NULL}
<1>1. ~Rebuilding /\ Hole = {i} /\ new = <<>> /\ src = 0
  BY DEF Rebuilding, Hole, IInv, Shape
<1>2. i \in 0 .. (nbuckets - 1) /\ arg.key \in Key /\ arg.value = NULL /\ spare \in Value \cup {NULL}
  BY DEF IInv, Shape
<1>3. Sound(buckets, nbuckets, {i}) /\ Distinct(buckets, {i})
  BY <1>1 DEF IInv, Ordered, OneEach
<1>4. Cardinality(Used(buckets) \ {i}) \in Nat
  BY TableFacts, FS_Subset, FS_CardinalityType
<1>5. count = Cardinality(Used(buckets) \ {i}) + 1 /\ count <= GrowAt(nbuckets)
  <2>1. count \in Nat /\ count + 0 <= GrowAt(nbuckets)
    BY <1>1 DEF IInv, Counted
  <2>2. count = Cardinality(Used(buckets) \ {i}) + 1
    BY <1>1 DEF IInv, Counted
  <2>. QED BY <2>1, <2>2
<1>6. MapOf(Items(buckets, {i}), Stored) /\ spare = before[arg.key]
  BY <1>1 DEF IInv, Promised
<1>7. Stored \in [Key -> Value \cup {NULL}]
  BY <1>2 DEF Stored, IInv, Shape
<1>. QED BY <1>1, <1>2, <1>3, <1>4, <1>5, <1>6, <1>7

LEMMA ShiftInv == ASSUME IInv, Shift PROVE IInv'
<1>. DEFINE a == After(i, nbuckets)
<1>1. /\ op = "shift" /\ buckets[a].dib > 1
      /\ buckets' = [buckets EXCEPT ![i] = Shifted(buckets[a])] /\ i' = a
      /\ UNCHANGED <<cap, nbuckets, count, oom, op, arg, entry, new, src, spare, out, before>>
  BY DEF Shift
<1>2. /\ nbuckets \in Nat \ {0, 1} /\ buckets \in Table(nbuckets) /\ i \in 0 .. (nbuckets - 1)
      /\ Sound(buckets, nbuckets, {i}) /\ Distinct(buckets, {i})
  BY <1>1, TableFacts, ShiftFacts
<1>3. a \in 0 .. (nbuckets - 1)
  BY <1>2, AfterIs
<1>4. ~Rebuilding /\ ~Rebuilding' /\ Hole' = {a} /\ new' = <<>> /\ src' = 0
  BY <1>1, ShiftFacts DEF Rebuilding, Hole
<1>5. buckets' \in Table(nbuckets) /\ Sound(buckets', nbuckets, {a})
  BY <1>1, <1>2, HoleMoves
<1>6. /\ Cardinality(Used(buckets') \ {a}) = Cardinality(Used(buckets) \ {i})
      /\ Items(buckets', {a}) = Items(buckets, {i}) /\ Distinct(buckets', {a})
  <2>1. buckets' = Put(buckets, i, Shifted(buckets[a])) /\ buckets[a].dib > 1
    BY <1>1 DEF Put
  <2>2. a = After(i, nbuckets)
    OBVIOUS
  <2>. HIDE DEF a
  <2>3. PICK f : f = Shifted(buckets[a])
    OBVIOUS
  <2>4. buckets' = Put(buckets, i, f)
    BY <2>1, <2>3
  <2>5. PICK hole, left : hole = {i} /\ left = {a}
    OBVIOUS
  <2>6. /\ Cardinality(Used(buckets') \ left) = Cardinality(Used(buckets) \ hole)
        /\ Items(buckets', left) = Items(buckets, hole) /\ Distinct(buckets', left)
    BY <1>2, <2>1, <2>2, <2>3, <2>4, <2>5, ShiftedItems, SMTT(30)
  <2>. QED BY <2>5, <2>6
<1>. HIDE DEF a
<1>7. Shape'
  BY <1>1, <1>3, <1>4, <1>5 DEF IInv, Shape
<1>8. Counted'
  <2>1. count \in Nat /\ count = Cardinality(Used(buckets') \ {a}) + 1 /\ count <= GrowAt(nbuckets)
    BY <1>1, <1>6, ShiftFacts
  <2>. QED BY <1>1, <1>4, <2>1 DEF Counted
<1>9. Ordered'
  BY <1>1, <1>4, <1>5 DEF Ordered
<1>10. OneEach'
  BY <1>1, <1>4, <1>6 DEF OneEach
<1>11. Promised'
  <2>1. Stored' = Stored
    BY <1>1 DEF Stored
  <2>. QED BY <1>1, <1>4, <1>6, <2>1, ShiftFacts DEF Promised
<1>. QED BY <1>7, <1>8, <1>9, <1>10, <1>11 DEF IInv

LEMMA ShiftEndInv ==
  ASSUME IInv, ShiftEnd
  PROVE IInv' /\ Contents(buckets') = Stored /\ spare = before[arg.key]
<1>1. /\ op = "shift" /\ buckets[After(i, nbuckets)].dib <= 1
      /\ buckets' = [buckets EXCEPT ![i] = Empty] /\ count' = count - 1
      /\ UNCHANGED <<cap, nbuckets, oom>>
  BY DEF ShiftEnd
<1>2. /\ nbuckets \in Nat \ {0, 1} /\ buckets \in Table(nbuckets) /\ i \in 0 .. (nbuckets - 1)
      /\ Sound(buckets, nbuckets, {i}) /\ Distinct(buckets, {i})
  BY <1>1, TableFacts, ShiftFacts
<1>3. buckets' \in Table(nbuckets) /\ Sound(buckets', nbuckets, {})
  BY <1>1, <1>2, HoleCloses
<1>4. /\ Used(buckets') = Used(buckets) \ {i} /\ Items(buckets', {}) = Items(buckets, {i})
      /\ Distinct(buckets', {})
  <2>1. buckets' = Put(buckets, i, Empty)
    BY <1>1 DEF Put
  <2>. QED BY <1>2, <2>1, Emptied
<1>5. count' = Cardinality(Used(buckets')) /\ count' \in Nat /\ count' <= GrowAt(nbuckets')
  <2>1. count = Cardinality(Used(buckets) \ {i}) + 1 /\ count <= GrowAt(nbuckets)
        /\ Cardinality(Used(buckets) \ {i}) \in Nat /\ GrowAt(nbuckets) \in Nat
    BY <1>1, ShiftFacts, TableFacts
  <2>2. Cardinality(Used(buckets')) = Cardinality(Used(buckets) \ {i})
    BY <1>4
  <2>. QED BY <1>1, <2>1, <2>2
<1>6. LeftTable'
  BY <1>1, <1>3, <1>4, <1>5 DEF IInv, Shape, LeftTable
<1>7. MapOf(Items(buckets', {}), Stored) /\ spare = before[arg.key]
  BY <1>1, <1>4, ShiftFacts
<1>8. Contents(buckets') = Stored
  BY <1>1, <1>2, <1>3, <1>4, <1>7, ShiftFacts, ContentsMap, MapUnique
<1>9. CASE /\ nbuckets > cap /\ count' <= ShrinkAt(nbuckets)
           /\ StartResize(nbuckets \div 2)
           /\ UNCHANGED <<arg, spare, out, before>>
  <2>1. NewSize' = nbuckets \div 2 /\ Stored' = Stored /\ arg'.value = NULL /\ arg' = arg
    BY <1>1, <1>9, ShiftFacts DEF NewSize, Stored
  <2>2. NewSize' \in Doublings(cap') /\ nbuckets = 2 * (nbuckets \div 2)
    <3>1. nbuckets \in Doublings(cap) /\ cap \in Nat /\ nbuckets # cap
      BY <1>9, TableFacts DEF IInv, Shape
    <3>. QED BY <1>1, <2>1, <3>1, DoublingsDown
  <2>3. count' <= GrowAt(NewSize')
    BY <1>2, <1>5, <1>9, <2>1, <2>2, GrowHalf
  <2>4. count' + (IF arg'.value # NULL THEN 1 ELSE 0) <= GrowAt(NewSize')
    BY <1>5, <2>1, <2>3
  <2>5. arg' \in [key : Key, value : Value \cup {NULL}]
    BY <1>1, <2>1, ShiftFacts DEF IInv, Shape
  <2>6. /\ spare' \in Value \cup {NULL} /\ out'.value \in Value \cup {NULL}
        /\ before' \in [Key -> Value \cup {NULL}] /\ spare' = before'[arg'.key]
    BY <1>7, <1>9 DEF IInv, Shape
  <2>7. MapOf(Items(buckets', {}), IF arg'.value # NULL THEN before' ELSE Stored')
    BY <1>7, <2>1
  <2>8. StartResize(NewSize')
    BY <1>9, <2>1
  <2>. QED BY <1>6, <1>7, <1>8, <2>2, <2>4, <2>5, <2>6, <2>7, <2>8, ResizeInv
<1>10. CASE Return("delete", arg.key, spare)
  BY <1>1, <1>5, <1>6, <1>7, <1>8, <1>10, ShiftFacts, ReturnInv
<1>. QED BY <1>9, <1>10 DEF ShiftEnd

-----------------------------------------------------------------------------
(* Every step keeps the invariant, and does to the promised map what it should. *)

LEMMA RoundInv == ASSUME IInv, Round PROVE IInv'
<1>1. ASSUME MovePass PROVE IInv'
  BY <1>1, MovePassOn, MovePassSwap
<1>2. ASSUME Insert \/ Replace \/ SetPass PROVE IInv'
  BY <1>2, InsertInv, ReplaceInv, SetPassInv
<1>3. ASSUME ResizeScan \/ MoveEnd \/ ResizeEnd PROVE IInv'
  BY <1>3, ResizeScanInv, MoveEndInv, ResizeEndInv
<1>4. ASSUME NotFound \/ SearchPass \/ GetFound PROVE IInv'
  BY <1>4, NotFoundInv, SearchPassInv, GetFoundInv
<1>5. ASSUME DeleteFound \/ Shift \/ ShiftEnd PROVE IInv'
  BY <1>5, DeleteFoundInv, ShiftInv, ShiftEndInv
<1>. QED BY <1>1, <1>2, <1>3, <1>4, <1>5 DEF Round

LEMMA NextInv == IInv /\ [Next]_vars => IInv'
<1>. SUFFICES ASSUME IInv, [Next]_vars PROVE IInv'
  OBVIOUS
<1>1. ASSUME NEW k \in Key, GetCall(k) \/ DeleteCall(k) \/ SetFails(k) PROVE IInv'
  BY <1>1, SearchCallInv, SetFailsInv
<1>2. ASSUME NEW k \in Key, NEW v \in Value, SetCall(k, v) PROVE IInv'
  BY <1>2, SetCallInv
<1>3. ASSUME NEW update_cap \in BOOLEAN, Clear(update_cap) PROVE IInv'
  BY <1>3, ClearInv
<1>4. ASSUME UNCHANGED vars PROVE IInv'
  <2>. USE <1>4 DEF vars, table, locals
  <2>1. Rebuilding' = Rebuilding /\ NewSize' = NewSize /\ Hole' = Hole /\ Stored' = Stored
        /\ Taken' = Taken
    BY DEF Rebuilding, NewSize, Hole, Stored, Taken
  <2>2. Shape'
    BY <2>1 DEF IInv, Shape
  <2>3. Counted'
    BY <2>1 DEF IInv, Counted
  <2>4. Ordered'
    BY <2>1 DEF IInv, Ordered
  <2>5. OneEach'
    BY <2>1 DEF IInv, OneEach
  <2>6. Promised'
    BY <2>1 DEF IInv, Promised
  <2>. QED BY <2>2, <2>3, <2>4, <2>5, <2>6 DEF IInv
<1>. QED BY <1>1, <1>2, <1>3, <1>4, RoundInv DEF Next

LEMMA Invariance == Spec => []IInv
BY InitInv, NextInv, PTL DEF Spec

-----------------------------------------------------------------------------
(* From the invariant to the properties. *)

LEMMA IsReached ==
  ASSUME NEW n \in Nat \ {0, 1}, NEW t \in Table(n), NEW e \in Filled(n), NEW b \in 0 .. (n - 1),
         Placed(e, b, n), Path(t, n, b, e, {})
  PROVE Reached(t, b, e)
<1>1. Size(t) = n
  BY SizeOf
<1>2. e.dib \in 1 .. n
  BY DEF Filled
<1>3. (Home(e.item.key, n) + e.dib - 1) % n = b
  <2>1. Home(e.item.key, n) = Back(b, e.dib - 1, n)
    BY DEF Placed
  <2>2. CASE e.dib - 1 <= b
    BY <1>2, <2>1, <2>2 DEF Back
  <2>3. CASE ~ (e.dib - 1 <= b)
    <3>1. Home(e.item.key, n) + e.dib - 1 = b + n
      BY <1>2, <2>1, <2>3 DEF Back
    <3>2. (b + n) % n = b
      OBVIOUS
    <3>. QED BY <3>1, <3>2
  <2>. QED BY <2>2, <2>3
<1>4. ASSUME e.dib > 1 PROVE t[(b + n - 1) % n].dib >= e.dib - 1
  <2>1. (b + n - 1) % n = Back(b, 1, n)
    <3>1. CASE b = 0
      BY <3>1 DEF Back
    <3>2. CASE b # 0
      <4>1. b - 1 \in 0 .. (n - 1) /\ b + n - 1 = (b - 1) + n
        BY <3>2
      <4>2. ((b - 1) + n) % n = b - 1
        BY <4>1
      <4>. QED BY <3>2, <4>1, <4>2 DEF Back
    <3>. QED BY <3>1, <3>2
  <2>2. t[Back(b, 1, n)].dib >= e.dib - 1
    BY <1>2, <1>4 DEF Path
  <2>. QED BY <2>1, <2>2
<1>. QED BY <1>1, <1>3, <1>4 DEF Reached

LEMMA SoundReached ==
  ASSUME NEW n \in Nat \ {0, 1}, NEW t \in Table(n), Sound(t, n, {}), NEW b \in DOMAIN t, t[b].dib # 0
  PROVE Reached(t, b, t[b])
<1>1. b \in 0 .. (n - 1)
  BY DEF Table
<1>2. t[b] \in Filled(n)
  BY <1>1, TableEntry
<1>3. Placed(t[b], b, n) /\ Path(t, n, b, t[b], {})
  BY <1>1 DEF Sound
<1>. QED BY <1>1, <1>2, <1>3, IsReached

LEMMA InvSound == IInv => TableSound
<1>. SUFFICES ASSUME IInv PROVE TableSound
  OBVIOUS
<1>1. TypeOK
  <2>1. /\ cap \in Nat /\ nbuckets \in Nat /\ nbuckets >= cap /\ count \in Nat
        /\ buckets \in Table(nbuckets) /\ DOMAIN buckets = 0 .. (nbuckets - 1)
    BY TableFacts DEF IInv, Counted
  <2>2. new = <<>> \/ new \in Table(Size(new))
    BY RebuildFacts DEF IInv, Shape
  <2>3. op = "move" => entry \in Filled(Size(new)) /\ i \in DOMAIN new
    BY MoveFacts, RebuildFacts
  <2>4. /\ oom \in BOOLEAN
        /\ op \in {"idle", "set", "resize", "move", "get", "delete", "shift"}
        /\ arg \in [key : Key \cup {NULL}, value : Value \cup {NULL}]
        /\ op = "set" => entry \in Filled(nbuckets)
        /\ op \in {"set", "get", "delete", "shift"} => i \in 0 .. (nbuckets - 1)
        /\ src \in 0 .. nbuckets
        /\ spare \in Value \cup {NULL} /\ out.value \in Value \cup {NULL}
        /\ before \in [Key -> Value \cup {NULL}]
    BY DEF IInv, Shape
  <2>. QED BY <2>1, <2>2, <2>3, <2>4 DEF TypeOK
<1>2. op # "shift" => \A b \in DOMAIN buckets :
                        buckets[b].dib # 0 => Reached(buckets, b, buckets[b])
  BY TableFacts, UnhurtTable, SoundReached DEF LeftTable
<1>3. \A b \in DOMAIN new : new[b].dib # 0 => Reached(new, b, new[b])
  <2>1. CASE Rebuilding
    BY <2>1, RebuildFacts, SoundReached
  <2>2. CASE ~Rebuilding
    <3>1. new = <<>>
      BY <2>2 DEF IInv, Shape
    <3>2. DOMAIN <<>> = {}
      OBVIOUS
    <3>. QED BY <3>1, <3>2
  <2>. QED BY <2>1, <2>2
<1>4. op = "set" => Reached(buckets, i, entry)
  BY TableFacts, SetFacts, IsReached
<1>5. op = "move" => Reached(new, i, entry)
  BY MoveFacts, RebuildFacts, IsReached
<1>. QED BY <1>1, <1>2, <1>3, <1>4, <1>5 DEF TableSound, TableOrdered

LEMMA InvCount == IInv => CountExact
<1>. SUFFICES ASSUME IInv, op = "idle" PROVE
       /\ count = Cardinality(Used(buckets))
       /\ count = Cardinality({buckets[b].item.key : b \in Used(buckets)})
       /\ count <= GrowAt(nbuckets) /\ count < nbuckets
  BY DEF CountExact
<1>. DEFINE keys == {buckets[b].item.key : b \in Used(buckets)}
            f == [b \in Used(buckets) |-> buckets[b].item.key]
<1>1. f \in Bijection(Used(buckets), keys)
  <2>1. f \in [Used(buckets) -> keys] /\ \A k \in keys : \E b \in Used(buckets) : f[b] = k
    OBVIOUS
  <2>2. \A a, b \in Used(buckets) : f[a] = f[b] => a = b
    BY CallBegins DEF Distinct, Used
  <2>. HIDE DEF f, keys
  <2>3. f \in Injection(Used(buckets), keys)
    BY <2>1, <2>2 DEF Injection, IsInjective
  <2>4. f \in Surjection(Used(buckets), keys)
    BY <2>1 DEF Surjection
  <2>. QED BY <2>3, <2>4 DEF Bijection
<1>2. Cardinality(keys) = Cardinality(Used(buckets))
  BY <1>1, TableFacts, FS_Bijection DEF ExistsBijection
<1>3. count = Cardinality(Used(buckets)) /\ count <= GrowAt(nbuckets) /\ count < nbuckets
  BY CallBegins, TableFacts
<1>. QED BY <1>2, <1>3

-----------------------------------------------------------------------------
(* The table implements the map of Dictionary. *)

\* The promised map, while the table is being changed, too.
Held == IF op = "idle" THEN Contents(buckets) ELSE before

LEMMA FreshContents ==
  ASSUME NEW n \in Nat \ {0} PROVE Contents(Fresh(n)) = [k \in Key |-> NULL]
<1>1. \A b \in DOMAIN Fresh(n) : Fresh(n)[b].dib = 0
  BY EmptyFits DEF Fresh
<1>2. ASSUME NEW k \in Key PROVE {b \in DOMAIN Fresh(n) : Fresh(n)[b].dib # 0 /\ Fresh(n)[b].item.key = k} = {}
  BY <1>1
<1>. QED BY <1>2 DEF Contents

LEMMA InitKept == Init => Promise!Init
<1>. SUFFICES ASSUME Init PROVE Promise!Init
  OBVIOUS
<1>1. Contents(buckets) = [k \in Key |-> NULL]
  BY SizeAssumption, FreshContents DEF Init
<1>2. op = "idle" /\ out = Promise!Returned("new", NULL, NULL)
  BY DEF Init, Returned, Promise!Returned
<1>. QED BY <1>1, <1>2 DEF Promise!Init

\* A step inside a call does not show.
LEMMA Inside ==
  ASSUME op # "idle", op' # "idle", UNCHANGED <<before, out>> PROVE [Promise!Next]_Promise!vars
BY DEF Promise!vars

LEMMA Begun ==
  ASSUME op = "idle", op' # "idle", before' = Contents(buckets), UNCHANGED out
  PROVE [Promise!Next]_Promise!vars
BY DEF Promise!vars

\* A call that returns.
LEMMA SetKept ==
  ASSUME IInv, op = "set", NEW value, before[arg.key] = value, Return("set", arg.key, value),
         Contents(buckets') = Stored
  PROVE [Promise!Next]_Promise!vars
<1>1. op # "idle" /\ op' = "idle" /\ out' = Promise!Returned("set", arg.key, before[arg.key])
  BY DEF Return, Returned, Promise!Returned
<1>2. Contents(buckets') = [before EXCEPT ![arg.key] = arg.value]
  BY DEF Stored
<1>3. Promise!Set(arg.key, arg.value)
  BY <1>1, <1>2 DEF Promise!Set
<1>4. arg.key \in Key /\ arg.value \in Value
  BY SetFacts
<1>. QED BY <1>3, <1>4 DEF Promise!Next

LEMMA DeleteKept ==
  ASSUME IInv, op # "idle", arg.key \in Key, NEW value, before[arg.key] = value,
         Return("delete", arg.key, value), Contents(buckets') = [before EXCEPT ![arg.key] = NULL]
  PROVE [Promise!Next]_Promise!vars
<1>1. op' = "idle" /\ out' = Promise!Returned("delete", arg.key, before[arg.key])
  BY DEF Return, Returned, Promise!Returned
<1>2. Promise!Delete(arg.key)
  BY <1>1 DEF Promise!Delete
<1>. QED BY <1>2 DEF Promise!Next

LEMMA GetKept ==
  ASSUME IInv, op = "get", NEW value, before[arg.key] = value,
         Return("get", arg.key, value), UNCHANGED table
  PROVE [Promise!Next]_Promise!vars
<1>1. op # "idle" /\ op' = "idle" /\ out' = Promise!Returned("get", arg.key, before[arg.key])
  BY DEF Return, Returned, Promise!Returned
<1>2. Contents(buckets') = before /\ arg.key \in Key
  BY SearchFacts DEF table
<1>3. Promise!Get(arg.key)
  BY <1>1, <1>2 DEF Promise!Get
<1>. QED BY <1>2, <1>3 DEF Promise!Next

LEMMA NextKept == IInv /\ [Next]_vars => [Promise!Next]_Promise!vars
<1>. SUFFICES ASSUME IInv, [Next]_vars PROVE [Promise!Next]_Promise!vars
  OBVIOUS
<1>. DEFINE Kept == [Promise!Next]_Promise!vars
<1>1. ASSUME NEW k \in Key, NEW v \in Value, SetCall(k, v) PROVE Kept
  BY <1>1, Begun DEF SetCall, Call, StartResize, StartSet
<1>2. ASSUME NEW k \in Key, GetCall(k) \/ DeleteCall(k) PROVE Kept
  BY <1>2, Begun DEF GetCall, DeleteCall, Call, Search
<1>3. ASSUME NEW k \in Key, SetFails(k) PROVE Kept
  <2>1. Promise!NoMemory(k)
    BY <1>3 DEF SetFails, Return, Returned, table, Promise!NoMemory, Promise!Returned
  <2>. QED BY <2>1 DEF Promise!Next
<1>4. ASSUME NEW update_cap \in BOOLEAN, Clear(update_cap) PROVE Kept
  <2>1. op = "idle" /\ op' = "idle" /\ buckets' = Fresh(cap') /\ out' = out
    BY <1>4 DEF Clear
  <2>2. cap' \in Nat \ {0}
    BY <1>4, TableFacts DEF Clear
  <2>3. Promise!Clear
    BY <2>1, <2>2, FreshContents DEF Promise!Clear
  <2>. QED BY <2>3 DEF Promise!Next
<1>5. ASSUME Insert \/ Replace PROVE Kept
  <2>1. op = "set" /\ \E value : before[arg.key] = value /\ Return("set", arg.key, value)
    BY <1>5, InsertInv, ReplaceInv DEF Insert, Replace
  <2>2. Contents(buckets') = Stored
    BY <1>5, InsertInv, ReplaceInv
  <2>. QED BY <2>1, <2>2, SetKept
<1>6. ASSUME SetPass \/ ResizeScan \/ MovePass \/ MoveEnd \/ SearchPass \/ DeleteFound \/ Shift PROVE Kept
  <2>1. op # "idle" /\ op' # "idle" /\ UNCHANGED <<before, out>>
    BY <1>6 DEF SetPass, ResizeScan, MovePass, MoveEnd, SearchPass, DeleteFound, Shift
  <2>. QED BY <2>1, Inside
<1>7. ASSUME ResizeEnd PROVE Kept
  <2>1. op = "resize" /\ Rebuilding
    BY <1>7 DEF ResizeEnd, Rebuilding
  <2>2. CASE arg.value # NULL
    BY <1>7, <2>1, <2>2, ResizeEndInv, Inside DEF ResizeEnd
  <2>3. CASE arg.value = NULL
    <3>1. Return("delete", arg.key, spare) /\ before[arg.key] = spare /\ arg.key \in Key
      BY <1>7, <2>1, <2>3, ResizeEndInv, RebuildFacts DEF ResizeEnd
    <3>2. Contents(buckets') = [before EXCEPT ![arg.key] = NULL]
      BY <1>7, <2>3, ResizeEndInv DEF Stored
    <3>. QED BY <2>1, <3>1, <3>2, DeleteKept
  <2>. QED BY <2>2, <2>3
<1>8. ASSUME NotFound PROVE Kept
  <2>1. /\ op \in {"get", "delete"} /\ Return(op, arg.key, NULL) /\ UNCHANGED table
        /\ before[arg.key] = NULL
    BY <1>8, NotFoundInv DEF NotFound
  <2>2. CASE op = "get"
    BY <2>1, <2>2, GetKept
  <2>3. CASE op = "delete"
    <3>1. Contents(buckets') = before /\ arg.key \in Key /\ before \in [Key -> Value \cup {NULL}]
      BY <2>1, SearchFacts DEF table
    <3>2. Contents(buckets') = [before EXCEPT ![arg.key] = NULL]
      BY <2>1, <3>1
    <3>3. Return("delete", arg.key, NULL) /\ op # "idle"
      BY <2>1, <2>3
    <3>. QED BY <2>1, <3>1, <3>2, <3>3, DeleteKept
  <2>. QED BY <2>1, <2>2, <2>3
<1>9. ASSUME GetFound PROVE Kept
  <2>1. /\ op = "get" /\ Return("get", arg.key, buckets[i].item.value) /\ UNCHANGED table
        /\ before[arg.key] = buckets[i].item.value
    BY <1>9, GetFoundInv DEF GetFound
  <2>. QED BY <2>1, GetKept
<1>10. ASSUME ShiftEnd PROVE Kept
  <2>1. /\ op = "shift" /\ Contents(buckets') = Stored /\ before[arg.key] = spare
        /\ arg.key \in Key /\ arg.value = NULL
    BY <1>10, ShiftEndInv, ShiftFacts DEF ShiftEnd
  <2>2. CASE StartResize(nbuckets \div 2) /\ UNCHANGED <<arg, spare, out, before>>
    BY <2>1, <2>2, Inside DEF StartResize
  <2>3. CASE Return("delete", arg.key, spare)
    BY <2>1, <2>3, DeleteKept DEF Stored
  <2>. QED BY <1>10, <2>2, <2>3 DEF ShiftEnd
<1>11. ASSUME UNCHANGED vars PROVE Kept
  BY <1>11 DEF vars, table, Promise!vars
<1>. QED
  <2>. HIDE DEF Kept
  <2>1. Round => Kept
    BY <1>5, <1>6, <1>7, <1>8, <1>9, <1>10 DEF Round
  <2>2. Next => Kept
    BY <1>1, <1>2, <1>3, <1>4, <2>1 DEF Next
  <2>3. Kept
    BY <1>11, <2>2
  <2>. QED BY <2>3 DEF Kept

-----------------------------------------------------------------------------
(* The types of the table and of the locals of a call, and the order of    *)
(* the items: each is as far from its home as it says, and before it, from *)
(* its home on, are items no closer to theirs.  hashmap_get may stop at a  *)
(* free bucket, in a map of any size and with any hash.                    *)
THEOREM TableAlwaysSound == Spec => []TableSound
BY Invariance, InvSound, PTL

(* Between the calls of hashmap.c the counter is the number of items, which *)
(* have different keys, and leaves a free bucket.                           *)
THEOREM CountAlwaysExact == Spec => []CountExact
BY Invariance, InvCount, PTL

(* Each call of hashmap.c does to the table, when it returns, what it would *)
(* do to a map from keys to values, and returns the value of that map.      *)
THEOREM MapKept == Spec => ImplementsDictionary
<1>1. Spec => Promise!Init /\ [][Promise!Next]_Promise!vars
  BY InitKept, NextKept, Invariance, PTL DEF Spec
<1>. QED BY <1>1 DEF ImplementsDictionary, Promise!Spec
=============================================================================
