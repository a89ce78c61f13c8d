----------------------------- MODULE JsonProofs ------------------------------
(***************************************************************************)
(* json_parse_ex and json_value_free_ex, for any document and any limits   *)
(* of the lengths.                                                         *)
(*                                                                         *)
(* What both passes compute of a document, the values with the counts of   *)
(* each and the flags, is a function of its bytes: a point (After) comes   *)
(* from the one before it if the byte is accepted (Accepts).  While the    *)
(* first pass reads, its points so far are a trace (Trace); once it has    *)
(* ended, the second pass is at a point of that trace (SecondAt), so no    *)
(* byte can be refused, and its heap (SecondHeap) is filled up to the      *)
(* counts of that point and has the room of the last one.  Counts only     *)
(* grow along a trace (Grows); a key or a string that has begun is still   *)
(* owed its bytes and its value (Owed, TextPromised).  When values are     *)
(* freed, what the root leads to (Reach) is a path from the root (Path)    *)
(* and what is left of the values of those on it (Left); what it does not  *)
(* lead to stays.  IInv says all of this of each phase of a call.          *)
(***************************************************************************)
EXTENDS JsonParser, SequenceTheorems, FiniteSetTheorems, WellFoundedInduction, TLAPS

-----------------------------------------------------------------------------
(* What both passes compute of the document. *)

\* The types of values, with integers and doubles as one: the second pass does not read them.
Kind(type) == IF type \in {"integer", "double"} THEN "number" ELSE type
Kinds == {"array", "object", "string", "boolean", "null", "number"}
Containers == {"array", "object"}

\* The flags that do not belong to a number.
Control == {"seek_value", "need_comma", "need_colon", "string", "escaped", "done"}

\* A point in the document: the flags, the value that is being read, string_length, and the
\* values so far, with what the first pass counts for each.
Points == [flags : SUBSET Control, top : Nat, str : Nat, size : Nat,
           kind : [Nat -> Kinds \cup {"none"}], parent : [Nat -> Nat],
           len : [Nat -> Nat], keys : [Nat -> Nat]]

MakePoint(to, top, str, size, kind, parent, len, keys) ==
  [flags |-> to, top |-> top, str |-> str, size |-> size,
   kind |-> kind, parent |-> parent, len |-> len, keys |-> keys]

Start == MakePoint({"seek_value"}, 0, 0, 0, [v \in Nat |-> "none"],
                   [v \in Nat |-> 0], [v \in Nat |-> 0], [v \in Nat |-> 0])

\* Only the flags and string_length change.
With(c, to, str) == MakePoint(to, c.top, str, c.size, c.kind, c.parent, c.len, c.keys)

\* A key of n bytes ends.
Keyed(c, n, to) ==
  MakePoint(to, c.top, c.str, c.size, c.kind, c.parent, c.len, [c.keys EXCEPT ![c.top] = @ + n + 1])

\* The value at the top is a string of n bytes.
Measured(c, n) ==
  MakePoint(c.flags, c.top, c.str, c.size, c.kind, c.parent, [c.len EXCEPT ![c.top] = n], c.keys)

\* A value begins in the one at the top.
Begun(c, kind, to, str) ==
  LET v == c.size + 1
  IN  MakePoint(to, v, str, v, [c.kind EXCEPT ![v] = kind], [c.parent EXCEPT ![v] = c.top],
                c.len, c.keys)

\* The value at the top ends, in p.
Room(c, p) == p = 0 \/ c.len[p] < UintMax
EndFlags(c, p, rest) == rest \cup {"need_comma"} \cup
  (IF p = 0 THEN {"done"} ELSE IF c.kind[p] = "array" THEN {"seek_value"} ELSE {})

Closed(c, rest) ==
  LET p == c.parent[c.top]
  IN  IF p = 0 THEN With(c, EndFlags(c, p, rest), c.str)
      ELSE MakePoint(EndFlags(c, p, rest), p, c.str, c.size, c.kind, c.parent,
                     [c.len EXCEPT ![p] = @ + 1], c.keys)

WidthOf(c, b) == IF "escaped" \in c.flags /\ b \in DOMAIN Unicode THEN Unicode[b] ELSE 1

Quote(c, b) == "escaped" \notin c.flags /\ b = "\""

AfterInString(c, b) ==
  IF "escaped" \notin c.flags /\ b = "\\" THEN With(c, c.flags \cup {"escaped"}, c.str)
  ELSE IF Quote(c, b)
    THEN IF c.kind[c.top] = "object"
           THEN Keyed(c, c.str, (c.flags \ {"string"}) \cup {"seek_value", "need_colon"})
           ELSE Closed(Measured(c, c.str), c.flags \ {"string"})
    ELSE With(c, c.flags \ {"escaped"}, c.str + WidthOf(c, b))

AcceptsInString(c, b) ==
  /\ b # "end" /\ b # "bad unicode" /\ c.str <= UintMax
  /\ Quote(c, b) => c.kind[c.top] = "object" \/ Room(c, c.parent[c.top])

KindOf(b) == IF b = "{" THEN "object" ELSE IF b = "[" THEN "array" ELSE IF b = "\"" THEN "string"
             ELSE IF b = "null" THEN "null" ELSE IF b \in {"true", "false"} THEN "boolean"
             ELSE "number"

AfterOpen(c, b) ==
  Begun(c, KindOf(b),
        IF b = "[" THEN c.flags
        ELSE IF b = "{" THEN c.flags \ {"seek_value"} ELSE (c.flags \ {"seek_value"}) \cup {"string"},
        IF b = "\"" THEN 0 ELSE c.str)

AfterSeeking(c, b) ==
  IF b = " " THEN c
  ELSE IF b = "]" THEN Closed(c, c.flags \ {"need_comma", "seek_value"})
  ELSE IF b = "," THEN With(c, c.flags \ {"need_comma"}, c.str)
  ELSE IF b = ":" THEN With(c, c.flags \ {"need_colon"}, c.str)
  ELSE IF b \in {"{", "[", "\""} THEN AfterOpen(c, b)
  ELSE Closed(Begun(c, KindOf(b), c.flags \ {"seek_value"}, c.str), c.flags \ {"seek_value"})

Ready(c) == "need_comma" \notin c.flags /\ "need_colon" \notin c.flags

AcceptsSeeking(c, b) ==
  \/ b = " "
  \/ b = "]" /\ c.top # 0 /\ c.kind[c.top] = "array" /\ Room(c, c.parent[c.top])
  \/ b = "," /\ "need_comma" \in c.flags
  \/ b = ":" /\ "need_comma" \notin c.flags /\ "need_colon" \in c.flags
  \/ b \in {"{", "[", "\""} /\ Ready(c)
  \/ b \in Literals \cup Digits \cup {"-"} /\ Ready(c) /\ Room(c, c.top)

AfterInObject(c, b) ==
  IF b = "\"" THEN With(c, c.flags \cup {"string"}, 0)
  ELSE IF b = "}" THEN Closed(c, c.flags \ {"need_comma"})
  ELSE IF b = "," THEN With(c, c.flags \ {"need_comma"}, c.str)
  ELSE c

AcceptsInObject(c, b) ==
  \/ b = " "
  \/ b = "\"" /\ "need_comma" \notin c.flags
  \/ b = "}" /\ Room(c, c.parent[c.top])
  \/ b = "," /\ "need_comma" \in c.flags

After(c, b) == IF "string" \in c.flags THEN AfterInString(c, b)
               ELSE IF "done" \in c.flags THEN c
               ELSE IF "seek_value" \in c.flags THEN AfterSeeking(c, b)
               ELSE AfterInObject(c, b)

Accepts(c, b) == IF "string" \in c.flags THEN AcceptsInString(c, b)
                 ELSE IF "done" \in c.flags THEN b = " "
                 ELSE IF "seek_value" \in c.flags THEN AcceptsSeeking(c, b)
                 ELSE AcceptsInObject(c, b)

\* What holds at each point: of the values, and of the one at the top.
ValuesOK(c) ==
  /\ \A v \in Nat : v \notin 1 .. c.size =>
       c.kind[v] = "none" /\ c.parent[v] = 0 /\ c.len[v] = 0 /\ c.keys[v] = 0
  /\ \A v \in 1 .. c.size :
       /\ c.kind[v] # "none" /\ c.parent[v] < v /\ (c.parent[v] = 0 <=> v = 1)
       /\ c.parent[v] # 0 => c.kind[c.parent[v]] \in Containers
       /\ c.len[v] # 0 => c.kind[v] \in Containers \cup {"string"}
       /\ c.keys[v] # 0 => c.kind[v] = "object"

TopOK(c) ==
  /\ c.top \in 0 .. c.size /\ (c.top = 0 => c.size = 0 /\ c.flags = {"seek_value"})
  /\ IF "done" \in c.flags THEN c.top = 1 /\ "string" \notin c.flags /\ "seek_value" \notin c.flags
     ELSE IF "string" \in c.flags
       THEN /\ "seek_value" \notin c.flags
            /\ c.kind[c.top] = "object" \/ (c.kind[c.top] = "string" /\ c.len[c.top] = 0)
     ELSE IF "seek_value" \in c.flags THEN c.top = 0 \/ c.kind[c.top] \in Containers
     ELSE c.kind[c.top] = "object"

PointOK(c) == c \in Points /\ ValuesOK(c) /\ TopOK(c)

LEMMA StartOK == PointOK(Start)
BY DEF PointOK, ValuesOK, TopOK, Start, MakePoint, Points, Control

LEMMA WithPoint ==
  ASSUME NEW c \in Points, NEW to \in SUBSET Control, NEW str \in Nat
  PROVE With(c, to, str) \in Points
BY DEF Points, With, MakePoint

LEMMA WithOK ==
  ASSUME NEW c, PointOK(c), NEW to \in SUBSET Control, NEW str \in Nat, TopOK(With(c, to, str))
  PROVE PointOK(With(c, to, str))
BY WithPoint DEF PointOK, ValuesOK, With, MakePoint

LEMMA KeyedOK ==
  ASSUME NEW c, PointOK(c), NEW to \in SUBSET Control, NEW n \in Nat,
         c.top # 0, c.kind[c.top] = "object", "seek_value" \in to, "string" \notin to, "done" \notin to
  PROVE PointOK(Keyed(c, n, to))
<1>1. Keyed(c, n, to) \in Points
  BY DEF PointOK, Points, Keyed, MakePoint
<1>2. ValuesOK(Keyed(c, n, to))
  BY DEF PointOK, Points, ValuesOK, TopOK, Keyed, MakePoint
<1>3. TopOK(Keyed(c, n, to))
  BY DEF PointOK, Points, TopOK, Keyed, MakePoint, Containers
<1>. QED BY <1>1, <1>2, <1>3 DEF PointOK

LEMMA BegunOK ==
  ASSUME NEW c, PointOK(c), NEW kind \in Kinds, NEW to \in SUBSET Control, NEW str \in Nat,
         "seek_value" \in c.flags
  PROVE /\ Begun(c, kind, to, str) \in Points
        /\ ValuesOK(Begun(c, kind, to, str))
<1>1. Begun(c, kind, to, str) \in Points
  BY DEF PointOK, Points, Begun, MakePoint
<1>2. ValuesOK(Begun(c, kind, to, str))
  <2>. DEFINE d == Begun(c, kind, to, str)
  <2>1. /\ d.size = c.size + 1 /\ d.kind = [c.kind EXCEPT ![c.size + 1] = kind]
        /\ d.parent = [c.parent EXCEPT ![c.size + 1] = c.top] /\ d.len = c.len /\ d.keys = c.keys
    BY DEF Begun, MakePoint
  <2>2. /\ c.size \in Nat /\ c.top \in 0 .. c.size /\ (c.top = 0 => c.size = 0)
        /\ c.kind \in [Nat -> Kinds \cup {"none"}] /\ c.parent \in [Nat -> Nat]
        /\ c.top # 0 => c.kind[c.top] \in Containers
        /\ kind # "none"
    BY DEF PointOK, Points, TopOK, Kinds
  <2>3. ValuesOK(c)
    BY DEF PointOK
  <2>. HIDE DEF d
  <2>4. ASSUME NEW v \in Nat, v \notin 1 .. d.size
        PROVE d.kind[v] = "none" /\ d.parent[v] = 0 /\ d.len[v] = 0 /\ d.keys[v] = 0
    BY <2>1, <2>2, <2>3, <2>4 DEF ValuesOK
  <2>5. ASSUME NEW v \in 1 .. d.size
        PROVE /\ d.kind[v] # "none" /\ d.parent[v] < v /\ (d.parent[v] = 0 <=> v = 1)
              /\ d.parent[v] # 0 => d.kind[d.parent[v]] \in Containers
              /\ d.len[v] # 0 => d.kind[v] \in Containers \cup {"string"}
              /\ d.keys[v] # 0 => d.kind[v] = "object"
    <3>1. CASE v = c.size + 1
      BY <2>1, <2>2, <2>3, <3>1 DEF ValuesOK
    <3>2. CASE v \in 1 .. c.size
      <4>1. d.kind[v] = c.kind[v] /\ d.parent[v] = c.parent[v]
        BY <2>1, <2>2, <3>2
      <4>2. c.parent[v] \in Nat /\ c.parent[v] < v
        BY <2>2, <2>3, <3>2 DEF ValuesOK
      <4>3. d.kind[c.parent[v]] = c.kind[c.parent[v]]
        BY <2>1, <2>2, <3>2, <4>2
      <4>. QED BY <2>1, <2>3, <3>2, <4>1, <4>2, <4>3 DEF ValuesOK
    <3>. QED BY <2>1, <2>2, <3>1, <3>2
  <2>. QED BY <2>4, <2>5 DEF d, ValuesOK
<1>. QED BY <1>1, <1>2

LEMMA ClosedOK ==
  ASSUME NEW c \in Points, ValuesOK(c), c.top \in 1 .. c.size, NEW rest \in SUBSET Control,
         "string" \notin rest, "done" \notin rest, "seek_value" \notin rest
  PROVE PointOK(Closed(c, rest))
<1>. DEFINE p == c.parent[c.top]  d == Closed(c, rest)
<1>0. /\ p \in Nat /\ c.size \in Nat /\ (p = 0 <=> c.top = 1)
      /\ p # 0 => p \in 1 .. c.size /\ c.kind[p] \in Containers
      /\ EndFlags(c, p, rest) \in SUBSET Control
  BY DEF Points, ValuesOK, EndFlags, Control
<1>1. CASE p = 0
  <2>1. d = With(c, EndFlags(c, p, rest), c.str)
    BY <1>1 DEF Closed
  <2>2. d \in Points
    <3>1. c.str \in Nat
      BY DEF Points
    <3>. HIDE DEF d, p
    <3>. QED BY <1>0, <2>1, <3>1, WithPoint
  <2>3. ValuesOK(d)
    BY <2>1 DEF With, MakePoint, ValuesOK
  <2>4. TopOK(d)
    BY <1>0, <1>1, <2>1 DEF With, MakePoint, TopOK, EndFlags
  <2>. QED BY <2>2, <2>3, <2>4 DEF PointOK
<1>2. CASE p # 0
  <2>1. d = MakePoint(EndFlags(c, p, rest), p, c.str, c.size, c.kind, c.parent,
                      [c.len EXCEPT ![p] = @ + 1], c.keys)
    BY <1>2 DEF Closed
  <2>2. d \in Points
    BY <1>0, <2>1 DEF MakePoint, Points
  <2>3. ValuesOK(d)
    BY <1>0, <1>2, <2>1 DEF MakePoint, ValuesOK, Points
  <2>4. TopOK(d)
    BY <1>0, <1>2, <2>1 DEF MakePoint, TopOK, EndFlags, Containers
  <2>. QED BY <2>2, <2>3, <2>4 DEF PointOK
<1>. QED BY <1>1, <1>2

\* Each byte that is accepted leads to a point again.
LEMMA AfterOK ==
  ASSUME NEW c, PointOK(c), NEW b, Accepts(c, b)
  PROVE PointOK(After(c, b))
<1>. DEFINE d == After(c, b)
<1>0. /\ c \in Points /\ c.flags \in SUBSET Control /\ c.str \in Nat /\ c.size \in Nat
      /\ c.top \in 0 .. c.size /\ ValuesOK(c) /\ TopOK(c)
      /\ c.kind \in [Nat -> Kinds \cup {"none"}] /\ c.len \in [Nat -> Nat]
  BY DEF PointOK, Points, TopOK
<1>1. CASE "string" \in c.flags
  <2>0. d = AfterInString(c, b) /\ c.top # 0
    BY <1>0, <1>1 DEF After, TopOK
  <2>1. CASE "escaped" \notin c.flags /\ b = "\\"
    <3>1. d = With(c, c.flags \cup {"escaped"}, c.str)
      BY <2>0, <2>1 DEF AfterInString
    <3>2. TopOK(With(c, c.flags \cup {"escaped"}, c.str))
      BY <1>0, <1>1 DEF TopOK, With, MakePoint
    <3>3. c.flags \cup {"escaped"} \in SUBSET Control
      BY <1>0 DEF Control
    <3>. QED BY <1>0, <3>1, <3>2, <3>3, WithOK
  <2>2. CASE Quote(c, b) /\ c.kind[c.top] = "object"
    <3>. DEFINE to == (c.flags \ {"string"}) \cup {"seek_value", "need_colon"}
    <3>1. d = Keyed(c, c.str, to)
      BY <2>0, <2>2 DEF AfterInString, Quote
    <3>2. to \in SUBSET Control /\ "seek_value" \in to /\ "string" \notin to /\ "done" \notin to
      BY <1>0, <1>1 DEF Control, TopOK
    <3>. QED BY <1>0, <2>0, <2>2, <3>1, <3>2, KeyedOK
  <2>3. CASE Quote(c, b) /\ c.kind[c.top] # "object"
    <3>. DEFINE e == Measured(c, c.str)
    <3>1. d = Closed(e, c.flags \ {"string"})
      BY <2>0, <2>3 DEF AfterInString, Quote
    <3>2. e \in Points /\ e.top = c.top /\ e.size = c.size
      BY <1>0 DEF Measured, MakePoint, Points
    <3>3. ValuesOK(e)
      <4>1. c.kind[c.top] = "string"
        BY <1>0, <1>1, <2>3 DEF TopOK
      <4>. QED BY <1>0, <2>0, <4>1 DEF Measured, MakePoint, ValuesOK
    <3>4. /\ c.flags \ {"string"} \in SUBSET Control
          /\ "done" \notin c.flags /\ "seek_value" \notin c.flags /\ c.top \in 1 .. c.size
      BY <1>0, <1>1, <2>0 DEF TopOK
    <3>. HIDE DEF e
    <3>. QED BY <3>1, <3>2, <3>3, <3>4, ClosedOK
  <2>4. CASE ~Quote(c, b) /\ ~("escaped" \notin c.flags /\ b = "\\")
    <3>1. d = With(c, c.flags \ {"escaped"}, c.str + WidthOf(c, b))
      BY <2>0, <2>4 DEF AfterInString
    <3>2. c.str + WidthOf(c, b) \in Nat
      <4>1. WidthOf(c, b) \in {1, 2, 3, 4}
        BY DEF WidthOf, Unicode
      <4>. QED BY <1>0, <4>1
    <3>3. TopOK(With(c, c.flags \ {"escaped"}, c.str + WidthOf(c, b)))
      BY <1>0, <1>1 DEF TopOK, With, MakePoint
    <3>. QED BY <1>0, <3>1, <3>2, <3>3, WithOK
  <2>. QED BY <2>1, <2>2, <2>3, <2>4
<1>2. CASE "string" \notin c.flags /\ "done" \in c.flags
  BY <1>2 DEF After
<1>3. CASE "string" \notin c.flags /\ "done" \notin c.flags /\ "seek_value" \in c.flags
  <2>0. d = AfterSeeking(c, b) /\ AcceptsSeeking(c, b)
    BY <1>3 DEF After, Accepts
  <2>1. CASE b = " "
    BY <2>0, <2>1 DEF AfterSeeking
  <2>2. CASE b = "]"
    <3>1. d = Closed(c, c.flags \ {"need_comma", "seek_value"}) /\ c.top # 0
      BY <2>0, <2>2 DEF AfterSeeking, AcceptsSeeking, Literals, Digits
    <3>. QED BY <1>0, <1>3, <3>1, ClosedOK
  <2>3. CASE b \in {",", ":"}
    <3>. DEFINE to == c.flags \ (IF b = "," THEN {"need_comma"} ELSE {"need_colon"})
    <3>1. d = With(c, to, c.str)
      BY <2>0, <2>3 DEF AfterSeeking
    <3>2. TopOK(With(c, to, c.str))
      <4>1. c.top # 0
        BY <1>0, <2>0, <2>3 DEF TopOK, AcceptsSeeking, Literals, Digits
      <4>. QED BY <1>0, <1>3, <2>3, <4>1 DEF TopOK, With, MakePoint
    <3>. QED BY <1>0, <3>1, <3>2, WithOK
  <2>4. CASE b \in {"{", "[", "\""}
    <3>. DEFINE to == IF b = "[" THEN c.flags
                      ELSE IF b = "{" THEN c.flags \ {"seek_value"}
                      ELSE (c.flags \ {"seek_value"}) \cup {"string"}
                str == IF b = "\"" THEN 0 ELSE c.str
    <3>1. d = Begun(c, KindOf(b), to, str)
      BY <2>0, <2>4 DEF AfterSeeking, AfterOpen
    <3>2. to \in SUBSET Control /\ str \in Nat /\ KindOf(b) \in Kinds
      BY <1>0 DEF Control, KindOf, Kinds
    <3>3. TopOK(Begun(c, KindOf(b), to, str))
      <4>1. LET e == Begun(c, KindOf(b), to, str)
            IN  e.top = c.size + 1 /\ e.size = c.size + 1 /\ e.flags = to
                /\ e.kind[c.size + 1] = KindOf(b) /\ e.len = c.len
        BY <1>0 DEF Begun, MakePoint
      <4>2. c.len[c.size + 1] = 0
        BY <1>0 DEF ValuesOK
      <4>. DEFINE e == Begun(c, KindOf(b), to, str)
      <4>3. "done" \notin to /\ c.size + 1 # 0 /\ c.size + 1 \in 0 .. (c.size + 1)
        BY <1>0, <1>3
      <4>4. IF b = "\"" THEN /\ KindOf(b) = "string" /\ "string" \in to
                             /\ "seek_value" \notin to
            ELSE IF b = "{" THEN /\ KindOf(b) = "object" /\ "string" \notin to
                                 /\ "seek_value" \notin to
            ELSE KindOf(b) = "array" /\ "string" \notin to /\ "seek_value" \in to
        BY <1>0, <1>3, <2>4 DEF KindOf
      <4>. HIDE DEF to, str, e
      <4>5. e.top = c.size + 1 /\ e.size = c.size + 1 /\ e.flags = to
            /\ e.kind[c.size + 1] = KindOf(b) /\ e.len[c.size + 1] = 0
        BY <4>1, <4>2 DEF e
      <4>6. TopOK(e)
        BY <4>3, <4>4, <4>5 DEF TopOK, Containers
      <4>. QED BY <4>6 DEF e
    <3>. HIDE DEF to, str
    <3>. QED BY <1>0, <1>3, <3>1, <3>2, <3>3, BegunOK DEF PointOK
  <2>5. CASE b \notin {" ", "]", ",", ":", "{", "[", "\""}
    <3>. DEFINE e == Begun(c, KindOf(b), c.flags \ {"seek_value"}, c.str)
    <3>1. d = Closed(e, c.flags \ {"seek_value"})
      BY <2>0, <2>5 DEF AfterSeeking
    <3>2. e \in Points /\ ValuesOK(e)
      <4>1. KindOf(b) \in Kinds
        BY DEF KindOf, Kinds
      <4>. QED BY <1>0, <1>3, <4>1, BegunOK
    <3>3. e.top \in 1 .. e.size
      BY <1>0 DEF Begun, MakePoint
    <3>. HIDE DEF e
    <3>. QED BY <1>0, <1>3, <3>1, <3>2, <3>3, ClosedOK
  <2>. QED BY <2>1, <2>2, <2>3, <2>4, <2>5
<1>4. CASE "string" \notin c.flags /\ "done" \notin c.flags /\ "seek_value" \notin c.flags
  <2>0. /\ d = AfterInObject(c, b) /\ AcceptsInObject(c, b)
        /\ c.top # 0 /\ c.kind[c.top] = "object"
    BY <1>0, <1>4 DEF After, Accepts, TopOK
  <2>1. CASE b = "\""
    <3>1. d = With(c, c.flags \cup {"string"}, 0)
      BY <2>0, <2>1 DEF AfterInObject
    <3>2. TopOK(With(c, c.flags \cup {"string"}, 0)) /\ c.flags \cup {"string"} \in SUBSET Control
      BY <1>0, <1>4, <2>0 DEF TopOK, With, MakePoint, Control
    <3>. QED BY <1>0, <3>1, <3>2, WithOK
  <2>2. CASE b = "}"
    <3>1. d = Closed(c, c.flags \ {"need_comma"})
      BY <2>0, <2>2 DEF AfterInObject
    <3>. QED BY <1>0, <1>4, <2>0, <3>1, ClosedOK
  <2>3. CASE b = ","
    <3>1. d = With(c, c.flags \ {"need_comma"}, c.str)
      BY <2>0, <2>3 DEF AfterInObject
    <3>2. TopOK(With(c, c.flags \ {"need_comma"}, c.str))
      BY <1>0, <1>4, <2>0 DEF TopOK, With, MakePoint
    <3>. QED BY <1>0, <3>1, <3>2, WithOK
  <2>4. CASE b \notin {"\"", "}", ","}
    BY <2>0, <2>4 DEF AfterInObject
  <2>. QED BY <2>1, <2>2, <2>3, <2>4
<1>. QED BY <1>1, <1>2, <1>3, <1>4

-----------------------------------------------------------------------------
(* Nothing that is counted gets less. *)

Grows(c, d) ==
  /\ c.size <= d.size
  /\ \A v \in 1 .. c.size : d.kind[v] = c.kind[v] /\ d.parent[v] = c.parent[v]
  /\ \A v \in Nat : c.len[v] <= d.len[v] /\ c.keys[v] <= d.keys[v]

LEMMA GrowsSame ==
  ASSUME NEW c \in Points, NEW d, d.size = c.size, d.kind = c.kind, d.parent = c.parent,
         \A v \in Nat : c.len[v] <= d.len[v] /\ c.keys[v] <= d.keys[v]
  PROVE Grows(c, d)
BY DEF Grows, Points

LEMMA GrowsWith ==
  ASSUME NEW c \in Points, NEW to, NEW str
  PROVE Grows(c, With(c, to, str))
<1>. DEFINE d == With(c, to, str)
<1>1. d.size = c.size /\ d.kind = c.kind /\ d.parent = c.parent /\ d.len = c.len /\ d.keys = c.keys
  BY DEF With, MakePoint
<1>2. \A v \in Nat : c.len[v] \in Nat /\ c.keys[v] \in Nat
  BY DEF Points
<1>. HIDE DEF d
<1>3. \A v \in Nat : c.len[v] <= d.len[v] /\ c.keys[v] <= d.keys[v]
  BY <1>1, <1>2
<1>4. Grows(c, d)
  BY <1>1, <1>3, GrowsSame
<1>. QED BY <1>4 DEF d

LEMMA GrowsSelf == ASSUME NEW c \in Points PROVE Grows(c, c)
BY DEF Grows, Points

LEMMA GrowsOn ==
  ASSUME NEW c \in Points, NEW d \in Points, NEW e \in Points, Grows(c, d), Grows(d, e)
  PROVE Grows(c, e)
<1>1. c.size \in Nat /\ d.size \in Nat /\ e.size \in Nat
  BY DEF Points
<1>2. \A v \in Nat : /\ c.len[v] \in Nat /\ d.len[v] \in Nat /\ e.len[v] \in Nat
                     /\ c.keys[v] \in Nat /\ d.keys[v] \in Nat /\ e.keys[v] \in Nat
  BY DEF Points
<1>3. \A v \in Nat : c.len[v] <= e.len[v] /\ c.keys[v] <= e.keys[v]
  BY <1>2 DEF Grows
<1>4. \A v \in 1 .. c.size : v \in 1 .. d.size
  BY <1>1 DEF Grows
<1>. QED BY <1>1, <1>3, <1>4 DEF Grows

LEMMA GrowsKeyed ==
  ASSUME NEW c \in Points, NEW n \in Nat, NEW to
  PROVE Grows(c, Keyed(c, n, to))
<1>. DEFINE d == Keyed(c, n, to)
<1>1. d.size = c.size /\ d.kind = c.kind /\ d.parent = c.parent /\ d.len = c.len
      /\ d.keys = [c.keys EXCEPT ![c.top] = @ + n + 1]
  BY DEF Keyed, MakePoint
<1>2. c.len \in [Nat -> Nat] /\ c.keys \in [Nat -> Nat] /\ c.top \in Nat
  BY DEF Points
<1>. HIDE DEF d
<1>3. \A v \in Nat : c.len[v] <= d.len[v] /\ c.keys[v] <= d.keys[v]
  BY <1>1, <1>2
<1>4. Grows(c, d)
  BY <1>1, <1>3, GrowsSame
<1>. QED BY <1>4 DEF d

LEMMA GrowsBegun ==
  ASSUME NEW c \in Points, NEW kind, NEW to, NEW str
  PROVE Grows(c, Begun(c, kind, to, str))
<1>. DEFINE d == Begun(c, kind, to, str)
<1>1. d.size = c.size + 1 /\ d.kind = [c.kind EXCEPT ![c.size + 1] = kind]
      /\ d.parent = [c.parent EXCEPT ![c.size + 1] = c.top] /\ d.len = c.len /\ d.keys = c.keys
  BY DEF Begun, MakePoint
<1>2. c.len \in [Nat -> Nat] /\ c.keys \in [Nat -> Nat] /\ c.size \in Nat
      /\ DOMAIN c.kind = Nat /\ DOMAIN c.parent = Nat
  BY DEF Points
<1>. HIDE DEF d
<1>3. \A v \in 1 .. c.size : v \in Nat /\ v # c.size + 1
  BY <1>2
<1>4. Grows(c, d)
  BY <1>1, <1>2, <1>3 DEF Grows
<1>. QED BY <1>4 DEF d

LEMMA GrowsMeasured ==
  ASSUME NEW c \in Points, c.len[c.top] = 0
  PROVE Grows(c, Measured(c, c.str)) /\ Measured(c, c.str) \in Points
<1>. DEFINE d == Measured(c, c.str)
<1>1. d.size = c.size /\ d.kind = c.kind /\ d.parent = c.parent /\ d.keys = c.keys
      /\ d.len = [c.len EXCEPT ![c.top] = c.str]
  BY DEF Measured, MakePoint
<1>2. c.len \in [Nat -> Nat] /\ c.keys \in [Nat -> Nat] /\ c.top \in Nat /\ c.str \in Nat
  BY DEF Points
<1>3. d \in Points
  BY DEF Points, Measured, MakePoint
<1>. HIDE DEF d
<1>4. \A v \in Nat : c.len[v] <= d.len[v] /\ c.keys[v] <= d.keys[v]
  BY <1>1, <1>2
<1>5. Grows(c, d)
  BY <1>1, <1>4, GrowsSame
<1>. QED BY <1>3, <1>5 DEF d

LEMMA GrowsClosed ==
  ASSUME NEW c \in Points, NEW rest
  PROVE Grows(c, Closed(c, rest))
<1>. DEFINE p == c.parent[c.top]  d == Closed(c, rest)
<1>1. CASE p = 0
  BY <1>1, GrowsWith DEF Closed
<1>2. CASE p # 0
  <2>1. d.size = c.size /\ d.kind = c.kind /\ d.parent = c.parent /\ d.keys = c.keys
        /\ d.len = [c.len EXCEPT ![p] = @ + 1]
    BY <1>2 DEF Closed, MakePoint
  <2>2. c.len \in [Nat -> Nat] /\ c.keys \in [Nat -> Nat] /\ p \in Nat
    BY DEF Points
  <2>. HIDE DEF d, p
  <2>3. \A v \in Nat : c.len[v] <= d.len[v] /\ c.keys[v] <= d.keys[v]
    BY <2>1, <2>2
  <2>4. Grows(c, d)
    BY <2>1, <2>3, GrowsSame
  <2>. QED BY <2>4 DEF d
<1>. QED BY <1>1, <1>2

LEMMA AfterGrows ==
  ASSUME NEW c, PointOK(c), NEW b, Accepts(c, b)
  PROVE Grows(c, After(c, b))
<1>. SUFFICES ASSUME NEW d, d = After(c, b) PROVE Grows(c, d)
  OBVIOUS
<1>0. c \in Points /\ TopOK(c) /\ d \in Points /\ Grows(c, c) /\ c.str \in Nat
  BY AfterOK, GrowsSelf DEF PointOK, Points
<1>1. CASE "string" \in c.flags
  <2>0. d = AfterInString(c, b)
    BY <1>1 DEF After
  <2>1. CASE Quote(c, b) /\ c.kind[c.top] # "object"
    <3>. DEFINE e == Measured(c, c.str)
    <3>1. d = Closed(e, c.flags \ {"string"})
      BY <2>0, <2>1 DEF AfterInString, Quote
    <3>2. c.len[c.top] = 0
      BY <1>0, <1>1, <2>1 DEF TopOK
    <3>3. Grows(c, e) /\ e \in Points
      BY <1>0, <3>2, GrowsMeasured
    <3>. HIDE DEF e
    <3>4. Grows(e, d)
      BY <3>1, <3>3, GrowsClosed
    <3>. QED BY <1>0, <3>3, <3>4, GrowsOn
  <2>2. CASE ~(Quote(c, b) /\ c.kind[c.top] # "object")
    <3>1. \/ \E to, str : d = With(c, to, str)
          \/ \E to : d = Keyed(c, c.str, to)
      BY <2>0, <2>2 DEF AfterInString
    <3>. QED BY <1>0, <3>1, GrowsKeyed, GrowsWith
  <2>. QED BY <2>1, <2>2
<1>2. CASE "string" \notin c.flags /\ "done" \in c.flags
  BY <1>0, <1>2 DEF After
<1>3. CASE "string" \notin c.flags /\ "done" \notin c.flags /\ "seek_value" \in c.flags
  <2>0. d = AfterSeeking(c, b)
    BY <1>3 DEF After
  <2>1. CASE b \in {" ", "]", ",", ":", "{", "[", "\""}
    <3>1. \/ d = c
          \/ \E rest : d = Closed(c, rest)
          \/ \E to : d = With(c, to, c.str)
          \/ \E kind, to, str : d = Begun(c, kind, to, str)
      BY <2>0, <2>1 DEF AfterSeeking, AfterOpen
    <3>. QED BY <1>0, <3>1, GrowsClosed, GrowsWith, GrowsBegun
  <2>2. CASE b \notin {" ", "]", ",", ":", "{", "[", "\""}
    <3>. DEFINE e == Begun(c, KindOf(b), c.flags \ {"seek_value"}, c.str)
    <3>1. d = Closed(e, c.flags \ {"seek_value"})
      BY <2>0, <2>2 DEF AfterSeeking
    <3>2. Grows(c, e) /\ e \in Points
      <4>1. KindOf(b) \in Kinds /\ c.flags \ {"seek_value"} \in SUBSET Control
        BY <1>0 DEF KindOf, Kinds, Points
      <4>. QED BY <1>0, <1>3, <4>1, BegunOK, GrowsBegun
    <3>. HIDE DEF e
    <3>4. Grows(e, d)
      BY <3>1, <3>2, GrowsClosed
    <3>. QED BY <1>0, <3>2, <3>4, GrowsOn
  <2>. QED BY <2>1, <2>2
<1>4. CASE "string" \notin c.flags /\ "done" \notin c.flags /\ "seek_value" \notin c.flags
  BY <1>0, <1>4, GrowsClosed, GrowsWith DEF After, AfterInObject
<1>. QED BY <1>1, <1>2, <1>3, <1>4

-----------------------------------------------------------------------------
(* Inductions. *)

\* A set of numbers has a least one.
LEMMA Least ==
  ASSUME NEW S \in SUBSET Nat, S # {}
  PROVE \E m \in S : \A n \in S : m <= n
<1>1. IsWellFoundedOn(OpToRel(<, Nat), Nat)
  BY NatLessThanWellFounded
<1>2. PICK m \in S : \A n \in S : <<n, m>> \notin OpToRel(<, Nat)
  BY <1>1, WFMin
<1>3. \A n \in S : ~ (n < m)
  BY <1>2 DEF OpToRel
<1>. QED BY <1>3

\* A set of numbers that goes on from i to m.
LEMMA Upward ==
  ASSUME NEW i \in Nat, NEW m \in Nat, NEW S, i \in S,
         \A n \in i .. (m - 1) : n \in S => n + 1 \in S
  PROVE \A n \in i .. m : n \in S
<1>. DEFINE Bad == {n \in i .. m : n \notin S}
<1>1. SUFFICES ASSUME Bad # {} PROVE FALSE
  OBVIOUS
<1>2. PICK n \in Bad : \A k \in Bad : n <= k
  <2>1. Bad \in SUBSET Nat
    OBVIOUS
  <2>. HIDE DEF Bad
  <2>. QED BY <1>1, <2>1, Least
<1>3. n # i /\ n - 1 \in i .. (m - 1) /\ n - 1 \in i .. m /\ (n - 1) + 1 = n
  OBVIOUS
<1>4. n - 1 \in S
  BY <1>2, <1>3
<1>. QED BY <1>3, <1>4

-----------------------------------------------------------------------------
(* The points in the order of the document. *)

InDigits(c, b) == /\ "string" \notin c.flags /\ "done" \notin c.flags /\ "seek_value" \in c.flags
                  /\ Ready(c) /\ b \in Digits \cup {"-"}

\* The byte at x leads to y, or the number that begins there.
Follows(x, y) ==
  LET b == doc[x.pos + 1]
  IN  /\ x.pos < Len(doc) /\ Accepts(x.point, b) /\ y.point = After(x.point, b)
      /\ IF InDigits(x.point, b)
           THEN y.pos >= x.pos /\ \A i \in (x.pos + 1) .. y.pos : doc[i] \in NumberBytes
           ELSE y.pos = x.pos + 1

Trace(H, m) ==
  /\ m \in Nat \ {0} /\ H[1].point = Start /\ H[1].pos = 0
  /\ \A i \in 1 .. m : PointOK(H[i].point) /\ H[i].pos \in 0 .. Len(doc)
  /\ \A i \in 1 .. (m - 1) : Follows(H[i], H[i + 1])

\* The document ends there.
WholeTrace(H, m) ==
  /\ Trace(H, m) /\ "done" \in H[m].point.flags
  /\ H[m].pos < Len(doc) /\ doc[H[m].pos + 1] = "end"

LEMMA TraceGrows ==
  ASSUME NEW H, NEW m, Trace(H, m), NEW i \in 1 .. m, NEW j \in i .. m
  PROVE Grows(H[i].point, H[j].point) /\ H[i].pos <= H[j].pos
<1>. DEFINE S == {n \in i .. m : Grows(H[i].point, H[n].point) /\ H[i].pos <= H[n].pos}
<1>0. m \in Nat /\ i \in Nat /\ \A n \in i .. m : n \in 1 .. m
  BY DEF Trace
<1>p. \A n \in 1 .. m : PointOK(H[n].point) /\ H[n].point \in Points /\ H[n].pos \in Nat
  BY DEF Trace, PointOK
<1>1. i \in S
  BY <1>0, <1>p, GrowsSelf
<1>2. ASSUME NEW n \in i .. (m - 1), n \in S PROVE n + 1 \in S
  <2>0. n \in 1 .. (m - 1) /\ n \in 1 .. m /\ n + 1 \in 1 .. m /\ n + 1 \in i .. m
    BY <1>0
  <2>1. Follows(H[n], H[n + 1])
    BY <2>0 DEF Trace
  <2>2. Grows(H[n].point, H[n + 1].point) /\ H[n].pos <= H[n + 1].pos
    BY <1>p, <2>0, <2>1, AfterGrows DEF Follows
  <2>3. Grows(H[i].point, H[n + 1].point)
    BY <1>0, <1>2, <1>p, <2>0, <2>2, GrowsOn
  <2>4. H[i].pos <= H[n + 1].pos
    BY <1>0, <1>2, <1>p, <2>0, <2>2
  <2>. QED BY <2>0, <2>3, <2>4
<1>. HIDE DEF S
<1>3. \A n \in i .. m : n \in S
  BY <1>0, <1>1, <1>2, Upward
<1>. QED BY <1>3 DEF S

-----------------------------------------------------------------------------
(* What is begun will be counted: a key that is being read in the object v, which has l    *)
(* values, among s in all, belongs to a value that is yet to come.                         *)

InKey(d, v, l, keys, str, s) ==
  /\ "string" \in d.flags /\ d.top = v /\ d.kind[v] = "object" /\ d.len[v] = l
  /\ d.keys[v] = keys /\ str <= d.str /\ d.size = s

BeforeValue(d, v, l, K, s) ==
  /\ "string" \notin d.flags /\ "done" \notin d.flags /\ "seek_value" \in d.flags
  /\ d.top = v /\ d.kind[v] = "object" /\ d.len[v] = l /\ K <= d.keys[v] /\ d.size = s

InValue(d, v, l, K, s) ==
  /\ d.len[v] = l /\ K <= d.keys[v] /\ s < d.top
  /\ \A w \in (s + 1) .. d.size : d.parent[w] = v \/ d.parent[w] > s

Counted(d, v, l, K) == l < d.len[v] /\ K <= d.keys[v]

Owed(d, v, l, keys, str, s) ==
  LET K == keys + str + 1
  IN  \/ InKey(d, v, l, keys, str, s) \/ BeforeValue(d, v, l, K, s)
      \/ InValue(d, v, l, K, s) \/ Counted(d, v, l, K)

LEMMA InValueBegins ==
  ASSUME NEW s \in Nat, NEW v \in 1 .. s, NEW l \in Nat, NEW K \in Nat, NEW d, PointOK(d),
         NEW kind, NEW to, NEW str,
         InValue(d, v, l, K, s) \/ BeforeValue(d, v, l, K, s)
  PROVE InValue(Begun(d, kind, to, str), v, l, K, s)
<1>. DEFINE e == Begun(d, kind, to, str)
<1>1. /\ e.size = d.size + 1 /\ e.top = d.size + 1 /\ e.len = d.len /\ e.keys = d.keys
      /\ e.parent = [d.parent EXCEPT ![d.size + 1] = d.top]
  BY DEF Begun, MakePoint
<1>2. d.size \in Nat /\ DOMAIN d.parent = Nat /\ d.top \in 0 .. d.size
  BY DEF PointOK, Points, TopOK
<1>. HIDE DEF e
<1>3. \A w \in (s + 1) .. e.size : e.parent[w] = v \/ e.parent[w] > s
  BY <1>1, <1>2 DEF InValue, BeforeValue
<1>4. InValue(e, v, l, K, s)
  BY <1>1, <1>2, <1>3 DEF InValue, BeforeValue
<1>. QED BY <1>4 DEF e

LEMMA InValueEnds ==
  ASSUME NEW s \in Nat, NEW v \in 1 .. s, NEW l \in Nat, NEW K \in Nat,
         NEW d \in Points, d.top \in 1 .. d.size, NEW rest, InValue(d, v, l, K, s)
  PROVE \/ InValue(Closed(d, rest), v, l, K, s)
        \/ Counted(Closed(d, rest), v, l, K)
<1>. DEFINE e == Closed(d, rest)  p == d.parent[d.top]
<1>0. d.top \in (s + 1) .. d.size /\ p # 0 /\ (p = v \/ p > s) /\ p \in Nat
      /\ d.len \in [Nat -> Nat]
  BY DEF InValue, Points
<1>1. /\ e.size = d.size /\ e.top = p /\ e.len = [d.len EXCEPT ![p] = @ + 1] /\ e.keys = d.keys
      /\ e.parent = d.parent
  BY <1>0 DEF Closed, MakePoint
<1>. HIDE DEF e, p
<1>2. InValue(e, v, l, K, s) \/ Counted(e, v, l, K)
  BY <1>0, <1>1 DEF InValue, Counted
<1>. QED BY <1>2 DEF e

LEMMA OwedOn ==
  ASSUME NEW s \in Nat, NEW v \in 1 .. s, NEW l \in Nat, NEW keys \in Nat, NEW str \in Nat,
         NEW d, PointOK(d), NEW b, Accepts(d, b), Owed(d, v, l, keys, str, s)
  PROVE Owed(After(d, b), v, l, keys, str, s)
<1>. SUFFICES ASSUME NEW e, e = After(d, b), NEW K, K = keys + str + 1
              PROVE Owed(e, v, l, keys, str, s)
  OBVIOUS
<1>. DEFINE Goal == InValue(e, v, l, K, s) \/ Counted(e, v, l, K)
<1>g. Goal => Owed(e, v, l, keys, str, s)
  BY DEF Owed
<1>0. /\ d \in Points /\ ValuesOK(d) /\ TopOK(d) /\ K \in Nat /\ PointOK(e) /\ e \in Points
      /\ Grows(d, e) /\ d.str \in Nat /\ d.keys \in [Nat -> Nat] /\ d.len \in [Nat -> Nat]
      /\ d.size \in Nat /\ d.top \in 0 .. d.size
  <2>1. PointOK(e) /\ Grows(d, e)
    BY AfterOK, AfterGrows
  <2>2. K \in Nat
    OBVIOUS
  <2>. QED BY <2>1, <2>2 DEF PointOK, Points, TopOK
<1>1. CASE InKey(d, v, l, keys, str, s)
  <2>0. e = AfterInString(d, b) /\ d.kind[d.top] = "object" /\ d.top = v
    BY <1>1 DEF After, InKey
  <2>1. CASE "escaped" \notin d.flags /\ b = "\\"
    <3>1. e = With(d, d.flags \cup {"escaped"}, d.str)
      BY <2>0, <2>1 DEF AfterInString
    <3>2. InKey(e, v, l, keys, str, s)
      BY <1>1, <3>1 DEF InKey, With, MakePoint
    <3>. QED BY <3>2 DEF Owed
  <2>2. CASE Quote(d, b)
    <3>. DEFINE to == (d.flags \ {"string"}) \cup {"seek_value", "need_colon"}
    <3>1. e = Keyed(d, d.str, to)
      BY <2>0, <2>2 DEF AfterInString, Quote
    <3>2. "string" \notin to /\ "done" \notin to /\ "seek_value" \in to
      BY <1>0, <1>1 DEF TopOK, InKey
    <3>. HIDE DEF to
    <3>3. e.flags = to /\ e.top = v /\ e.kind = d.kind /\ e.len = d.len /\ e.size = d.size
          /\ e.keys = [d.keys EXCEPT ![v] = @ + d.str + 1]
      BY <2>0, <3>1 DEF Keyed, MakePoint
    <3>4. K <= e.keys[v]
      BY <1>0, <1>1, <3>3 DEF InKey
    <3>5. BeforeValue(e, v, l, K, s)
      BY <1>1, <3>2, <3>3, <3>4 DEF InKey, BeforeValue
    <3>. QED BY <3>5 DEF Owed
  <2>3. CASE ~Quote(d, b) /\ ~("escaped" \notin d.flags /\ b = "\\")
    <3>1. e = With(d, d.flags \ {"escaped"}, d.str + WidthOf(d, b))
      BY <2>0, <2>3 DEF AfterInString
    <3>2. WidthOf(d, b) \in {1, 2, 3, 4}
      BY DEF WidthOf, Unicode
    <3>3. str <= d.str + WidthOf(d, b)
      BY <1>0, <1>1, <3>2 DEF InKey
    <3>4. InKey(e, v, l, keys, str, s)
      BY <1>1, <3>1, <3>3 DEF InKey, With, MakePoint
    <3>. QED BY <3>4 DEF Owed
  <2>. QED BY <2>1, <2>2, <2>3 DEF Quote
<1>2. CASE BeforeValue(d, v, l, K, s)
  <2>0. e = AfterSeeking(d, b) /\ AcceptsSeeking(d, b) /\ d.kind[d.top] = "object"
    BY <1>2 DEF After, Accepts, BeforeValue
  <2>1. b # "]"
    BY <2>0 DEF AcceptsSeeking, Literals, Digits
  <2>2. CASE b \in {" ", ",", ":"}
    <3>1. e = d \/ e = With(d, d.flags \ {"need_comma"}, d.str) \/ e = With(d, d.flags \ {"need_colon"}, d.str)
      BY <2>0, <2>2 DEF AfterSeeking
    <3>2. BeforeValue(e, v, l, K, s)
      BY <1>2, <3>1 DEF BeforeValue, With, MakePoint
    <3>. QED BY <3>2 DEF Owed
  <2>3. CASE b \in {"{", "[", "\""}
    <3>1. \E kind, to, st : e = Begun(d, kind, to, st)
      BY <2>0, <2>3 DEF AfterSeeking, AfterOpen
    <3>2. InValue(e, v, l, K, s)
      BY <1>0, <1>2, <3>1, InValueBegins
    <3>. QED BY <3>2 DEF Owed
  <2>4. CASE b \notin {" ", "]", ",", ":", "{", "[", "\""}
    <3>. DEFINE f == Begun(d, KindOf(b), d.flags \ {"seek_value"}, d.str)
    <3>1. e = Closed(f, d.flags \ {"seek_value"})
      BY <2>0, <2>4 DEF AfterSeeking
    <3>2. InValue(f, v, l, K, s)
      BY <1>0, <1>2, InValueBegins
    <3>3. f \in Points /\ f.top \in 1 .. f.size
      <4>1. KindOf(b) \in Kinds /\ d.flags \ {"seek_value"} \in SUBSET Control
        BY <1>0 DEF KindOf, Kinds, Points
      <4>2. f.top = d.size + 1 /\ f.size = d.size + 1
        BY DEF Begun, MakePoint
      <4>. QED BY <1>0, <1>2, <4>1, <4>2, BegunOK DEF BeforeValue
    <3>. HIDE DEF f
    <3>4. Goal
      BY <1>0, <3>1, <3>2, <3>3, InValueEnds
    <3>. QED BY <1>g, <3>4
  <2>. QED BY <2>1, <2>2, <2>3, <2>4
<1>3. CASE InValue(d, v, l, K, s)
  <2>0. d.top \in (s + 1) .. d.size /\ d.top # v /\ d.top # 1 /\ d.top \in 1 .. d.size
    BY <1>0, <1>3 DEF InValue
  <2>a. ASSUME NEW to, NEW st PROVE InValue(With(d, to, st), v, l, K, s)
    BY <1>3 DEF InValue, With, MakePoint
  <2>b. ASSUME NEW kind, NEW to, NEW st PROVE InValue(Begun(d, kind, to, st), v, l, K, s)
    BY <1>0, <1>3, InValueBegins
  <2>c. ASSUME NEW rest PROVE Owed(Closed(d, rest), v, l, keys, str, s)
    BY <1>0, <1>3, <2>0, InValueEnds DEF Owed
  <2>1. CASE "string" \in d.flags
    <3>0. e = AfterInString(d, b)
      BY <2>1 DEF After
    <3>1. CASE Quote(d, b) /\ d.kind[d.top] # "object"
      <4>. DEFINE f == Measured(d, d.str)
      <4>1. e = Closed(f, d.flags \ {"string"})
        BY <3>0, <3>1 DEF AfterInString, Quote
      <4>2. d.len[d.top] = 0
        BY <1>0, <2>1, <3>1 DEF TopOK
      <4>3. f \in Points
        BY <1>0, <4>2, GrowsMeasured
      <4>4. f.top = d.top /\ f.size = d.size /\ f.keys = d.keys /\ f.parent = d.parent
            /\ f.len = [d.len EXCEPT ![d.top] = d.str]
        BY DEF Measured, MakePoint
      <4>. HIDE DEF f
      <4>5. InValue(f, v, l, K, s)
        BY <1>0, <1>3, <2>0, <4>4 DEF InValue
      <4>6. f.top \in 1 .. f.size
        BY <2>0, <4>4
      <4>7. InValue(Closed(f, d.flags \ {"string"}), v, l, K, s)
            \/ Counted(Closed(f, d.flags \ {"string"}), v, l, K)
        BY <1>0, <4>3, <4>5, <4>6, InValueEnds
      <4>8. Goal
        BY <4>1, <4>7
      <4>. QED BY <1>g, <4>8
    <3>2. CASE Quote(d, b) /\ d.kind[d.top] = "object"
      <4>. DEFINE to == (d.flags \ {"string"}) \cup {"seek_value", "need_colon"}
      <4>1. e = Keyed(d, d.str, to)
        BY <3>0, <3>2 DEF AfterInString, Quote
      <4>. HIDE DEF to
      <4>2. e.top = d.top /\ e.size = d.size /\ e.len = d.len /\ e.parent = d.parent
            /\ e.keys = [d.keys EXCEPT ![d.top] = @ + d.str + 1]
        BY <4>1 DEF Keyed, MakePoint
      <4>3. InValue(e, v, l, K, s)
        BY <1>0, <1>3, <2>0, <4>2 DEF InValue
      <4>. QED BY <4>3 DEF Owed
    <3>3. CASE ~Quote(d, b)
      <4>1. \E to, st : e = With(d, to, st)
        BY <3>0, <3>3 DEF AfterInString
      <4>. QED BY <2>a, <4>1 DEF Owed
    <3>. QED BY <3>1, <3>2, <3>3
  <2>2. CASE "string" \notin d.flags
    <3>1. "done" \notin d.flags
      BY <1>0, <2>0 DEF TopOK
    <3>2. CASE "seek_value" \in d.flags /\ b \notin {" ", "]", ",", ":", "{", "[", "\""}
      <4>. DEFINE f == Begun(d, KindOf(b), d.flags \ {"seek_value"}, d.str)
      <4>1. e = Closed(f, d.flags \ {"seek_value"})
        BY <2>2, <3>1, <3>2 DEF After, AfterSeeking
      <4>2. InValue(f, v, l, K, s)
        BY <2>b
      <4>3. f \in Points /\ f.top \in 1 .. f.size
        <5>1. KindOf(b) \in Kinds /\ d.flags \ {"seek_value"} \in SUBSET Control
          BY <1>0 DEF KindOf, Kinds, Points
        <5>2. f.top = d.size + 1 /\ f.size = d.size + 1
          BY DEF Begun, MakePoint
        <5>3. f \in Points
          BY <1>0, <3>2, <5>1, BegunOK
        <5>. HIDE DEF f
        <5>. QED BY <1>0, <5>2, <5>3
      <4>. HIDE DEF f
      <4>4. Goal
        BY <1>0, <4>1, <4>2, <4>3, InValueEnds
      <4>. QED BY <1>g, <4>4
    <3>3. CASE ~("seek_value" \in d.flags /\ b \notin {" ", "]", ",", ":", "{", "[", "\""})
      <4>1. \/ e = d
            \/ \E to, st : e = With(d, to, st)
            \/ \E kind, to, st : e = Begun(d, kind, to, st)
            \/ \E rest : e = Closed(d, rest)
        BY <2>2, <3>1, <3>3 DEF After, AfterSeeking, AfterInObject, AfterOpen
      <4>. QED BY <1>3, <2>a, <2>b, <2>c, <4>1 DEF Owed
    <3>. QED BY <3>2, <3>3
  <2>. QED BY <2>1, <2>2
<1>4. CASE Counted(d, v, l, K)
  <2>1. v \in Nat
    OBVIOUS
  <2>2. d.len[v] <= e.len[v] /\ d.keys[v] <= e.keys[v]
    BY <1>0, <2>1 DEF Grows
  <2>3. e.len[v] \in Nat /\ e.keys[v] \in Nat /\ d.len[v] \in Nat /\ d.keys[v] \in Nat
    BY <1>0, <2>1 DEF Points
  <2>4. Counted(e, v, l, K)
    BY <1>0, <1>4, <2>2, <2>3 DEF Counted
  <2>. QED BY <2>4 DEF Owed
<1>. QED BY <1>1, <1>2, <1>3, <1>4 DEF Owed

LEMMA KeyPromised ==
  ASSUME NEW H, NEW m, Trace(H, m), "done" \in H[m].point.flags, NEW k \in 1 .. m,
         NEW c, c = H[k].point, "string" \in c.flags, c.kind[c.top] = "object"
  PROVE /\ c.len[c.top] < H[m].point.len[c.top]
        /\ c.keys[c.top] + c.str + 1 <= H[m].point.keys[c.top]
<1>. DEFINE v == c.top  l == c.len[v]  K == c.keys[v]
            S == {n \in k .. m : Owed(H[n].point, v, l, K, c.str, c.size)}
<1>0. m \in Nat /\ k \in Nat /\ m \in k .. m /\ \A n \in k .. m : n \in 1 .. m
  BY DEF Trace
<1>p. \A n \in 1 .. m : PointOK(H[n].point)
  BY DEF Trace
<1>1. PointOK(c) /\ c \in Points /\ TopOK(c) /\ c.str \in Nat /\ c.size \in Nat
      /\ v \in 1 .. c.size /\ l \in Nat /\ K \in Nat
  <2>1. PointOK(c)
    BY <1>p
  <2>. QED BY <2>1 DEF PointOK, Points, TopOK
<1>. HIDE DEF v, l, K
<1>2. k \in S
  <2>1. InKey(c, v, l, K, c.str, c.size)
    BY <1>1 DEF InKey, v, l, K
  <2>. QED BY <1>0, <2>1 DEF Owed
<1>3. ASSUME NEW n \in k .. (m - 1), n \in S PROVE n + 1 \in S
  <2>0. n \in 1 .. (m - 1) /\ n \in 1 .. m /\ n + 1 \in k .. m
    BY <1>0
  <2>1. Follows(H[n], H[n + 1])
    BY <2>0 DEF Trace
  <2>2. PICK d, b : d = H[n].point /\ b = doc[H[n].pos + 1]
    OBVIOUS
  <2>3. PointOK(d) /\ Accepts(d, b) /\ Owed(d, v, l, K, c.str, c.size) /\ H[n + 1].point = After(d, b)
    BY <1>p, <1>3, <2>0, <2>1, <2>2 DEF Follows
  <2>4. Owed(After(d, b), v, l, K, c.str, c.size)
    BY <1>1, <2>3, OwedOn
  <2>5. Owed(H[n + 1].point, v, l, K, c.str, c.size)
    BY <2>3, <2>4
  <2>. QED BY <2>0, <2>5
<1>4. m \in S
  <2>. HIDE DEF S
  <2>1. \A n \in k .. m : n \in S
    BY <1>0, <1>2, <1>3, Upward
  <2>. QED BY <1>0, <2>1
<1>5. PointOK(H[m].point) /\ TopOK(H[m].point)
  BY <1>0, <1>p DEF PointOK
<1>6. Counted(H[m].point, v, l, K + c.str + 1)
  <2>1. ~InKey(H[m].point, v, l, K, c.str, c.size)
    BY <1>5 DEF InKey, TopOK
  <2>2. ~BeforeValue(H[m].point, v, l, K + c.str + 1, c.size)
    BY DEF BeforeValue
  <2>3. ~InValue(H[m].point, v, l, K + c.str + 1, c.size)
    BY <1>1, <1>5 DEF InValue, TopOK
  <2>. QED BY <1>4, <2>1, <2>2, <2>3 DEF Owed
<1>. QED BY <1>6 DEF Counted, v, l, K

\* The bytes of a string that is being read will be counted.
InText(d, v, str) == "string" \in d.flags /\ d.top = v /\ d.kind[v] = "string" /\ str <= d.str

LEMMA InTextOn ==
  ASSUME NEW d, PointOK(d), NEW v \in Nat, NEW str \in Nat, NEW b, Accepts(d, b),
         InText(d, v, str) \/ str <= d.len[v]
  PROVE InText(After(d, b), v, str) \/ str <= After(d, b).len[v]
<1>. SUFFICES ASSUME NEW e, e = After(d, b) PROVE InText(e, v, str) \/ str <= e.len[v]
  OBVIOUS
<1>0. PointOK(e) /\ Grows(d, e) /\ d \in Points /\ e \in Points /\ d.str \in Nat /\ TopOK(d)
      /\ d.len[v] \in Nat /\ e.len[v] \in Nat
  <2>1. PointOK(e) /\ Grows(d, e)
    BY AfterOK, AfterGrows
  <2>. QED BY <2>1 DEF PointOK, Points
<1>1. CASE str <= d.len[v]
  BY <1>0, <1>1 DEF Grows
<1>2. CASE InText(d, v, str)
  <2>0. e = AfterInString(d, b)
    BY <1>2 DEF After, InText
  <2>1. CASE "escaped" \notin d.flags /\ b = "\\"
    <3>1. e = With(d, d.flags \cup {"escaped"}, d.str)
      BY <2>0, <2>1 DEF AfterInString
    <3>. QED BY <1>2, <3>1 DEF InText, With, MakePoint
  <2>2. CASE Quote(d, b)
    <3>. DEFINE f == Measured(d, d.str)
    <3>1. e = Closed(f, d.flags \ {"string"})
      BY <1>2, <2>0, <2>2 DEF AfterInString, Quote, InText
    <3>2. d.len[d.top] = 0
      BY <1>0, <1>2 DEF TopOK, InText
    <3>3. f \in Points
      BY <1>0, <3>2, GrowsMeasured
    <3>4. f.len[v] = d.str
      BY <1>0, <1>2 DEF Measured, MakePoint, InText, Points
    <3>. HIDE DEF f
    <3>5. Grows(f, e)
      BY <3>1, <3>3, GrowsClosed
    <3>. QED BY <1>0, <1>2, <3>4, <3>5 DEF Grows, InText
  <2>3. CASE ~Quote(d, b) /\ ~("escaped" \notin d.flags /\ b = "\\")
    <3>1. e = With(d, d.flags \ {"escaped"}, d.str + WidthOf(d, b))
      BY <2>0, <2>3 DEF AfterInString
    <3>2. WidthOf(d, b) \in {1, 2, 3, 4}
      BY DEF WidthOf, Unicode
    <3>3. str <= d.str + WidthOf(d, b)
      BY <1>0, <1>2, <3>2 DEF InText
    <3>. QED BY <1>2, <3>1, <3>3 DEF InText, With, MakePoint
  <2>. QED BY <2>1, <2>2, <2>3 DEF Quote
<1>. QED BY <1>1, <1>2

LEMMA TextPromised ==
  ASSUME NEW H, NEW m, Trace(H, m), "done" \in H[m].point.flags, NEW k \in 1 .. m,
         NEW c, c = H[k].point, "string" \in c.flags, c.kind[c.top] = "string"
  PROVE c.str <= H[m].point.len[c.top]
<1>. DEFINE S == {n \in k .. m : InText(H[n].point, c.top, c.str) \/ c.str <= H[n].point.len[c.top]}
<1>0. m \in Nat /\ k \in Nat /\ m \in k .. m /\ \A n \in k .. m : n \in 1 .. m
  BY DEF Trace
<1>p. \A n \in 1 .. m : PointOK(H[n].point)
  BY DEF Trace
<1>1. PointOK(c) /\ c.str \in Nat /\ c.top \in Nat
  <2>1. PointOK(c)
    BY <1>p
  <2>. QED BY <2>1 DEF PointOK, Points
<1>2. k \in S
  BY <1>0, <1>1 DEF InText
<1>3. ASSUME NEW n \in k .. (m - 1), n \in S PROVE n + 1 \in S
  <2>0. n \in 1 .. (m - 1) /\ n \in 1 .. m /\ n + 1 \in k .. m
    BY <1>0
  <2>1. Follows(H[n], H[n + 1])
    BY <2>0 DEF Trace
  <2>2. InText(H[n + 1].point, c.top, c.str) \/ c.str <= H[n + 1].point.len[c.top]
    BY <1>p, <1>1, <1>3, <2>0, <2>1, InTextOn DEF Follows
  <2>. QED BY <2>0, <2>2
<1>4. m \in S
  <2>. HIDE DEF S
  <2>1. \A n \in k .. m : n \in S
    BY <1>0, <1>2, <1>3, Upward
  <2>. QED BY <1>0, <2>1
<1>5. TopOK(H[m].point)
  BY <1>0, <1>p DEF PointOK
<1>. QED BY <1>4, <1>5 DEF InText, TopOK

\* There is a point behind one that does not end the document, and none behind one that does.
LEMMA NextPoint ==
  ASSUME NEW H, NEW m, WholeTrace(H, m), NEW k \in 1 .. m, doc \in Seq(Bytes)
  PROVE /\ H[k].pos < Len(doc)
        /\ k # m => /\ k + 1 \in 1 .. m /\ Follows(H[k], H[k + 1])
                    /\ doc[H[k].pos + 1] # "end"
<1>0. m \in Nat /\ Trace(H, m) /\ m \in k .. m
  BY DEF WholeTrace, Trace
<1>1. H[k].pos <= H[m].pos /\ H[k].pos \in 0 .. Len(doc) /\ H[m].pos \in 0 .. Len(doc)
  <2>1. H[k].pos <= H[m].pos
    BY <1>0, TraceGrows
  <2>2. m \in 1 .. m
    BY <1>0 DEF Trace
  <2>. QED BY <1>0, <2>1, <2>2 DEF Trace
<1>2. H[k].pos < Len(doc)
  <2>1. Len(doc) \in Nat
    BY LenProperties
  <2>. QED BY <1>1, <2>1 DEF WholeTrace
<1>3. ASSUME k # m
      PROVE k + 1 \in 1 .. m /\ Follows(H[k], H[k + 1]) /\ doc[H[k].pos + 1] # "end"
  <2>1. k + 1 \in 1 .. m /\ Follows(H[k], H[k + 1])
    BY <1>0, <1>3 DEF Trace
  <2>2. doc[H[k].pos + 1] # "end"
    BY <2>1 DEF Follows, Accepts, AcceptsInString, AcceptsSeeking, AcceptsInObject, Literals, Digits
  <2>. QED BY <2>1, <2>2
<1>. QED BY <1>2, <1>3

-----------------------------------------------------------------------------
(* Records and heaps. *)

Fields == {"type", "parent", "next", "length", "keys", "data", "cap", "room", "used",
           "items", "names", "text", "bool", "num"}

NodeOK(n, v) ==
  /\ DOMAIN n = Fields /\ n.parent \in 0 .. (v - 1) /\ n.next \in {0, v + 1}
  /\ n.length \in Nat /\ n.keys \in Nat /\ n.used \in Nat

IsSeq(s) == \E S : s \in Seq(S)

HeapOK(h) ==
  /\ DOMAIN h = {"node", "live", "top", "root", "alloc"} /\ IsSeq(h.node)
  /\ {h.top, h.root, h.alloc} \subseteq 0 .. Len(h.node)
  /\ h.live \subseteq {"value", "data"} \X (1 .. Len(h.node))
  /\ \A v \in 1 .. Len(h.node) : NodeOK(h.node[v], v)

\* g is h with another record v, and another value at the top.
Updated(h, g, v, n, top) ==
  /\ g.live = h.live /\ g.root = h.root /\ g.alloc = h.alloc /\ g.top = top
  /\ Len(g.node) = Len(h.node) /\ g.node[v] = n
  /\ \A u \in 1 .. Len(h.node) : u # v => g.node[u] = h.node[u]

\* m tells as much as n of the tree and of what is allocated.
Same(n, m) ==
  /\ Kind(m.type) = Kind(n.type) /\ m.parent = n.parent /\ m.length = n.length /\ m.keys = n.keys
  /\ m.data = n.data /\ m.cap = n.cap /\ m.room = n.room /\ m.used = n.used
  /\ m.items = n.items /\ m.names = n.names

LEMMA SeqIs ==
  ASSUME NEW s, IsSeq(s)
  PROVE Len(s) \in Nat /\ DOMAIN s = 1 .. Len(s)
BY LenProperties DEF IsSeq

LEMMA SeqWide ==
  ASSUME NEW s, IsSeq(s), NEW x
  PROVE \E S : s \in Seq(S) /\ x \in S
<1>1. PICK S : s \in Seq(S)
  BY DEF IsSeq
<1>2. s \in Seq(S \cup {x})
  BY <1>1
<1>. QED BY <1>2

IsPut(s, v, x, t) == t = [s EXCEPT ![v] = x]
IsAdded(s, x, t) == t = Append(s, x)

LEMMA SeqPut ==
  ASSUME NEW s, IsSeq(s), NEW v \in 1 .. Len(s), NEW x, NEW t, IsPut(s, v, x, t)
  PROVE /\ IsSeq(t) /\ Len(t) = Len(s) /\ t[v] = x
        /\ \A u \in 1 .. Len(s) : u # v => t[u] = s[u]
<1>1. PICK S : s \in Seq(S) /\ x \in S
  BY SeqWide
<1>. QED BY <1>1, ExceptSeq DEF IsSeq, IsPut

LEMMA SeqAdd ==
  ASSUME NEW s, IsSeq(s), NEW x, NEW t, IsAdded(s, x, t)
  PROVE /\ IsSeq(t) /\ Len(t) = Len(s) + 1 /\ t[Len(s) + 1] = x
        /\ \A u \in 1 .. Len(s) : t[u] = s[u]
<1>1. PICK S : s \in Seq(S) /\ x \in S
  BY SeqWide
<1>. QED BY <1>1, AppendProperties DEF IsSeq, IsAdded

LEMMA SetNode ==
  ASSUME NEW h, HeapOK(h), NEW v \in 1 .. Len(h.node), NEW n, NodeOK(n, v),
         NEW top \in 0 .. Len(h.node),
         NEW g, \/ g = [h EXCEPT !.node[v] = n] /\ top = h.top
                \/ g = [[h EXCEPT !.node[v] = n] EXCEPT !.top = top]
  PROVE HeapOK(g) /\ Updated(h, g, v, n, top)
<1>1. /\ DOMAIN g = {"node", "live", "top", "root", "alloc"}
      /\ g.node = [h.node EXCEPT ![v] = n] /\ g.live = h.live /\ g.root = h.root
      /\ g.alloc = h.alloc /\ g.top = top
  BY DEF HeapOK
<1>2. /\ IsSeq(g.node) /\ Len(g.node) = Len(h.node) /\ g.node[v] = n
      /\ \A u \in 1 .. Len(h.node) : u # v => g.node[u] = h.node[u]
  <2>1. IsPut(h.node, v, n, g.node) /\ IsSeq(h.node)
    BY <1>1 DEF IsPut, HeapOK
  <2>. QED BY <2>1, SeqPut
<1>3. Updated(h, g, v, n, top)
  BY <1>1, <1>2 DEF Updated
<1>. QED BY <1>1, <1>2, <1>3 DEF HeapOK

LEMMA LinkedIs ==
  ASSUME NEW n, NEW v, NodeOK(n, v), NEW w, NEW m, m = Linked(n, w)
  PROVE /\ NodeOK(m, v) /\ m.length = n.length + 1
        /\ m.items = IF pass = 1 THEN n.items ELSE Put(n.items, n.length, w)
        /\ m.type = n.type /\ m.parent = n.parent /\ m.next = n.next /\ m.keys = n.keys
        /\ m.data = n.data /\ m.cap = n.cap /\ m.room = n.room /\ m.used = n.used
        /\ m.names = n.names
BY DEF NodeOK, Fields, Linked

LEMMA KeyEndIs ==
  ASSUME NEW n, NEW v, NodeOK(n, v), string.length \in Nat, NEW m, m = KeyEnd(n)
  PROVE /\ NodeOK(m, v) /\ m.length = n.length
        /\ m.keys = n.keys + (IF pass = 1 THEN string.length + 1 ELSE 0)
        /\ m.used = n.used + (IF pass = 1 THEN 0 ELSE string.length + 1)
        /\ m.names = IF pass = 1 THEN n.names ELSE Put(n.names, n.length, string.text)
        /\ m.type = n.type /\ m.parent = n.parent /\ m.next = n.next
        /\ m.data = n.data /\ m.cap = n.cap /\ m.room = n.room /\ m.items = n.items
<1>1. CASE pass = 1
  <2>1. m = [n EXCEPT !.keys = n.keys + string.length + 1]
    BY <1>1 DEF KeyEnd
  <2>. QED BY <1>1, <2>1 DEF NodeOK, Fields
<1>2. CASE pass # 1
  <2>1. m = [[n EXCEPT !.used = n.used + string.length + 1]
               EXCEPT !.names = Put(n.names, n.length, string.text)]
    BY <1>2 DEF KeyEnd, NodeOK, Fields
  <2>. QED BY <1>2, <2>1 DEF NodeOK, Fields
<1>. QED BY <1>1, <1>2

LEMMA OpenedIs ==
  ASSUME NEW n, NEW v, NodeOK(n, v), NEW m, m = Opened(n)
  PROVE /\ NodeOK(m, v) /\ m.length = 0 /\ m.data = TRUE
        /\ m.cap = IF n.type = "string" THEN 0 ELSE n.length
        /\ m.room = IF n.type = "string" THEN n.length + 1 ELSE n.keys
        /\ m.next \in {0, n.next}
        /\ m.type = n.type /\ m.parent = n.parent /\ m.keys = n.keys /\ m.used = n.used
        /\ m.items = n.items /\ m.names = n.names
<1>. DEFINE m1 == [n EXCEPT !.data = TRUE]
            m2 == [m1 EXCEPT !.cap = IF n.type = "string" THEN 0 ELSE n.length]
            m3 == [m2 EXCEPT !.room = IF n.type = "string" THEN n.length + 1 ELSE n.keys]
            m4 == [m3 EXCEPT !.next = IF n.type = "object" THEN 0 ELSE @]
<1>1. m = [m4 EXCEPT !.length = 0]
  BY DEF Opened
<1>2. DOMAIN n = Fields /\ n.next \in {0, v + 1}
  BY DEF NodeOK
<1>3. /\ DOMAIN m3 = Fields /\ m3.data = TRUE
      /\ m3.cap = IF n.type = "string" THEN 0 ELSE n.length
      /\ m3.room = IF n.type = "string" THEN n.length + 1 ELSE n.keys
      /\ m3.next = n.next
      /\ m3.type = n.type /\ m3.parent = n.parent /\ m3.keys = n.keys /\ m3.used = n.used
      /\ m3.items = n.items /\ m3.names = n.names
  BY <1>2 DEF Fields
<1>. HIDE DEF m3
<1>4. /\ DOMAIN m = Fields /\ m.data = m3.data /\ m.cap = m3.cap /\ m.room = m3.room
      /\ m.next = (IF n.type = "object" THEN 0 ELSE m3.next) /\ m.length = 0
      /\ m.type = m3.type /\ m.parent = m3.parent /\ m.keys = m3.keys /\ m.used = m3.used
      /\ m.items = m3.items /\ m.names = m3.names
  BY <1>1, <1>3 DEF Fields
<1>. HIDE DEF m4
<1>5. m.next \in {0, n.next}
  BY <1>3, <1>4
<1>. QED BY <1>2, <1>3, <1>4, <1>5 DEF NodeOK

\* A boolean, a number or a text is set.
IsBool(m, n, x) == m = [n EXCEPT !.bool = x]
IsNumber(m, n, type, x) == m = [n EXCEPT !.type = type, !.num = x]
IsText(m, n, l, x) == m = [n EXCEPT !.length = l, !.text = x]

LEMMA SetBool ==
  ASSUME NEW n, NEW v, NodeOK(n, v), NEW x, NEW m, IsBool(m, n, x)
  PROVE NodeOK(m, v) /\ Same(n, m) /\ m.next = n.next /\ m.type = n.type
BY DEF IsBool, NodeOK, Fields, Same

LEMMA SetType ==
  ASSUME NEW n, NEW v, NodeOK(n, v), NEW type, Kind(type) = Kind(n.type), NEW x,
         NEW m, IsNumber(m, n, type, x)
  PROVE NodeOK(m, v) /\ Same(n, m) /\ m.next = n.next /\ m.type = type
BY DEF IsNumber, NodeOK, Fields, Same

LEMMA SetText ==
  ASSUME NEW n, NEW v, NodeOK(n, v), NEW l \in Nat, NEW x,
         NEW m, IsText(m, n, l, x)
  PROVE /\ NodeOK(m, v) /\ m.length = l /\ m.next = n.next
        /\ m.type = n.type /\ m.parent = n.parent /\ m.keys = n.keys
        /\ m.data = n.data /\ m.cap = n.cap /\ m.room = n.room /\ m.used = n.used
        /\ m.items = n.items /\ m.names = n.names
BY DEF IsText, NodeOK, Fields

-----------------------------------------------------------------------------
(* The heap at a point of the document. *)

\* Records that the pass has come to, and what it has counted of the keys.
SizeOf(h) == IF pass = 1 \/ h.alloc = 0 THEN Len(h.node) ELSE h.alloc - 1
Count(n) == IF pass = 1 THEN n.keys ELSE n.used

ValueShown(c, v, n) == /\ c.kind[v] = Kind(n.type) /\ c.parent[v] = n.parent
                       /\ c.len[v] = n.length /\ c.keys[v] = Count(n)

HeapShows(h, c) == /\ c.top = h.top /\ c.size = SizeOf(h)
                   /\ \A v \in 1 .. c.size : ValueShown(c, v, h.node[v])

ChainedIn(h, v) == h.node[v].next = IF v = Len(h.node) THEN 0 ELSE v + 1
Empty(n) == /\ n.data = FALSE /\ n.cap = 0 /\ n.room = 0 /\ n.used = 0
            /\ n.items = <<>> /\ n.names = <<>>

FirstHeap(h) ==
  /\ \A v \in 1 .. Len(h.node) : Empty(h.node[v]) /\ ChainedIn(h, v)
  /\ h.live = {"value"} \X (1 .. Len(h.node))
  /\ h.alloc = Len(h.node) /\ h.root = IF Len(h.node) = 0 THEN 0 ELSE 1

\* F is the last point of the document.  A record that the second pass has not come to:
Waits(h, F, v) ==
  LET n == h.node[v]
  IN  /\ Kind(n.type) = F.kind[v] /\ n.parent = F.parent[v] /\ n.length = F.len[v]
      /\ n.keys = F.keys[v] /\ ChainedIn(h, v) /\ Empty(n)

\* One that it has.
Needs(F, v) == (F.kind[v] \in Containers /\ F.len[v] # 0) \/ F.kind[v] = "string"

Filled(n, c, F, v) ==
  /\ n.data = Needs(F, v)
  /\ n.cap = IF F.kind[v] \in Containers THEN F.len[v] ELSE 0
  /\ n.room = IF ~Needs(F, v) THEN 0
              ELSE IF F.kind[v] = "string" THEN F.len[v] + 1 ELSE F.keys[v]
  /\ DOMAIN n.items = IF F.kind[v] \in Containers THEN 0 .. (c.len[v] - 1) ELSE {}
  /\ DOMAIN n.names \subseteq 0 .. (n.cap - 1)
  /\ c.keys[v] # 0 => F.len[v] # 0

\* The values up to T, and those that are not yet linked into the one around them.
Tree(h, T) ==
  \A v \in 1 .. T : \A i \in DOMAIN h.node[v].items :
    /\ h.node[v].items[i] \in 2 .. T /\ h.node[h.node[v].items[i]].parent = v
    /\ \A j \in DOMAIN h.node[v].items : h.node[v].items[i] = h.node[v].items[j] => i = j

IsItem(h, w) == \E i \in DOMAIN h.node[h.node[w].parent].items :
                  h.node[h.node[w].parent].items[i] = w
Loose(h, T) == {w \in 2 .. T : ~IsItem(h, w)}

LooseOK(h, T) ==
  /\ \A w \in Loose(h, T) :
       /\ h.node[w].parent \in Loose(h, T) \cup {1} /\ h.node[w].parent # h.top
       /\ \A u \in Loose(h, T) : h.node[u].parent = h.node[w].parent => u = w
  /\ h.top # 0 => h.top \in Loose(h, T) \cup {1}

SecondHeap(h, c, F) ==
  /\ Len(h.node) = F.size /\ c.size <= F.size
  /\ h.root = (IF c.size = 0 THEN 0 ELSE 1)
  /\ h.alloc = (IF c.size = F.size THEN 0 ELSE c.size + 1)
  /\ h.live = ({"value"} \X (1 .. F.size)) \cup ({"data"} \X {v \in 1 .. c.size : Needs(F, v)})
  /\ \A v \in (c.size + 1) .. F.size : Waits(h, F, v)
  /\ \A v \in 1 .. c.size : Filled(h.node[v], c, F, v)
  /\ Tree(h, c.size) /\ LooseOK(h, c.size)

\* A record changes in what the tree does not show.
LEMMA FirstUpdated ==
  ASSUME NEW h, NEW g, NEW v \in 1 .. Len(h.node), NEW n, NEW top, Updated(h, g, v, n, top),
         FirstHeap(h), Empty(n), n.next = h.node[v].next
  PROVE FirstHeap(g)
BY DEF FirstHeap, Updated, ChainedIn

LEMMA SizeWithin ==
  ASSUME NEW h, HeapOK(h)
  PROVE Len(h.node) \in Nat /\ SizeOf(h) <= Len(h.node) /\ SizeOf(h) \in Int
BY SeqIs DEF HeapOK, SizeOf

LEMMA ShowsUpdated ==
  ASSUME NEW h, HeapOK(h), NEW g, NEW v \in 1 .. Len(h.node), NEW n, NEW top, Updated(h, g, v, n, top),
         NEW c \in Points, HeapShows(h, c), NEW d, d.size = c.size, d.top = top,
         v <= c.size, ValueShown(d, v, n),
         \A u \in 1 .. c.size : u # v => /\ d.kind[u] = c.kind[u] /\ d.parent[u] = c.parent[u]
                                         /\ d.len[u] = c.len[u] /\ d.keys[u] = c.keys[u]
  PROVE HeapShows(g, d)
<1>1. SizeOf(g) = SizeOf(h)
  BY DEF SizeOf, Updated
<1>2. ASSUME NEW u \in 1 .. c.size, u # v PROVE ValueShown(d, u, g.node[u])
  <2>1. u \in 1 .. Len(h.node)
    BY SizeWithin DEF HeapShows
  <2>. QED BY <1>2, <2>1 DEF HeapShows, Updated, ValueShown
<1>3. ValueShown(d, v, g.node[v])
  BY DEF Updated
<1>. QED BY <1>1, <1>2, <1>3 DEF HeapShows, Updated

\* Tree and loose values only depend on parents, items and the value at the top.
Alike(h, g, T) == \A u \in 1 .. T : /\ g.node[u].parent = h.node[u].parent
                                    /\ g.node[u].items = h.node[u].items

ParentsOK(h, T) ==
  \A u \in 1 .. T : h.node[u].parent \in 0 .. (u - 1) /\ (h.node[u].parent = 0 <=> u = 1)

\* w is stored in p at i.
LinkedInto(h, g, T, w, p, i) ==
  \A u \in 1 .. T : /\ g.node[u].parent = h.node[u].parent
                    /\ g.node[u].items = IF u = p THEN Put(h.node[p].items, i, w)
                                         ELSE h.node[u].items

LEMMA LooseAlike ==
  ASSUME NEW T \in Nat, NEW h, NEW g, Alike(h, g, T),
         ParentsOK(h, T)
  PROVE /\ Tree(h, T) => Tree(g, T)
        /\ Loose(g, T) = Loose(h, T)
        /\ LooseOK(h, T) /\ g.top = h.top => LooseOK(g, T)
<1>. USE DEF ParentsOK
<1>1. \A w \in 2 .. T : h.node[w].parent \in 1 .. T /\ g.node[w].parent = h.node[w].parent
  BY DEF Alike
<1>2. \A w \in 2 .. T : IsItem(g, w) <=> IsItem(h, w)
  BY <1>1 DEF Alike, IsItem
<1>3. Loose(g, T) = Loose(h, T)
  BY <1>2 DEF Loose
<1>4. ASSUME Tree(h, T) PROVE Tree(g, T)
  <2>1. \A u \in 1 .. T : g.node[u].items = h.node[u].items
    BY DEF Alike
  <2>2. \A u \in 1 .. T : \A i \in DOMAIN h.node[u].items :
          /\ h.node[u].items[i] \in 2 .. T /\ g.node[h.node[u].items[i]].parent = u
          /\ \A j \in DOMAIN h.node[u].items : h.node[u].items[i] = h.node[u].items[j] => i = j
    BY <1>1, <1>4 DEF Tree
  <2>. QED BY <2>1, <2>2 DEF Tree
<1>5. ASSUME LooseOK(h, T), g.top = h.top PROVE LooseOK(g, T)
  <2>1. \A w \in Loose(h, T) : w \in 2 .. T
    BY DEF Loose
  <2>. QED BY <1>1, <1>3, <1>5, <2>1 DEF LooseOK
<1>. QED BY <1>3, <1>4, <1>5

\* The value at the top, w, is linked into p.
LEMMA LooseLinked ==
  ASSUME NEW T \in Nat, NEW h, NEW g, Tree(h, T), LooseOK(h, T),
         ParentsOK(h, T),
         NEW w \in 2 .. T, h.top = w, NEW p, p = h.node[w].parent, g.top = p,
         NEW i, i \notin DOMAIN h.node[p].items,
         LinkedInto(h, g, T, w, p, i)
  PROVE Tree(g, T) /\ LooseOK(g, T)
<1>. DEFINE it(u) == h.node[u].items  P(u) == h.node[u].parent
<1>. USE DEF ParentsOK, LinkedInto
<1>1. p \in 1 .. T /\ p # w /\ w \in Loose(h, T)
  BY DEF LooseOK
<1>2. \A u \in 2 .. T : P(u) \in 1 .. T
  OBVIOUS
<1>3. \A u \in 1 .. T : \A j \in DOMAIN it(u) : it(u)[j] \in 2 .. T /\ P(it(u)[j]) = u /\ it(u)[j] # w
  BY <1>1, <1>2 DEF Tree, Loose, IsItem
<1>4. /\ DOMAIN g.node[p].items = DOMAIN it(p) \cup {i} /\ g.node[p].items[i] = w
      /\ \A j \in DOMAIN it(p) : g.node[p].items[j] = it(p)[j]
  BY <1>1 DEF Put
<1>5. Tree(g, T)
  <2>. SUFFICES ASSUME NEW u \in 1 .. T, NEW j \in DOMAIN g.node[u].items
                PROVE /\ g.node[u].items[j] \in 2 .. T /\ g.node[g.node[u].items[j]].parent = u
                      /\ \A k \in DOMAIN g.node[u].items :
                           g.node[u].items[j] = g.node[u].items[k] => j = k
    BY DEF Tree
  <2>1. CASE u # p
    <3>1. g.node[u].items = it(u) /\ j \in DOMAIN it(u)
      BY <2>1
    <3>2. it(u)[j] \in 2 .. T /\ P(it(u)[j]) = u /\ \A k \in DOMAIN it(u) : it(u)[j] = it(u)[k] => j = k
      BY <3>1 DEF Tree
    <3>3. g.node[it(u)[j]].parent = P(it(u)[j])
      BY <3>2
    <3>. QED BY <3>1, <3>2, <3>3
  <2>2. CASE u = p
    <3>. DEFINE gi == g.node[p].items
    <3>1. \A k \in DOMAIN gi : gi[k] = (IF k = i THEN w ELSE it(p)[k]) /\ (k # i => k \in DOMAIN it(p))
      BY <1>4
    <3>2. \A x \in 2 .. T : g.node[x].parent = P(x)
      OBVIOUS
    <3>3. ASSUME NEW k \in DOMAIN gi PROVE gi[k] \in 2 .. T /\ P(gi[k]) = p /\ (k # i => gi[k] # w)
      <4>1. CASE k = i
        BY <3>1, <4>1
      <4>2. CASE k # i
        <5>1. gi[k] = it(p)[k] /\ k \in DOMAIN it(p)
          BY <3>1, <4>2
        <5>2. it(p)[k] \in 2 .. T /\ P(it(p)[k]) = p /\ it(p)[k] # w
          BY <1>1, <1>3, <5>1
        <5>. QED BY <5>1, <5>2
      <4>. QED BY <4>1, <4>2
    <3>4. \A k, l \in DOMAIN it(p) : it(p)[k] = it(p)[l] => k = l
      BY <1>1 DEF Tree
    <3>5. ASSUME NEW k \in DOMAIN gi, gi[j] = gi[k] PROVE j = k
      <4>1. j \in DOMAIN gi
        BY <2>2
      <4>. HIDE DEF gi, it
      <4>2. CASE j = i \/ k = i
        BY <3>1, <3>3, <3>5, <4>1, <4>2
      <4>3. CASE j # i /\ k # i
        BY <3>1, <3>4, <3>5, <4>1, <4>3
      <4>. QED BY <4>2, <4>3
    <3>. QED BY <2>2, <3>2, <3>3, <3>5
  <2>. QED BY <2>1, <2>2
<1>6. \A u \in 2 .. T : IsItem(g, u) <=> IsItem(h, u) \/ u = w
  <2>. SUFFICES ASSUME NEW u \in 2 .. T PROVE IsItem(g, u) <=> IsItem(h, u) \/ u = w
    OBVIOUS
  <2>1. CASE P(u) # p
    BY <1>2, <2>1 DEF IsItem
  <2>2. CASE P(u) = p
    <3>1. g.node[u].parent = p
      BY <2>2
    <3>2. IsItem(g, u) <=> \E j \in DOMAIN g.node[p].items : g.node[p].items[j] = u
      BY <3>1 DEF IsItem
    <3>3. IsItem(h, u) <=> \E j \in DOMAIN it(p) : it(p)[j] = u
      BY <2>2 DEF IsItem
    <3>. HIDE DEF it, P
    <3>. QED BY <1>4, <3>2, <3>3
  <2>. QED BY <2>1, <2>2
<1>7. Loose(g, T) = Loose(h, T) \ {w}
  BY <1>6 DEF Loose
<1>8. \A u \in Loose(h, T) : u \in 2 .. T
  BY DEF Loose
<1>9. LooseOK(g, T)
  <2>1. ASSUME NEW u \in Loose(g, T)
        PROVE /\ P(u) \in Loose(g, T) \cup {1} /\ P(u) # p
              /\ \A x \in Loose(g, T) : P(x) = P(u) => x = u
    BY <1>1, <1>7, <2>1 DEF LooseOK
  <2>2. g.top \in Loose(g, T) \cup {1}
    BY <1>1, <1>7 DEF LooseOK
  <2>3. \A u \in Loose(g, T) : g.node[u].parent = P(u)
    BY <1>7, <1>8
  <2>. QED BY <2>1, <2>2, <2>3 DEF LooseOK
<1>. QED BY <1>5, <1>9

\* A value begins in the one at the top.
LEMMA LooseBegun ==
  ASSUME NEW S \in Nat, NEW T, T = S + 1, NEW h, NEW g, Tree(h, S), LooseOK(h, S), Alike(h, g, S),
         ParentsOK(h, S),
         h.top \in 0 .. S, h.top = 0 <=> S = 0,
         g.node[T].parent = h.top, g.node[T].items = <<>>, g.top = T
  PROVE Tree(g, T) /\ LooseOK(g, T)
<1>. DEFINE P(u) == g.node[u].parent
<1>0. Tree(g, S) /\ Loose(g, S) = Loose(h, S)
  BY LooseAlike
<1>. USE DEF ParentsOK
<1>1. ASSUME NEW u \in 2 .. T PROVE P(u) \in 1 .. S
  <2>1. CASE u = T
    BY <2>1
  <2>2. CASE u # T
    <3>1. u \in 1 .. S /\ u # 1
      BY <2>2
    <3>2. P(u) = h.node[u].parent
      BY <3>1 DEF Alike
    <3>3. h.node[u].parent \in 0 .. (u - 1) /\ h.node[u].parent # 0
      BY <3>1
    <3>. HIDE DEF P
    <3>. QED BY <3>1, <3>2, <3>3
  <2>. QED BY <2>1, <2>2
<1>2. DOMAIN g.node[T].items = {}
  OBVIOUS
<1>3. Tree(g, T)
  <2>. SUFFICES ASSUME NEW u \in 1 .. T, NEW j \in DOMAIN g.node[u].items
                PROVE /\ g.node[u].items[j] \in 2 .. T /\ P(g.node[u].items[j]) = u
                      /\ \A k \in DOMAIN g.node[u].items :
                           g.node[u].items[j] = g.node[u].items[k] => j = k
    BY DEF Tree
  <2>1. u \in 1 .. S
    BY <1>2
  <2>. QED BY <1>0, <2>1 DEF Tree
<1>4. S # 0 => ~IsItem(g, T)
  <2>1. ASSUME S # 0, NEW j \in DOMAIN g.node[h.top].items PROVE g.node[h.top].items[j] # T
    <3>1. h.top \in 1 .. S
      BY <2>1
    <3>. QED BY <1>0, <2>1, <3>1 DEF Tree
  <2>. QED BY <2>1 DEF IsItem
<1>5. Loose(g, T) = Loose(h, S) \cup (IF S = 0 THEN {} ELSE {T})
  <2>1. \A u \in 2 .. T : u \in 2 .. S \/ (u = T /\ S # 0)
    OBVIOUS
  <2>2. \A u \in 2 .. S : u \in 2 .. T
    OBVIOUS
  <2>3. S # 0 => T \in 2 .. T
    OBVIOUS
  <2>. QED BY <1>0, <1>4, <2>1, <2>2, <2>3 DEF Loose
<1>6. \A u \in Loose(h, S) : u \in 2 .. S /\ u # T
  BY DEF Loose
<1>7. ASSUME NEW u \in Loose(h, S) PROVE P(u) = h.node[u].parent /\ P(u) # T
  <2>1. u \in 1 .. S
    BY <1>6
  <2>2. P(u) = h.node[u].parent
    BY <2>1 DEF Alike
  <2>. QED BY <1>1, <2>1, <2>2
<1>8. ASSUME NEW u \in Loose(g, T)
      PROVE /\ P(u) \in Loose(g, T) \cup {1} /\ P(u) # T
            /\ \A x \in Loose(g, T) : P(x) = P(u) => x = u
  <2>1. CASE u \in Loose(h, S)
    <3>1. /\ P(u) \in Loose(h, S) \cup {1} /\ P(u) # h.top
          /\ \A x \in Loose(h, S) : P(x) = P(u) => x = u
      BY <1>7, <2>1 DEF LooseOK
    <3>2. P(T) = h.top
      OBVIOUS
    <3>. HIDE DEF P
    <3>. QED BY <1>5, <1>7, <2>1, <3>1, <3>2
  <2>2. CASE u = T /\ S # 0
    BY <1>5, <1>6, <1>7, <2>2 DEF LooseOK
  <2>. QED BY <1>5, <1>8, <2>1, <2>2
<1>9. T \in Loose(g, T) \cup {1}
  BY <1>5
<1>. QED BY <1>3, <1>8, <1>9 DEF LooseOK

-----------------------------------------------------------------------------
(* A value ends. *)

LEMMA KindIs ==
  ASSUME NEW type
  PROVE /\ Kind(type) = "array" <=> type = "array"
        /\ Kind(type) = "object" <=> type = "object"
        /\ Kind(type) = "string" <=> type = "string"
        /\ Kind(type) = "number" <=> type \in {"number", "integer", "double"}
BY DEF Kind

LEMMA ParentIs ==
  ASSUME NEW c \in Points, ValuesOK(c), NEW v \in 1 .. c.size, NEW p, p = c.parent[v]
  PROVE /\ p \in Nat /\ p \in 0 .. (v - 1) /\ (p = 0 <=> v = 1) /\ c.size \in Nat
        /\ p # 0 => p \in 1 .. c.size /\ p \in 1 .. (v - 1) /\ v \in 2 .. c.size
                    /\ c.kind[p] \in Containers
<1>1. c.size \in Nat /\ c.parent \in [Nat -> Nat]
  BY DEF Points
<1>2. p \in Nat /\ v \in Nat
  BY <1>1
<1>3. p < v /\ (p = 0 <=> v = 1) /\ (p # 0 => c.kind[p] \in Containers)
  BY DEF ValuesOK
<1>. QED BY <1>1, <1>2, <1>3

LEMMA ParentsShown ==
  ASSUME NEW c \in Points, ValuesOK(c), NEW h, HeapShows(h, c)
  PROVE ParentsOK(h, c.size)
<1>1. \A u \in 1 .. c.size : h.node[u].parent = c.parent[u]
  BY DEF HeapShows, ValueShown
<1>. QED BY <1>1, ParentIs DEF ParentsOK

LEMMA EndIs ==
  ASSUME NEW h, HeapOK(h), NEW c \in Points, ValuesOK(c), HeapShows(h, c), c.top \in 1 .. c.size,
         NEW rest, EndValue(h, rest), status = "parsing",
         NEW p, p = c.parent[c.top]
  PROVE \/ /\ UNCHANGED <<outcome, pass, string, num, cur>> /\ Room(c, p)
           /\ HeapOK(heap') /\ HeapShows(heap', Closed(c, rest \cap Control))
           /\ flags' \cap Control = Closed(c, rest \cap Control).flags
           /\ IF p = 0 THEN heap' = h
              ELSE Updated(h, heap', p, Linked(h.node[p], c.top), p)
        \/ /\ ~Room(c, p)
           /\ \E g : /\ Fail("overflow", g) /\ HeapOK(g) /\ p \in 1 .. Len(h.node)
                     /\ Updated(h, g, p, Linked(h.node[p], c.top), h.top)
<1>. DEFINE cr == rest \cap Control  d == Closed(c, cr)
<1>0. /\ h.top = c.top /\ h.node[c.top].parent = p /\ c.size <= Len(h.node) /\ c.size \in Nat
      /\ Len(h.node) \in Nat /\ c.top \in 1 .. Len(h.node)
  <2>1. c.size <= Len(h.node) /\ c.size \in Nat /\ Len(h.node) \in Nat
    BY SizeWithin DEF HeapShows, Points
  <2>. QED BY <2>1 DEF HeapShows, ValueShown
<1>1. CASE p = 0
  <2>1. heap' = h /\ flags' = rest \cup {"need_comma", "done"}
        /\ UNCHANGED <<outcome, pass, string, num, cur>>
    BY <1>0, <1>1 DEF EndValue
  <2>2. d = With(c, EndFlags(c, p, cr), c.str)
    BY <1>1 DEF Closed
  <2>3. d.flags = EndFlags(c, p, cr) /\ d.top = c.top /\ d.size = c.size /\ d.kind = c.kind
        /\ d.parent = c.parent /\ d.len = c.len /\ d.keys = c.keys
    BY <2>2 DEF With, MakePoint
  <2>. HIDE DEF d
  <2>4. HeapShows(h, d)
    BY <2>3 DEF HeapShows, ValueShown
  <2>5. flags' \cap Control = EndFlags(c, p, cr)
    BY <1>1, <2>1 DEF EndFlags, Control
  <2>. QED BY <1>1, <2>1, <2>3, <2>4, <2>5 DEF Room, d
<1>2. CASE p # 0
  <2>. DEFINE g == [h EXCEPT !.node[p] = Linked(@, c.top)]  n == Linked(h.node[p], c.top)
  <2>a. p \in 1 .. (c.top - 1) /\ p \in 1 .. c.size /\ p \in Nat /\ c.kind[p] \in Containers
    BY <1>2, ParentIs
  <2>0. p \in 1 .. (c.top - 1) /\ p \in 1 .. Len(h.node) /\ p \in 1 .. c.size /\ p \in Nat
        /\ c.kind[p] \in Containers /\ h.top \in 0 .. Len(h.node)
    BY <1>0, <2>a
  <2>1. /\ NodeOK(h.node[p], p) /\ NodeOK(n, p) /\ n.length = h.node[p].length + 1
        /\ n.type = h.node[p].type /\ n.parent = h.node[p].parent
        /\ n.keys = h.node[p].keys /\ n.used = h.node[p].used
    <3>1. NodeOK(h.node[p], p)
      BY <2>0 DEF HeapOK
    <3>2. n = Linked(h.node[p], c.top)
      OBVIOUS
    <3>. HIDE DEF n, g
    <3>. QED BY <3>1, <3>2, LinkedIs
  <2>2. g = [h EXCEPT !.node[p] = n]
    BY DEF HeapOK
  <2>3. ValueShown(c, p, h.node[p])
    BY <2>0 DEF HeapShows
  <2>. HIDE DEF n
  <2>4. HeapOK(g) /\ Updated(h, g, p, n, h.top)
    BY <1>0, <2>0, <2>1, <2>2, SetNode
  <2>. HIDE DEF g
  <2>5. g.node[p] = n /\ n.length = c.len[p] + 1 /\ c.len[p] \in Nat
    BY <2>0, <2>1, <2>3, <2>4 DEF Updated, ValueShown, Points
  <2>6. EndValue(h, rest) <=>
          IF n.length > UintMax THEN Fail("overflow", g)
          ELSE /\ heap' = [g EXCEPT !.top = p]
               /\ flags' = rest \cup {"need_comma"}
                             \cup (IF n.type = "array" THEN {"seek_value"} ELSE {})
               /\ UNCHANGED <<outcome, pass, string, num, cur>>
    BY <1>0, <1>2, <2>5 DEF EndValue, g
  <2>7. CASE n.length > UintMax
    <3>1. ~Room(c, p)
      BY <1>2, <2>5, <2>7, BoundAssumption DEF Room
    <3>2. Fail("overflow", g)
      BY <2>6, <2>7
    <3>. QED BY <2>0, <2>4, <3>1, <3>2 DEF n
  <2>8. CASE ~(n.length > UintMax)
    <3>1. Room(c, p)
      BY <2>5, <2>8, BoundAssumption DEF Room
    <3>2. heap' = [[h EXCEPT !.node[p] = n] EXCEPT !.top = p]
      BY <2>2, <2>6, <2>8
    <3>3. HeapOK(heap') /\ Updated(h, heap', p, n, p)
      <4>1. p \in 0 .. Len(h.node)
        BY <2>0
      <4>. QED BY <2>0, <2>1, <3>2, <4>1, SetNode
    <3>4. d.flags = EndFlags(c, p, cr) /\ d.top = p /\ d.size = c.size /\ d.kind = c.kind
          /\ d.parent = c.parent /\ d.len = [c.len EXCEPT ![p] = @ + 1] /\ d.keys = c.keys
      BY <1>2 DEF Closed, MakePoint
    <3>. HIDE DEF d
    <3>5. flags' \cap Control = EndFlags(c, p, cr)
      <4>1. n.type = "array" <=> c.kind[p] = "array"
        BY <2>1, <2>3, KindIs DEF ValueShown
      <4>2. flags' = rest \cup {"need_comma"} \cup (IF n.type = "array" THEN {"seek_value"} ELSE {})
        BY <2>6, <2>8
      <4>. QED BY <1>2, <4>1, <4>2 DEF EndFlags, Control
    <3>6. HeapShows(heap', d)
      <4>1. ValueShown(d, p, n)
        BY <2>0, <2>1, <2>3, <2>5, <3>4 DEF ValueShown, Count, Points
      <4>2. \A u \in 1 .. c.size : u # p => /\ d.kind[u] = c.kind[u] /\ d.parent[u] = c.parent[u]
                                           /\ d.len[u] = c.len[u] /\ d.keys[u] = c.keys[u]
        BY <1>0, <3>4 DEF Points
      <4>3. p <= c.size /\ p \in 1 .. Len(h.node) /\ d.size = c.size /\ d.top = p
        BY <2>0, <1>0, <3>4
      <4>4. HeapOK(h) /\ c \in Points /\ HeapShows(h, c) /\ Updated(h, heap', p, n, p)
        BY <1>0, <3>3
      <4>. QED BY <4>1, <4>2, <4>3, <4>4, ShowsUpdated
    <3>7. UNCHANGED <<outcome, pass, string, num, cur>>
      BY <2>6, <2>8
    <3>. QED BY <1>2, <3>1, <3>3, <3>4, <3>5, <3>6, <3>7 DEF d, n
  <2>. QED BY <2>7, <2>8
<1>. QED BY <1>1, <1>2

\* The first pass: what is linked leaves the heap as it was otherwise.
LEMMA FirstLinked ==
  ASSUME pass = 1, NEW h, HeapOK(h), FirstHeap(h), NEW p \in 1 .. Len(h.node), NEW w, NEW top, NEW g,
         Updated(h, g, p, Linked(h.node[p], w), top)
  PROVE FirstHeap(g)
<1>. DEFINE n == Linked(h.node[p], w)
<1>1. NodeOK(h.node[p], p) /\ Empty(h.node[p])
  BY DEF HeapOK, FirstHeap
<1>2. Empty(n) /\ n.next = h.node[p].next
  BY <1>1, LinkedIs DEF Empty
<1>. HIDE DEF n
<1>. QED BY <1>2, FirstUpdated DEF n

LEMMA SecondLinked ==
  ASSUME pass = 0, NEW h, HeapOK(h), NEW c \in Points, ValuesOK(c), NEW F \in Points, Grows(c, F),
         HeapShows(h, c), SecondHeap(h, c, F),
         c.top \in 1 .. c.size, NEW p, p = c.parent[c.top], p # 0, NEW g,
         Updated(h, g, p, Linked(h.node[p], c.top), p), NEW rest
  PROVE SecondHeap(g, Closed(c, rest), F)
<1>. DEFINE n == Linked(h.node[p], c.top)  d == Closed(c, rest)  T == c.size
<1>0. /\ p \in 1 .. (c.top - 1) /\ p \in 1 .. T /\ p \in Nat /\ c.kind[p] \in Containers
      /\ c.size \in Nat /\ F.size \in Nat /\ c.top \in 2 .. T /\ c.size <= F.size
  <2>1. p \in 1 .. (c.top - 1) /\ p \in 1 .. T /\ p \in Nat /\ c.kind[p] \in Containers
        /\ c.top \in 2 .. T /\ c.size \in Nat
    BY ParentIs
  <2>. QED BY <2>1 DEF Points, SecondHeap
<1>a. c.size <= Len(h.node) /\ Len(h.node) \in Nat
  BY SizeWithin DEF HeapShows
<1>b. p \in 1 .. Len(h.node)
  BY <1>0, <1>a
<1>1. /\ NodeOK(h.node[p], p) /\ n.length = h.node[p].length + 1
      /\ n.type = h.node[p].type /\ n.parent = h.node[p].parent
      /\ n.data = h.node[p].data /\ n.cap = h.node[p].cap /\ n.room = h.node[p].room
      /\ n.names = h.node[p].names /\ n.items = Put(h.node[p].items, h.node[p].length, c.top)
  <2>1. NodeOK(h.node[p], p)
    BY <1>b DEF HeapOK
  <2>2. PICK k, m, w : k = h.node[p] /\ w = c.top /\ m = Linked(k, w)
    OBVIOUS
  <2>3. NodeOK(k, p) /\ m = Linked(k, w)
    BY <2>1, <2>2
  <2>4. /\ m.length = k.length + 1 /\ m.type = k.type /\ m.parent = k.parent
        /\ m.data = k.data /\ m.cap = k.cap /\ m.room = k.room /\ m.names = k.names
    BY <2>3, LinkedIs
  <2>6. m.items = Put(k.items, k.length, w)
    BY <2>3 DEF NodeOK, Fields, Linked
  <2>5. n = m
    BY <2>2
  <2>. HIDE DEF n
  <2>. QED BY <2>1, <2>2, <2>4, <2>5, <2>6
<1>2. d.size = c.size /\ d.top = p /\ d.len = [c.len EXCEPT ![p] = @ + 1] /\ d.keys = c.keys
  BY <1>0 DEF Closed, MakePoint
<1>3. ValueShown(c, p, h.node[p]) /\ h.node[c.top].parent = p /\ h.top = c.top
  BY <1>0 DEF HeapShows, ValueShown
<1>. HIDE DEF n, d
<1>4. Filled(h.node[p], c, F, p) /\ F.kind[p] = c.kind[p]
  BY <1>0 DEF SecondHeap, Grows
<1>5. /\ DOMAIN h.node[p].items = 0 .. (c.len[p] - 1) /\ h.node[p].length = c.len[p]
      /\ c.len[p] \in Nat
  BY <1>0, <1>3, <1>4 DEF Filled, ValueShown, Points
<1>6. DOMAIN n.items = 0 .. (d.len[p] - 1)
  <2>1. d.len[p] = c.len[p] + 1
    BY <1>0, <1>2 DEF Points
  <2>2. DOMAIN n.items = DOMAIN h.node[p].items \cup {c.len[p]}
    BY <1>1, <1>5 DEF Put
  <2>3. \A l \in Nat : 0 .. ((l + 1) - 1) = (0 .. (l - 1)) \cup {l}
    OBVIOUS
  <2>4. 0 .. (d.len[p] - 1) = (0 .. (c.len[p] - 1)) \cup {c.len[p]}
    BY <1>5, <2>1, <2>3
  <2>. QED BY <1>5, <2>2, <2>4, Zenon
<1>7. Filled(n, d, F, p)
  BY <1>0, <1>1, <1>2, <1>4, <1>6 DEF Filled
<1>8. ASSUME NEW v \in 1 .. T PROVE Filled(g.node[v], d, F, v)
  <2>1. CASE v = p
    BY <1>7, <2>1 DEF Updated, n
  <2>2. CASE v # p
    <3>1. g.node[v] = h.node[v] /\ d.len[v] = c.len[v] /\ d.keys[v] = c.keys[v]
      <4>1. v \in 1 .. Len(h.node)
        BY <1>0, <1>a
      <4>2. g.node[v] = h.node[v]
        BY <2>2, <4>1 DEF Updated
      <4>3. c.len \in [Nat -> Nat]
        BY DEF Points
      <4>. QED BY <1>2, <2>2, <4>2, <4>3
    <3>2. Filled(h.node[v], c, F, v)
      BY DEF SecondHeap
    <3>. QED BY <3>1, <3>2 DEF Filled
  <2>. QED BY <2>1, <2>2
<1>9. \A v \in (T + 1) .. F.size : Waits(g, F, v)
  <2>1. \A v \in (T + 1) .. F.size : v \in 1 .. Len(h.node) /\ v # p
    BY <1>0 DEF SecondHeap
  <2>2. \A v \in (T + 1) .. F.size : g.node[v] = h.node[v] /\ Waits(h, F, v)
    BY <2>1 DEF Updated, SecondHeap
  <2>. QED BY <2>2 DEF Waits, ChainedIn, Updated
<1>10. Tree(g, T) /\ LooseOK(g, T)
  <2>1. ParentsOK(h, T)
    BY ParentsShown
  <2>2. c.len[p] \notin DOMAIN h.node[p].items
    BY <1>5
  <2>3. LinkedInto(h, g, T, c.top, p, c.len[p])
    <3>1. \A u \in 1 .. T : u \in 1 .. Len(h.node)
      BY <1>a, <1>0
    <3>. QED BY <1>1, <1>5, <3>1 DEF LinkedInto, Updated, n
  <2>4. g.top = p
    BY DEF Updated
  <2>5. Tree(h, T) /\ LooseOK(h, T)
    BY DEF SecondHeap
  <2>. HIDE DEF T
  <2>6. T \in Nat /\ c.top \in 2 .. T
    BY <1>0 DEF T
  <2>. QED BY <1>3, <2>1, <2>2, <2>3, <2>4, <2>5, <2>6, LooseLinked
<1>11. SecondHeap(g, d, F)
  <2>1. Len(g.node) = Len(h.node) /\ g.root = h.root /\ g.alloc = h.alloc /\ g.live = h.live
    BY DEF Updated
  <2>. QED BY <1>2, <1>8, <1>9, <1>10, <2>1 DEF SecondHeap
<1>. QED BY <1>11 DEF d

-----------------------------------------------------------------------------
(* A value begins. *)

LEMMA SetNext ==
  ASSUME NEW n, NEW v, NodeOK(n, v), NEW m, m = [n EXCEPT !.next = v + 1]
  PROVE NodeOK(m, v) /\ Same(n, m) /\ m.next = v + 1
BY DEF NodeOK, Fields, Same

LEMMA NewFirst ==
  ASSUME pass = 1, HeapOK(heap), FirstHeap(heap), NEW c, PointOK(c), HeapShows(heap, c),
         NEW type, NEW to, NEW str, NEW g, g = New(type)
  PROVE /\ HeapOK(g) /\ FirstHeap(g) /\ HeapShows(g, Begun(c, Kind(type), to, str))
        /\ g.top = c.size + 1 /\ g.top \in 1 .. Len(g.node) /\ g.node[g.top].type = type
<1>. DEFINE L == Len(heap.node)  v == L + 1
            chained == IF heap.alloc = 0 THEN heap.node ELSE [heap.node EXCEPT ![heap.alloc].next = v]
            d == Begun(c, Kind(type), to, str)  f == Fresh(type, heap.top)
<1>0. /\ L \in Nat /\ IsSeq(heap.node) /\ heap.alloc = L /\ c.size = L /\ heap.top = c.top
      /\ heap.top \in 0 .. L /\ v \in Nat \ {0} /\ heap.root = IF L = 0 THEN 0 ELSE 1
  <2>1. L \in Nat
    BY SeqIs DEF HeapOK
  <2>. QED BY <2>1 DEF HeapOK, FirstHeap, HeapShows, SizeOf
<1>1. /\ IsSeq(chained) /\ Len(chained) = L
      /\ \A u \in 1 .. L : /\ NodeOK(chained[u], u) /\ Same(heap.node[u], chained[u])
                           /\ chained[u].next = u + 1
  <2>1. CASE L = 0
    BY <1>0, <2>1
  <2>2. CASE L # 0
    <3>. DEFINE n == [heap.node[L] EXCEPT !.next = v]
    <3>1. L \in 1 .. L /\ \A u \in 1 .. L : NodeOK(heap.node[u], u)
      BY <1>0, <2>2 DEF HeapOK
    <3>2. NodeOK(n, L) /\ Same(heap.node[L], n) /\ n.next = L + 1
      BY <3>1, SetNext
    <3>3. chained = [heap.node EXCEPT ![L] = n]
      BY <1>0, <2>2
    <3>. HIDE DEF n, chained
    <3>4. /\ IsSeq(chained) /\ Len(chained) = L /\ chained[L] = n
          /\ \A u \in 1 .. L : u # L => chained[u] = heap.node[u]
      <4>1. L \in 1 .. Len(heap.node)
        BY <3>1
      <4>2. IsPut(heap.node, L, n, chained) /\ IsSeq(heap.node)
        BY <1>0, <3>3 DEF IsPut
      <4>. QED BY <4>1, <4>2, SeqPut
    <3>5. \A u \in 1 .. L : Same(heap.node[u], heap.node[u])
      BY DEF Same
    <3>6. \A u \in 1 .. L : u # L => heap.node[u].next = u + 1
      BY DEF FirstHeap, ChainedIn
    <3>. QED BY <3>1, <3>2, <3>4, <3>5, <3>6
  <2>. QED BY <2>1, <2>2
<1>2. g = [node |-> Append(chained, f), live |-> heap.live \cup {<<"value", v>>},
           top |-> v, root |-> RootOr(heap, v), alloc |-> v]
  BY DEF New, Allocated
<1>3. /\ NodeOK(f, v) /\ f.type = type /\ f.parent = heap.top /\ f.next = 0 /\ f.length = 0
      /\ f.keys = 0 /\ Empty(f)
  <2>1. heap.top \in 0 .. (v - 1)
    BY <1>0
  <2>. HIDE DEF v
  <2>. QED BY <2>1 DEF Fresh, NodeOK, Fields, Empty
<1>. HIDE DEF chained, f
<1>4. /\ IsSeq(g.node) /\ Len(g.node) = v /\ g.node[v] = f
      /\ \A u \in 1 .. L : g.node[u] = chained[u]
  <2>1. IsAdded(chained, f, g.node) /\ IsSeq(chained) /\ Len(chained) = L
    BY <1>1, <1>2 DEF IsAdded
  <2>2. /\ IsSeq(g.node) /\ Len(g.node) = Len(chained) + 1 /\ g.node[Len(chained) + 1] = f
        /\ \A u \in 1 .. Len(chained) : g.node[u] = chained[u]
    BY <2>1, SeqAdd
  <2>. HIDE DEF L
  <2>. QED BY <2>1, <2>2
<1>5. /\ g.live = heap.live \cup {<<"value", v>>} /\ g.top = v /\ g.root = 1 /\ g.alloc = v
      /\ DOMAIN g = {"node", "live", "top", "root", "alloc"}
  BY <1>0, <1>2 DEF RootOr
<1>. HIDE DEF L, v
<1>6. \A u \in 1 .. v : u \in 1 .. L \/ u = v
  BY <1>0 DEF v
<1>7. HeapOK(g)
  <2>1. {g.top, g.root, g.alloc} \subseteq 0 .. v
    BY <1>0, <1>5
  <2>2. g.live \subseteq {"value", "data"} \X (1 .. v)
    <3>1. heap.live \subseteq {"value", "data"} \X (1 .. L)
      BY DEF HeapOK, L
    <3>2. v \in 1 .. v /\ \A u \in 1 .. L : u \in 1 .. v
      BY <1>0 DEF v
    <3>. QED BY <1>5, <3>1, <3>2
  <2>3. \A u \in 1 .. v : NodeOK(g.node[u], u)
    BY <1>1, <1>3, <1>4, <1>6
  <2>. QED BY <1>4, <1>5, <2>1, <2>2, <2>3 DEF HeapOK
<1>8. FirstHeap(g)
  <2>1. \A u \in 1 .. L : Empty(chained[u]) /\ chained[u].next = u + 1 /\ u # v
    <3>1. \A u \in 1 .. L : Empty(heap.node[u])
      BY DEF FirstHeap, L
    <3>2. \A u \in 1 .. L : u # v
      BY <1>0 DEF v
    <3>. QED BY <1>1, <3>1, <3>2 DEF Empty, Same
  <2>2. \A u \in 1 .. v : Empty(g.node[u]) /\ ChainedIn(g, u)
    BY <1>3, <1>4, <1>6, <2>1 DEF ChainedIn
  <2>3. g.live = {"value"} \X (1 .. v)
    <3>1. heap.live = {"value"} \X (1 .. L)
      BY DEF FirstHeap, L
    <3>2. 1 .. v = (1 .. L) \cup {v}
      BY <1>0 DEF v
    <3>. QED BY <1>5, <3>1, <3>2
  <2>. QED BY <1>0, <1>4, <1>5, <2>2, <2>3 DEF FirstHeap
<1>9. HeapShows(g, d)
  <2>1. /\ d.top = v /\ d.size = v /\ d.kind = [c.kind EXCEPT ![v] = Kind(type)]
        /\ d.parent = [c.parent EXCEPT ![v] = c.top] /\ d.len = c.len /\ d.keys = c.keys
    BY <1>0 DEF Begun, MakePoint, v
  <2>2. v \in Nat /\ DOMAIN c.kind = Nat /\ DOMAIN c.parent = Nat
    BY <1>0 DEF PointOK, Points
  <2>3. c.len[v] = 0 /\ c.keys[v] = 0
    <3>1. v \notin 1 .. c.size
      BY <1>0 DEF v
    <3>. QED BY <2>2, <3>1 DEF PointOK, ValuesOK
  <2>. HIDE DEF d
  <2>4. ValueShown(d, v, g.node[v])
    BY <1>0, <1>3, <1>4, <2>1, <2>2, <2>3 DEF ValueShown, Count
  <2>5. ASSUME NEW u \in 1 .. L PROVE ValueShown(d, u, g.node[u])
    <3>1. ValueShown(c, u, heap.node[u])
      BY <1>0 DEF HeapShows
    <3>2. u # v /\ u \in Nat
      BY <1>0 DEF v
    <3>3. Same(heap.node[u], g.node[u])
      BY <1>1, <1>4
    <3>. QED BY <2>1, <2>2, <3>1, <3>2, <3>3 DEF ValueShown, Same, Count
  <2>6. SizeOf(g) = v
    BY <1>4 DEF SizeOf
  <2>. QED BY <1>5, <1>6, <2>1, <2>4, <2>5, <2>6 DEF HeapShows
<1>10. g.top = c.size + 1 /\ g.top \in 1 .. Len(g.node) /\ g.node[g.top].type = type
  BY <1>0, <1>3, <1>4, <1>5 DEF v
<1>. QED BY <1>7, <1>8, <1>9, <1>10 DEF d

\* The second pass takes the next record.
LEMMA TakenIs ==
  ASSUME pass = 0, HeapOK(heap), NEW c, PointOK(c), NEW F \in Points, HeapShows(heap, c),
         SecondHeap(heap, c, F), c.size < F.size
  PROVE LET T == c.size + 1
        IN  /\ heap.alloc = T /\ T \in 1 .. Len(heap.node) /\ T \in Nat
            /\ HeapOK(Taken) /\ Taken.top = T /\ Taken.root = 1 /\ Taken.live = heap.live
            /\ Taken.node = heap.node /\ Taken.alloc = (IF T = F.size THEN 0 ELSE T + 1)
            /\ Waits(heap, F, T) /\ NodeOK(heap.node[T], T)
            /\ DOMAIN Taken = {"node", "live", "top", "root", "alloc"}
<1>. DEFINE T == c.size + 1
<1>1. c.size \in Nat /\ F.size \in Nat /\ Len(heap.node) = F.size /\ heap.alloc = T
      /\ heap.root = IF c.size = 0 THEN 0 ELSE 1
  BY DEF PointOK, Points, SecondHeap
<1>2. T \in 1 .. F.size /\ T \in (c.size + 1) .. F.size /\ T \in Nat
  BY <1>1
<1>3. Waits(heap, F, T) /\ NodeOK(heap.node[T], T)
  BY <1>1, <1>2 DEF SecondHeap, HeapOK
<1>4. heap.node[T].next = IF T = F.size THEN 0 ELSE T + 1
  BY <1>1, <1>3 DEF Waits, ChainedIn
<1>. HIDE DEF T
<1>5. /\ Taken.top = T /\ Taken.live = heap.live /\ Taken.node = heap.node
      /\ Taken.alloc = heap.node[T].next /\ Taken.root = RootOr(heap, T)
      /\ DOMAIN Taken = {"node", "live", "top", "root", "alloc"}
  BY <1>1 DEF HeapOK, Taken
<1>6. RootOr(heap, T) = 1
  BY <1>1, <1>2 DEF RootOr, T
<1>7. HeapOK(Taken)
  <2>1. {Taken.top, Taken.root, Taken.alloc} \subseteq 0 .. F.size
    BY <1>1, <1>2, <1>4, <1>5, <1>6
  <2>. QED BY <1>1, <1>5, <2>1 DEF HeapOK
<1>. QED BY <1>1, <1>2, <1>3, <1>4, <1>5, <1>6, <1>7 DEF T

\* The record that is next, as the first pass left it.
LEMMA NeedsIs ==
  ASSUME NEW F \in Points, NEW v \in 1 .. F.size, ValuesOK(F), NEW h, Waits(h, F, v)
  PROVE /\ NeedsData(h.node[v]) <=> Needs(F, v)
        /\ ~Needs(F, v) => h.node[v].length = 0
        /\ h.node[v].type = "string" <=> F.kind[v] = "string"
<1>. DEFINE n == h.node[v]
<1>1. Kind(n.type) = F.kind[v] /\ n.length = F.len[v]
  BY DEF Waits
<1>2. F.len[v] # 0 => F.kind[v] \in Containers \cup {"string"}
  BY DEF ValuesOK
<1>. QED BY <1>1, <1>2, KindIs DEF NeedsData, Needs, Containers

LEMMA NewSecond ==
  ASSUME pass = 0, HeapOK(heap), NEW c, PointOK(c), NEW F \in Points, ValuesOK(F),
         HeapShows(heap, c), SecondHeap(heap, c, F), c.size < F.size, "seek_value" \in c.flags,
         NEW kind, F.kind[c.size + 1] = kind, F.parent[c.size + 1] = c.top, Grows(c, F),
         NEW to, NEW str, NEW type, NEW g, g = New(type)
  PROVE /\ HeapOK(g) /\ SecondHeap(g, Begun(c, kind, to, str), F)
        /\ HeapShows(g, Begun(c, kind, to, str))
        /\ g.top = c.size + 1 /\ g.top \in 1 .. Len(g.node)
<1>. DEFINE T == c.size + 1  n == heap.node[T]  d == Begun(c, kind, to, str)
<1>0. /\ heap.alloc = T /\ T \in 1 .. Len(heap.node) /\ T \in Nat
      /\ HeapOK(Taken) /\ Taken.top = T /\ Taken.root = 1 /\ Taken.live = heap.live
      /\ Taken.node = heap.node /\ Taken.alloc = (IF T = F.size THEN 0 ELSE T + 1)
      /\ Waits(heap, F, T) /\ NodeOK(n, T) /\ Len(heap.node) = F.size /\ c.size \in Nat
      /\ DOMAIN Taken = {"node", "live", "top", "root", "alloc"} /\ F.size \in Nat
  BY TakenIs DEF SecondHeap, PointOK, Points
<1>n. T \in 1 .. F.size /\ c \in Points /\ ValuesOK(c)
  BY <1>0 DEF PointOK
<1>w. /\ NeedsData(n) <=> Needs(F, T)
      /\ ~Needs(F, T) => n.length = 0
      /\ n.type = "string" <=> kind = "string"
      /\ Needs(F, T) \in BOOLEAN
  BY <1>0, <1>n, NeedsIs DEF Needs
<1>. HIDE DEF T
<1>e. /\ Kind(n.type) = kind /\ n.parent = c.top /\ n.length = F.len[T] /\ n.keys = F.keys[T]
      /\ ChainedIn(heap, T) /\ Empty(n)
  BY <1>0 DEF Waits, T
<1>1. \E m : /\ g.node = [heap.node EXCEPT ![T] = m] /\ NodeOK(m, T) /\ m.length = 0
             /\ m.data = Needs(F, T) /\ m.type = n.type /\ m.parent = c.top
             /\ m.cap = (IF kind \in Containers THEN F.len[T] ELSE 0)
             /\ m.room = (IF ~Needs(F, T) THEN 0
                          ELSE IF kind = "string" THEN F.len[T] + 1 ELSE F.keys[T])
             /\ m.used = 0 /\ m.items = <<>> /\ m.names = <<>>
             /\ g.live = heap.live \cup (IF Needs(F, T) THEN {<<"data", T>>} ELSE {})
             /\ g.top = T /\ g.root = 1 /\ g.alloc = (IF T = F.size THEN 0 ELSE T + 1)
             /\ DOMAIN g = {"node", "live", "top", "root", "alloc"}
  <2>1. CASE NeedsData(n)
    <3>. DEFINE m == Opened(n)
    <3>1. g = [Taken EXCEPT !.node[T] = Opened(@), !.live = @ \cup {<<"data", T>>}]
      BY <1>0, <2>1 DEF New, Node
    <3>2. /\ g.node = [heap.node EXCEPT ![T] = m] /\ g.live = heap.live \cup {<<"data", T>>}
          /\ g.top = T /\ g.root = 1 /\ g.alloc = (IF T = F.size THEN 0 ELSE T + 1)
          /\ DOMAIN g = {"node", "live", "top", "root", "alloc"}
      BY <1>0, <3>1
    <3>3. /\ NodeOK(m, T) /\ m.length = 0 /\ m.data = TRUE
          /\ m.cap = (IF n.type = "string" THEN 0 ELSE n.length)
          /\ m.room = (IF n.type = "string" THEN n.length + 1 ELSE n.keys)
          /\ m.type = n.type /\ m.parent = n.parent /\ m.used = n.used
          /\ m.items = n.items /\ m.names = n.names
      <4>1. m = Opened(n) /\ NodeOK(n, T)
        BY <1>0
      <4>. HIDE DEF m, n
      <4>. QED BY <4>1, OpenedIs
    <3>. HIDE DEF m, n
    <3>4. kind = "string" \/ kind \in Containers
      BY <1>w, <2>1 DEF Needs, T
    <3>. QED BY <1>e, <1>w, <2>1, <3>2, <3>3, <3>4 DEF Empty, Containers
  <2>2. CASE ~NeedsData(n)
    <3>1. g = Taken
      BY <1>0, <2>2 DEF New, Node
    <3>2. heap.node = [heap.node EXCEPT ![T] = n]
      <4>1. DOMAIN heap.node = 1 .. Len(heap.node) /\ heap.node = [u \in DOMAIN heap.node |-> heap.node[u]]
        BY SeqIs, LenProperties DEF HeapOK, IsSeq
      <4>. QED BY <4>1
    <3>3. F.len[T] = 0
      BY <1>e, <1>w, <2>2
    <3>. HIDE DEF n
    <3>. QED BY <1>0, <1>e, <1>w, <2>2, <3>1, <3>2, <3>3 DEF Empty
  <2>. QED BY <2>1, <2>2
<1>2. PICK m : /\ g.node = [heap.node EXCEPT ![T] = m] /\ NodeOK(m, T) /\ m.length = 0
               /\ m.data = Needs(F, T) /\ m.type = n.type /\ m.parent = c.top
               /\ m.cap = (IF kind \in Containers THEN F.len[T] ELSE 0)
               /\ m.room = (IF ~Needs(F, T) THEN 0
                            ELSE IF kind = "string" THEN F.len[T] + 1 ELSE F.keys[T])
               /\ m.used = 0 /\ m.items = <<>> /\ m.names = <<>>
               /\ g.live = heap.live \cup (IF Needs(F, T) THEN {<<"data", T>>} ELSE {})
               /\ g.top = T /\ g.root = 1 /\ g.alloc = (IF T = F.size THEN 0 ELSE T + 1)
               /\ DOMAIN g = {"node", "live", "top", "root", "alloc"}
  BY <1>1
<1>3. /\ IsSeq(g.node) /\ Len(g.node) = F.size /\ g.node[T] = m
      /\ \A u \in 1 .. F.size : u # T => g.node[u] = heap.node[u]
  <2>1. IsPut(heap.node, T, m, g.node) /\ IsSeq(heap.node) /\ T \in 1 .. Len(heap.node)
    BY <1>0, <1>2 DEF IsPut, HeapOK
  <2>2. /\ IsSeq(g.node) /\ Len(g.node) = Len(heap.node) /\ g.node[T] = m
        /\ \A u \in 1 .. Len(heap.node) : u # T => g.node[u] = heap.node[u]
    BY <2>1, SeqPut
  <2>. QED BY <1>0, <2>2
<1>4. HeapOK(g)
  <2>1. {g.top, g.root, g.alloc} \subseteq 0 .. F.size
    BY <1>0, <1>2, <1>n
  <2>2. g.live \subseteq {"value", "data"} \X (1 .. F.size)
    BY <1>0, <1>2, <1>n DEF HeapOK
  <2>3. \A u \in 1 .. F.size : NodeOK(g.node[u], u)
    BY <1>0, <1>2, <1>3 DEF HeapOK
  <2>. QED BY <1>2, <1>3, <2>1, <2>2, <2>3 DEF HeapOK
<1>5. /\ d.top = T /\ d.size = T /\ d.kind = [c.kind EXCEPT ![T] = kind]
      /\ d.parent = [c.parent EXCEPT ![T] = c.top] /\ d.len = c.len /\ d.keys = c.keys
  BY DEF Begun, MakePoint, T
<1>6. /\ DOMAIN c.kind = Nat /\ DOMAIN c.parent = Nat /\ c.len[T] = 0 /\ c.keys[T] = 0
      /\ c.top \in 0 .. c.size /\ (c.top = 0 <=> c.size = 0)
  <2>1. T \notin 1 .. c.size
    BY <1>0 DEF T
  <2>2. c.len[T] = 0 /\ c.keys[T] = 0
    BY <1>0, <1>n, <2>1 DEF ValuesOK
  <2>3. c.top \in 0 .. c.size /\ (c.top = 0 => c.size = 0)
    BY DEF PointOK, TopOK
  <2>4. DOMAIN c.kind = Nat /\ DOMAIN c.parent = Nat
    BY <1>n DEF Points
  <2>. QED BY <1>0, <2>2, <2>3, <2>4
<1>7. \A u \in 1 .. T : u \in 1 .. c.size \/ u = T
  BY <1>0 DEF T
<1>8. \A u \in 1 .. c.size : u # T /\ u \in 1 .. F.size /\ u \in Nat /\ g.node[u] = heap.node[u]
  <2>1. \A u \in 1 .. c.size : u # T /\ u \in 1 .. F.size /\ u \in Nat
    BY <1>0, <1>n DEF T
  <2>. QED BY <1>3, <2>1
<1>. HIDE DEF d, n
<1>9. HeapShows(g, d)
  <2>1. SizeOf(g) = T
    <3>1. Len(g.node) = F.size /\ g.alloc = (IF T = F.size THEN 0 ELSE T + 1) /\ T \in Nat
      BY <1>0, <1>2, <1>3
    <3>. QED BY <3>1 DEF SizeOf
  <2>2. ValueShown(d, T, m)
    <3>1. d.kind[T] = kind /\ d.parent[T] = c.top /\ d.len[T] = 0 /\ d.keys[T] = 0
      BY <1>0, <1>5, <1>6
    <3>2. Kind(m.type) = kind /\ m.parent = c.top /\ m.length = 0 /\ Count(m) = 0
      BY <1>2, <1>e DEF Count
    <3>. QED BY <3>1, <3>2 DEF ValueShown
  <2>3. ASSUME NEW u \in 1 .. c.size PROVE ValueShown(d, u, g.node[u])
    <3>1. ValueShown(c, u, heap.node[u])
      BY DEF HeapShows
    <3>. QED BY <1>5, <1>6, <1>8, <3>1 DEF ValueShown
  <2>. QED BY <1>2, <1>3, <1>5, <1>7, <2>1, <2>2, <2>3 DEF HeapShows
<1>10. SecondHeap(g, d, F)
  <2>1. g.live = ({"value"} \X (1 .. F.size)) \cup ({"data"} \X {v \in 1 .. T : Needs(F, v)})
    <3>1. heap.live = ({"value"} \X (1 .. F.size)) \cup ({"data"} \X {v \in 1 .. c.size : Needs(F, v)})
      BY DEF SecondHeap
    <3>2. {v \in 1 .. T : Needs(F, v)}
            = {v \in 1 .. c.size : Needs(F, v)} \cup (IF Needs(F, T) THEN {T} ELSE {})
      <4>1. T \in 1 .. T /\ \A u \in 1 .. c.size : u \in 1 .. T
        BY <1>0 DEF T
      <4>. QED BY <1>7, <4>1
    <3>. QED BY <1>2, <3>1, <3>2
  <2>2. ASSUME NEW v \in (T + 1) .. F.size PROVE Waits(g, F, v)
    <3>1. v \in (c.size + 1) .. F.size /\ v \in 1 .. F.size /\ v # T
      BY <1>0 DEF T
    <3>2. Waits(heap, F, v) /\ g.node[v] = heap.node[v]
      BY <1>3, <3>1 DEF SecondHeap
    <3>. QED BY <1>0, <1>3, <3>2 DEF Waits, ChainedIn
  <2>3. Filled(m, d, F, T)
    BY <1>0, <1>2, <1>5, <1>6 DEF Filled, T
  <2>4. ASSUME NEW v \in 1 .. c.size PROVE Filled(g.node[v], d, F, v)
    <3>1. Filled(heap.node[v], c, F, v)
      BY DEF SecondHeap
    <3>. QED BY <1>5, <1>8, <3>1 DEF Filled
  <2>5. Tree(g, T) /\ LooseOK(g, T)
    <3>1. Alike(heap, g, c.size)
      BY <1>8 DEF Alike
    <3>2. ParentsOK(heap, c.size)
      BY <1>n, ParentsShown
    <3>3. Tree(heap, c.size) /\ LooseOK(heap, c.size)
      BY DEF SecondHeap
    <3>4. heap.top = c.top
      BY DEF HeapShows
    <3>5. g.node[T].parent = heap.top /\ g.node[T].items = <<>> /\ g.top = T
      BY <1>2, <1>3, <3>4
    <3>. QED BY <1>0, <1>6, <3>1, <3>2, <3>3, <3>4, <3>5, LooseBegun DEF T
  <2>6. T # 0 /\ T <= F.size
    BY <1>n
  <2>. QED BY <1>2, <1>3, <1>5, <1>7, <2>1, <2>2, <2>3, <2>4, <2>5, <2>6 DEF SecondHeap
<1>. QED BY <1>0, <1>2, <1>3, <1>4, <1>9, <1>10 DEF d, T

-----------------------------------------------------------------------------
(* The heap at a point c, in either pass.  F is the last point, in the second. *)

HeapAt(h, c, F) == /\ HeapOK(h) /\ HeapShows(h, c)
                   /\ IF pass = 1 THEN FirstHeap(h) ELSE SecondHeap(h, c, F)

\* d says of the values but v what c says.
LikeBut(c, d, v) ==
  /\ d.size = c.size /\ d.top = c.top
  /\ \A u \in 1 .. c.size : u # v => /\ d.kind[u] = c.kind[u] /\ d.parent[u] = c.parent[u]
                                     /\ d.len[u] = c.len[u] /\ d.keys[u] = c.keys[u]

LEMMA SecondUpdated ==
  ASSUME NEW h, HeapOK(h), NEW c \in Points, ValuesOK(c), NEW F \in Points, HeapShows(h, c),
         SecondHeap(h, c, F), NEW v \in 1 .. c.size, NEW n, NEW g, Updated(h, g, v, n, h.top),
         n.parent = h.node[v].parent, n.items = h.node[v].items,
         NEW d, LikeBut(c, d, v), Filled(n, d, F, v)
  PROVE SecondHeap(g, d, F)
<1>0. c.size \in Nat /\ F.size \in Nat /\ c.size <= F.size /\ Len(h.node) = F.size /\ d.size = c.size
  BY DEF Points, SecondHeap, LikeBut
<1>1. \A u \in 1 .. F.size : u # v => g.node[u] = h.node[u]
  BY <1>0 DEF Updated
<1>2. g.node[v] = n /\ g.live = h.live /\ g.root = h.root /\ g.alloc = h.alloc /\ g.top = h.top
      /\ Len(g.node) = F.size
  BY <1>0 DEF Updated
<1>3. ASSUME NEW u \in 1 .. c.size PROVE Filled(g.node[u], d, F, u)
  <2>1. CASE u = v
    BY <1>2, <2>1
  <2>2. CASE u # v
    <3>1. Filled(h.node[u], c, F, u) /\ g.node[u] = h.node[u]
      BY <1>0, <1>1, <2>2 DEF SecondHeap
    <3>2. d.len[u] = c.len[u] /\ d.keys[u] = c.keys[u]
      BY <2>2 DEF LikeBut
    <3>. QED BY <3>1, <3>2 DEF Filled
  <2>. QED BY <2>1, <2>2
<1>4. ASSUME NEW u \in (c.size + 1) .. F.size PROVE Waits(g, F, u)
  <2>1. Waits(h, F, u) /\ u # v /\ u \in 1 .. F.size
    BY <1>0 DEF SecondHeap
  <2>. QED BY <1>0, <1>1, <1>2, <2>1 DEF Waits, ChainedIn
<1>5. Tree(g, c.size) /\ LooseOK(g, c.size)
  <2>1. Alike(h, g, c.size)
    BY <1>0, <1>1, <1>2 DEF Alike
  <2>2. ParentsOK(h, c.size)
    BY ParentsShown
  <2>3. Tree(h, c.size) /\ LooseOK(h, c.size)
    BY DEF SecondHeap
  <2>. QED BY <1>0, <1>2, <2>1, <2>2, <2>3, LooseAlike
<1>. QED BY <1>0, <1>2, <1>3, <1>4, <1>5 DEF SecondHeap

LEMMA AtUpdated ==
  ASSUME pass \in {0, 1}, NEW h, NEW c \in Points, ValuesOK(c), NEW F, pass = 0 => F \in Points,
         HeapAt(h, c, F), NEW v \in 1 .. c.size, NEW n, NEW g, HeapOK(g), Updated(h, g, v, n, h.top),
         NEW d, LikeBut(c, d, v), ValueShown(d, v, n),
         n.parent = h.node[v].parent,
         pass = 1 => Empty(n) /\ n.next = h.node[v].next,
         pass = 0 => n.items = h.node[v].items /\ Filled(n, d, F, v)
  PROVE HeapAt(g, d, F)
<1>0. c.size <= Len(h.node) /\ c.size \in Nat /\ Len(h.node) \in Nat /\ v \in 1 .. Len(h.node)
      /\ v <= c.size /\ HeapOK(h) /\ HeapShows(h, c)
  <2>1. HeapOK(h) /\ HeapShows(h, c) /\ c.size \in Nat
    BY DEF HeapAt, Points
  <2>2. c.size <= Len(h.node) /\ Len(h.node) \in Nat
    BY <2>1, SizeWithin DEF HeapShows
  <2>. QED BY <2>1, <2>2
<1>1. HeapShows(g, d)
  <2>1. \A u \in 1 .. c.size : u # v => /\ d.kind[u] = c.kind[u] /\ d.parent[u] = c.parent[u]
                                         /\ d.len[u] = c.len[u] /\ d.keys[u] = c.keys[u]
    BY DEF LikeBut
  <2>2. d.size = c.size /\ d.top = h.top
    BY <1>0 DEF LikeBut, HeapShows
  <2>. QED BY <1>0, <2>1, <2>2, ShowsUpdated
<1>2. CASE pass = 1
  <2>1. FirstHeap(g)
    BY <1>0, <1>2, FirstUpdated DEF HeapAt
  <2>. QED BY <1>1, <1>2, <2>1 DEF HeapAt
<1>3. CASE pass = 0
  <2>1. SecondHeap(h, c, F) /\ F \in Points
    BY <1>3 DEF HeapAt
  <2>2. SecondHeap(g, d, F)
    BY <1>0, <1>3, <2>1, SecondUpdated
  <2>. QED BY <1>1, <1>3, <2>2 DEF HeapAt
<1>. QED BY <1>2, <1>3

\* Only what the tree does not show changes.
LEMMA AtSame ==
  ASSUME pass \in {0, 1}, NEW h, NEW c \in Points, ValuesOK(c), NEW F, pass = 0 => F \in Points,
         HeapAt(h, c, F), NEW v \in 1 .. c.size, NEW n, NEW g, HeapOK(g), Updated(h, g, v, n, h.top),
         Same(h.node[v], n), n.next = h.node[v].next
  PROVE HeapAt(g, c, F)
<1>0. c.size <= Len(h.node) /\ c.size \in Nat /\ Len(h.node) \in Nat /\ v \in 1 .. Len(h.node)
      /\ HeapOK(h) /\ HeapShows(h, c)
  <2>1. HeapOK(h) /\ HeapShows(h, c) /\ c.size \in Nat
    BY DEF HeapAt, Points
  <2>2. c.size <= Len(h.node) /\ Len(h.node) \in Nat
    BY <2>1, SizeWithin DEF HeapShows
  <2>. QED BY <2>1, <2>2
<1>1. LikeBut(c, c, v)
  BY DEF LikeBut
<1>2. ValueShown(c, v, n)
  BY <1>0 DEF HeapShows, ValueShown, Same, Count
<1>3. n.parent = h.node[v].parent /\ n.items = h.node[v].items
  BY DEF Same
<1>4. pass = 1 => Empty(n)
  BY <1>0 DEF HeapAt, FirstHeap, Empty, Same
<1>5. pass = 0 => Filled(n, c, F, v)
  <2>1. pass = 0 => Filled(h.node[v], c, F, v)
    BY DEF HeapAt, SecondHeap
  <2>. QED BY <2>1 DEF Filled, Same
<1>. QED BY <1>1, <1>2, <1>3, <1>4, <1>5, AtUpdated

\* Only the flags and string_length change.
LEMMA AtWith ==
  ASSUME NEW h, NEW c, NEW F, HeapAt(h, c, F), NEW to, NEW str
  PROVE HeapAt(h, With(c, to, str), F)
<1>. DEFINE d == With(c, to, str)
<1>1. /\ d.top = c.top /\ d.size = c.size /\ d.kind = c.kind /\ d.parent = c.parent
      /\ d.len = c.len /\ d.keys = c.keys
  BY DEF With, MakePoint
<1>. HIDE DEF d
<1>2. HeapShows(h, d)
  BY <1>1 DEF HeapAt, HeapShows, ValueShown
<1>3. SecondHeap(h, c, F) => SecondHeap(h, d, F)
  BY <1>1 DEF SecondHeap, Filled
<1>4. HeapAt(h, d, F)
  BY <1>2, <1>3 DEF HeapAt
<1>. QED BY <1>4 DEF d

\* A value begins.
LEMMA AtBegun ==
  ASSUME pass \in {0, 1}, NEW c, PointOK(c), "seek_value" \in c.flags, NEW F, HeapAt(heap, c, F),
         NEW type, NEW kind, kind = Kind(type), NEW to, NEW str,
         pass = 0 => /\ F \in Points /\ ValuesOK(F) /\ Grows(c, F)
                     /\ Grows(Begun(c, kind, to, str), F),
         NEW g, g = New(type)
  PROVE /\ HeapAt(g, Begun(c, kind, to, str), F)
        /\ g.top = c.size + 1 /\ g.top \in 1 .. Len(g.node)
        /\ pass = 1 => g.node[g.top].type = type
<1>1. CASE pass = 1
  <2>1. HeapOK(heap) /\ FirstHeap(heap) /\ HeapShows(heap, c)
    BY <1>1 DEF HeapAt
  <2>2. /\ HeapOK(g) /\ FirstHeap(g) /\ HeapShows(g, Begun(c, Kind(type), to, str))
        /\ g.top = c.size + 1 /\ g.top \in 1 .. Len(g.node) /\ g.node[g.top].type = type
    BY <1>1, <2>1, NewFirst
  <2>. QED BY <1>1, <2>2 DEF HeapAt
<1>2. CASE pass = 0
  <2>. DEFINE d == Begun(c, kind, to, str)
  <2>1. HeapOK(heap) /\ HeapShows(heap, c) /\ SecondHeap(heap, c, F) /\ F \in Points /\ ValuesOK(F)
        /\ Grows(c, F) /\ c.size \in Nat /\ F.size \in Nat
    <3>1. HeapOK(heap) /\ HeapShows(heap, c) /\ SecondHeap(heap, c, F)
      BY <1>2 DEF HeapAt
    <3>2. F \in Points /\ ValuesOK(F) /\ Grows(c, F)
      BY <1>2
    <3>3. c.size \in Nat /\ F.size \in Nat
      BY <3>2 DEF PointOK, Points
    <3>. QED BY <3>1, <3>2, <3>3
  <2>2. d.size = c.size + 1 /\ d.kind = [c.kind EXCEPT ![c.size + 1] = kind]
        /\ d.parent = [c.parent EXCEPT ![c.size + 1] = c.top]
    BY DEF Begun, MakePoint
  <2>3. DOMAIN c.kind = Nat /\ DOMAIN c.parent = Nat
    BY DEF PointOK, Points
  <2>4. Grows(d, F)
    BY <1>2
  <2>. HIDE DEF d
  <2>5. c.size < F.size /\ F.kind[c.size + 1] = kind /\ F.parent[c.size + 1] = c.top
    BY <2>1, <2>2, <2>3, <2>4 DEF Grows
  <2>6. /\ HeapOK(g) /\ SecondHeap(g, Begun(c, kind, to, str), F)
        /\ HeapShows(g, Begun(c, kind, to, str))
        /\ g.top = c.size + 1 /\ g.top \in 1 .. Len(g.node)
    <3>1. "seek_value" \in c.flags /\ PointOK(c) /\ g = New(type)
      OBVIOUS
    <3>. HIDE DEF d
    <3>. QED BY <1>2, <2>1, <2>5, <3>1, NewSecond
  <2>. QED BY <1>2, <2>6 DEF HeapAt
<1>. QED BY <1>1, <1>2

\* The value at the top ends, or there is no room for one more in the value around it.
Closes(c, rest, F) ==
  /\ UNCHANGED <<outcome, pass, string, num, cur>> /\ Room(c, c.parent[c.top])
  /\ HeapAt(heap', Closed(c, rest), F) /\ flags' \cap Control = Closed(c, rest).flags

TooMany(c) ==
  /\ ~Room(c, c.parent[c.top])
  /\ \E g : Fail("overflow", g) /\ HeapOK(g) /\ (pass = 1 => FirstHeap(g))

LEMMA AtClosed ==
  ASSUME pass \in {0, 1}, NEW h, NEW c \in Points, ValuesOK(c), NEW F, HeapAt(h, c, F),
         pass = 0 => F \in Points /\ Grows(c, F),
         c.top \in 1 .. c.size, NEW rest, EndValue(h, rest), status = "parsing",
         NEW cr, cr = rest \cap Control
  PROVE Closes(c, cr, F) \/ TooMany(c)
<1>. USE DEF Closes, TooMany
<1>. DEFINE p == c.parent[c.top]  d == Closed(c, cr)
<1>0. HeapOK(h) /\ HeapShows(h, c)
  BY DEF HeapAt
<1>1. CASE /\ UNCHANGED <<outcome, pass, string, num, cur>> /\ Room(c, p)
           /\ HeapOK(heap') /\ HeapShows(heap', d)
           /\ flags' \cap Control = d.flags
           /\ IF p = 0 THEN heap' = h
              ELSE Updated(h, heap', p, Linked(h.node[p], c.top), p)
  <2>1. CASE p = 0
    <3>1. d = With(c, EndFlags(c, p, cr), c.str)
      BY <2>1 DEF Closed
    <3>2. HeapAt(heap', d, F)
      <4>1. HeapAt(h, With(c, EndFlags(c, p, cr), c.str), F)
        BY AtWith
      <4>. QED BY <1>1, <2>1, <3>1, <4>1
    <3>. QED BY <1>1, <3>2
  <2>2. CASE p # 0
    <3>0. Updated(h, heap', p, Linked(h.node[p], c.top), p)
      BY <1>1, <2>2
    <3>1. CASE pass = 1
      <4>1. p \in 1 .. Len(h.node)
        <5>1. p \in 1 .. c.size /\ c.size \in Nat
          BY <2>2, ParentIs
        <5>2. c.size <= Len(h.node) /\ Len(h.node) \in Nat
          BY <1>0, <3>1, SizeWithin DEF HeapShows
        <5>. QED BY <5>1, <5>2
      <4>2. FirstHeap(h)
        BY <3>1 DEF HeapAt
      <4>. HIDE DEF p
      <4>3. FirstHeap(heap')
        BY <1>0, <3>0, <3>1, <4>1, <4>2, FirstLinked
      <4>. QED BY <1>1, <3>1, <4>3 DEF HeapAt, p
    <3>2. CASE pass = 0
      <4>1. SecondHeap(h, c, F) /\ F \in Points /\ Grows(c, F)
        BY <3>2 DEF HeapAt
      <4>2. SecondHeap(heap', Closed(c, cr), F)
        BY <1>0, <2>2, <3>0, <3>2, <4>1, SecondLinked
      <4>. QED BY <1>1, <3>2, <4>2 DEF HeapAt
    <3>. QED BY <3>1, <3>2
  <2>. QED BY <2>1, <2>2
<1>2. ASSUME ~Room(c, p), NEW g, Fail("overflow", g), HeapOK(g), p \in 1 .. Len(h.node),
             Updated(h, g, p, Linked(h.node[p], c.top), h.top)
      PROVE pass = 1 => FirstHeap(g)
  <2>. SUFFICES ASSUME pass = 1 PROVE FirstHeap(g)
    OBVIOUS
  <2>1. FirstHeap(h)
    BY DEF HeapAt
  <2>2. \E q, top : q \in 1 .. Len(h.node) /\ Updated(h, g, q, Linked(h.node[q], c.top), top)
    BY <1>2
  <2>. QED BY <1>0, <2>1, <2>2, FirstLinked
<1>3. \/ /\ UNCHANGED <<outcome, pass, string, num, cur>> /\ Room(c, p)
         /\ HeapOK(heap') /\ HeapShows(heap', Closed(c, rest \cap Control))
         /\ flags' \cap Control = Closed(c, rest \cap Control).flags
         /\ IF p = 0 THEN heap' = h
            ELSE Updated(h, heap', p, Linked(h.node[p], c.top), p)
      \/ /\ ~Room(c, p)
         /\ \E g : /\ Fail("overflow", g) /\ HeapOK(g) /\ p \in 1 .. Len(h.node)
                   /\ Updated(h, g, p, Linked(h.node[p], c.top), h.top)
  BY <1>0, EndIs
<1>. QED BY <1>1, <1>2, <1>3

-----------------------------------------------------------------------------
(* A step that reads b at the point c, outside a number. *)

Shown(c) == flags \cap Control = c.flags /\ string.length = c.str

\* What the second pass knows of the point behind b.
Known(c, b, F) ==
  pass = 0 => /\ F \in Points /\ ValuesOK(F) /\ Accepts(c, b) /\ Grows(c, F) /\ Grows(After(c, b), F)
              /\ ("string" \in c.flags /\ c.kind[c.top] = "object") => c.len[c.top] < F.len[c.top]

Here(c, b, F) == /\ status = "parsing" /\ pass \in {0, 1} /\ PointOK(c) /\ Shown(c)
                 /\ HeapAt(heap, c, F) /\ Known(c, b, F)

Moved(c, b, F) ==
  /\ UNCHANGED <<outcome, pass, cur>> /\ Accepts(c, b)
  /\ flags' \cap Control = After(c, b).flags /\ string'.length = After(c, b).str
  /\ HeapAt(heap', After(c, b), F)

Stopped(c, b) ==
  /\ ~Accepts(c, b)
  /\ \E why \in {"syntax", "overflow"} : \E g :
       Fail(why, g) /\ HeapOK(g) /\ (pass = 1 => FirstHeap(g))

\* What the code sees of a point.
LEMMA Sees ==
  ASSUME NEW c, NEW b, NEW F, Here(c, b, F)
  PROVE /\ c \in Points /\ ValuesOK(c) /\ TopOK(c) /\ heap.top = c.top /\ HeapOK(heap)
        /\ c.size \in Nat /\ c.top \in 0 .. c.size /\ c.str \in Nat /\ c.flags \subseteq Control
        /\ c.top # 0 => /\ c.top \in 1 .. c.size /\ c.top \in 1 .. Len(heap.node)
                        /\ ValueShown(c, c.top, Top)
        /\ \A f \in Control : f \in flags <=> f \in c.flags
        /\ \A type \in {"array", "object"} : Within(type) <=> c.top # 0 /\ c.kind[c.top] = type
        /\ c.top # 0 => /\ Top.type = "object" <=> c.kind[c.top] = "object"
                        /\ Top.type = "string" <=> c.kind[c.top] = "string"
        /\ InString <=> "string" \in c.flags
        /\ Escaped <=> "escaped" \in c.flags
        /\ Done <=> "done" \in c.flags
        /\ Seeking <=> "seek_value" \in c.flags /\ "string" \notin c.flags /\ "done" \notin c.flags
        /\ InObject <=> {"seek_value", "string", "done"} \cap c.flags = {}
        /\ "string" \in c.flags => c.top # 0 /\ "done" \notin c.flags /\ "seek_value" \notin c.flags
        /\ ~InNumber
<1>1. c \in Points /\ ValuesOK(c) /\ TopOK(c) /\ HeapOK(heap) /\ heap.top = c.top
      /\ HeapShows(heap, c)
  BY DEF Here, PointOK, HeapAt, HeapShows
<1>2. c.size \in Nat /\ c.top \in 0 .. c.size /\ c.str \in Nat /\ c.flags \subseteq Control
  BY <1>1 DEF Points, TopOK
<1>3. c.size <= Len(heap.node) /\ Len(heap.node) \in Nat
  BY <1>1, <1>2, SizeWithin DEF HeapShows
<1>4. c.top # 0 => /\ c.top \in 1 .. c.size /\ c.top \in 1 .. Len(heap.node)
                   /\ ValueShown(c, c.top, Top)
  BY <1>1, <1>2, <1>3 DEF HeapShows, Top
<1>5. \A f \in Control : f \in flags <=> f \in c.flags
  BY DEF Here, Shown
<1>6. \A f \in {"string", "escaped", "done", "seek_value"} : f \in flags <=> f \in c.flags
  BY <1>5 DEF Control
<1>7. c.top # 0 => c.kind[c.top] = Kind(Top.type)
  BY <1>4 DEF ValueShown
<1>8. c.top # 0 => /\ Top.type = "array" <=> c.kind[c.top] = "array"
                   /\ Top.type = "object" <=> c.kind[c.top] = "object"
                   /\ Top.type = "string" <=> c.kind[c.top] = "string"
                   /\ Top.type \in {"integer", "double"} => c.kind[c.top] = "number"
  BY <1>7, KindIs
<1>9. \A type \in {"array", "object"} : Within(type) <=> c.top # 0 /\ c.kind[c.top] = type
  BY <1>1, <1>8 DEF Within
<1>10. /\ InString <=> "string" \in c.flags
       /\ Escaped <=> "escaped" \in c.flags
       /\ Done <=> "done" \in c.flags
       /\ Seeking <=> "seek_value" \in c.flags /\ "string" \notin c.flags /\ "done" \notin c.flags
  BY <1>6 DEF InString, Escaped, Done, Seeking
<1>11. "string" \in c.flags => c.top # 0 /\ "done" \notin c.flags /\ "seek_value" \notin c.flags
  BY <1>1 DEF TopOK
<1>12. {"seek_value", "string", "done"} \cap c.flags = {} => c.top # 0 /\ c.kind[c.top] = "object"
  BY <1>1 DEF TopOK
<1>13. InObject <=> {"seek_value", "string", "done"} \cap c.flags = {}
  BY <1>9, <1>10, <1>12 DEF InObject
<1>14. ~InNumber
  BY <1>1, <1>8, <1>10, <1>12 DEF InNumber
<1>. QED BY <1>1, <1>2, <1>4, <1>5, <1>8, <1>9, <1>10, <1>11, <1>13, <1>14

-----------------------------------------------------------------------------
(* In a string. *)

\* Only flags and string_length change.
LEMMA TurnIs ==
  ASSUME NEW c, NEW b, NEW F, Here(c, b, F), UNCHANGED <<outcome, pass, heap, cur>>,
         Accepts(c, b), NEW to, NEW str, After(c, b) = With(c, to, str),
         flags' \cap Control = to, string'.length = str
  PROVE Moved(c, b, F)
<1>1. HeapAt(heap, With(c, to, str), F)
  BY AtWith DEF Here
<1>2. With(c, to, str).flags = to /\ With(c, to, str).str = str
  BY DEF With, MakePoint
<1>. QED BY <1>1, <1>2 DEF Moved

LEMMA EscapeIs ==
  ASSUME NEW c, NEW b, NEW F, Here(c, b, F), Escape(b)
  PROVE Moved(c, b, F) /\ pos' = pos + 1
<1>1. /\ "string" \in c.flags /\ "escaped" \notin c.flags /\ b = "\\" /\ c.str <= UintMax
      /\ flags' = flags \cup {"escaped"} /\ pos' = pos + 1
      /\ UNCHANGED <<outcome, pass, heap, string, num, cur>>
  BY Sees DEF Escape, InStringAt, Turn, Next1, Here, Shown
<1>2. Accepts(c, b) /\ After(c, b) = With(c, c.flags \cup {"escaped"}, c.str)
  BY <1>1 DEF Accepts, AcceptsInString, Quote, After, AfterInString
<1>3. flags' \cap Control = c.flags \cup {"escaped"} /\ string'.length = c.str
  BY <1>1 DEF Here, Shown, Control
<1>. QED BY <1>1, <1>2, <1>3, TurnIs

LEMMA AddIs ==
  ASSUME NEW c, NEW b, NEW F, Here(c, b, F), StringAdd(b)
  PROVE Moved(c, b, F) /\ pos' = pos + 1
<1>1. /\ "escaped" \in c.flags \/ b \notin {"\"", "\\"}
      /\ b # "end" /\ b # "bad unicode" /\ c.str <= UintMax
      /\ flags' = flags \ {"escaped"} /\ pos' = pos + 1
      /\ string'.length = string.length + Width(b)
      /\ UNCHANGED <<outcome, pass, heap, num, cur>>
  BY Sees DEF StringAdd, InStringAt, Next1, Here, Shown
<1>2. "string" \in c.flags
  BY Sees DEF StringAdd, InStringAt
<1>3. Width(b) = WidthOf(c, b)
  BY Sees DEF Width, WidthOf
<1>4. Accepts(c, b) /\ After(c, b) = With(c, c.flags \ {"escaped"}, c.str + WidthOf(c, b))
  BY <1>1, <1>2 DEF Accepts, AcceptsInString, Quote, After, AfterInString
<1>5. flags' \cap Control = c.flags \ {"escaped"} /\ string'.length = c.str + WidthOf(c, b)
  BY <1>1, <1>3 DEF Here, Shown
<1>. QED BY <1>1, <1>4, <1>5, TurnIs

LEMMA KeyEndsIs ==
  ASSUME NEW c, NEW b, NEW F, Here(c, b, F), KeyEnds(b)
  PROVE Moved(c, b, F) /\ pos' = pos + 1
<1>0. /\ c \in Points /\ ValuesOK(c) /\ c.top \in 1 .. c.size /\ c.top \in 1 .. Len(heap.node)
      /\ c.size \in Nat /\ c.str \in Nat /\ heap.top = c.top /\ HeapOK(heap)
      /\ c.kind[c.top] = "object" /\ "string" \in c.flags /\ "escaped" \notin c.flags
      /\ ValueShown(c, c.top, Top) /\ pass \in {0, 1} /\ string.length = c.str
      /\ HeapAt(heap, c, F)
  <2>1. InString /\ ~Escaped /\ Top.type = "object"
    BY DEF KeyEnds, InStringAt
  <2>. QED BY <2>1, Sees DEF Here, Shown
<1>1. /\ b = "\"" /\ c.str <= UintMax
      /\ heap' = [heap EXCEPT !.node[heap.top] = KeyEnd(@)]
      /\ flags' = (flags \ {"string"}) \cup {"seek_value", "need_colon"} /\ pos' = pos + 1
      /\ UNCHANGED <<outcome, pass, string, num, cur>>
  BY <1>0 DEF KeyEnds, InStringAt, Next1
<1>. DEFINE to == (c.flags \ {"string"}) \cup {"seek_value", "need_colon"}
            n == KeyEnd(Top)  d == Keyed(c, c.str, to)
<1>2. Accepts(c, b) /\ After(c, b) = d
  BY <1>0, <1>1 DEF Accepts, AcceptsInString, Quote, After, AfterInString
<1>3. d.flags = to /\ d.str = c.str /\ d.size = c.size /\ d.top = c.top /\ d.kind = c.kind
      /\ d.parent = c.parent /\ d.len = c.len /\ d.keys = [c.keys EXCEPT ![c.top] = @ + c.str + 1]
  BY DEF Keyed, MakePoint
<1>4. DOMAIN c.keys = Nat /\ c.top \in Nat /\ c.keys[c.top] \in Nat /\ c.len[c.top] \in Nat
  BY <1>0 DEF Points
<1>. HIDE DEF d
<1>5. NodeOK(Top, c.top) /\ Top = heap.node[c.top]
  BY <1>0 DEF HeapOK, Top
<1>6. /\ NodeOK(n, c.top) /\ n.length = Top.length
      /\ n.keys = Top.keys + (IF pass = 1 THEN string.length + 1 ELSE 0)
      /\ n.used = Top.used + (IF pass = 1 THEN 0 ELSE string.length + 1)
      /\ n.names = (IF pass = 1 THEN Top.names ELSE Put(Top.names, Top.length, string.text))
      /\ n.type = Top.type /\ n.parent = Top.parent /\ n.next = Top.next
      /\ n.data = Top.data /\ n.cap = Top.cap /\ n.room = Top.room /\ n.items = Top.items
  <2>1. n = KeyEnd(Top) /\ string.length \in Nat
    BY <1>0
  <2>. HIDE DEF n
  <2>. QED BY <1>5, <2>1, KeyEndIs
<1>7. heap' = [heap EXCEPT !.node[c.top] = n]
  BY <1>0, <1>1, <1>5
<1>. HIDE DEF n
<1>8. HeapOK(heap') /\ Updated(heap, heap', c.top, n, heap.top)
  <2>1. heap.top \in 0 .. Len(heap.node)
    BY <1>0 DEF HeapOK
  <2>. QED BY <1>0, <1>6, <1>7, <2>1, SetNode
<1>9. LikeBut(c, d, c.top)
  BY <1>0, <1>3, <1>4 DEF LikeBut
<1>10. ValueShown(d, c.top, n)
  <2>1. d.keys[c.top] = c.keys[c.top] + c.str + 1
    BY <1>3, <1>4
  <2>2. Count(n) = Count(Top) + c.str + 1
    <3>1. Top.keys \in Nat /\ Top.used \in Nat
      BY <1>5 DEF NodeOK
    <3>2. n.keys = (IF pass = 1 THEN Top.keys + c.str + 1 ELSE Top.keys)
          /\ n.used = (IF pass = 1 THEN Top.used ELSE Top.used + c.str + 1)
      BY <1>0, <1>6, <3>1
    <3>. QED BY <3>2 DEF Count
  <2>. QED BY <1>0, <1>3, <1>6, <2>1, <2>2 DEF ValueShown
<1>11. pass = 1 => Empty(n)
  <2>1. pass = 1 => Empty(Top)
    BY <1>0, <1>5 DEF HeapAt, FirstHeap
  <2>. QED BY <1>6, <2>1 DEF Empty
<1>12. pass = 0 => Filled(n, d, F, c.top)
  <2>. SUFFICES ASSUME pass = 0 PROVE Filled(n, d, F, c.top)
    OBVIOUS
  <2>1. Filled(Top, c, F, c.top) /\ c.len[c.top] < F.len[c.top] /\ F.len[c.top] \in Nat
    <3>1. Filled(Top, c, F, c.top)
      BY <1>0, <1>5 DEF HeapAt, SecondHeap
    <3>2. c.len[c.top] < F.len[c.top] /\ F \in Points
      BY <1>0 DEF Here, Known
    <3>. QED BY <1>4, <3>1, <3>2 DEF Points
  <2>2. DOMAIN n.names = DOMAIN Top.names \cup {c.len[c.top]}
    BY <1>0, <1>6 DEF Put, ValueShown
  <2>3. DOMAIN n.names \subseteq 0 .. (n.cap - 1)
    <3>1. n.cap = F.len[c.top] /\ DOMAIN Top.names \subseteq 0 .. (n.cap - 1)
      <4>1. F.kind[c.top] = c.kind[c.top]
        BY <1>0 DEF Here, Known, Grows
      <4>. QED BY <1>0, <1>6, <2>1, <4>1 DEF Filled, Containers
    <3>. QED BY <1>4, <2>1, <2>2, <3>1
  <2>4. F.len[c.top] # 0
    BY <1>4, <2>1
  <2>. QED BY <1>3, <1>6, <2>1, <2>3, <2>4 DEF Filled
<1>13. HeapAt(heap', d, F)
  <2>1. n.parent = heap.node[c.top].parent /\ n.items = heap.node[c.top].items
        /\ n.next = heap.node[c.top].next
    BY <1>5, <1>6
  <2>2. pass = 0 => F \in Points
    BY DEF Here, Known
  <2>. QED BY <1>0, <1>8, <1>9, <1>10, <1>11, <1>12, <2>1, <2>2, AtUpdated
<1>14. flags' \cap Control = to
  BY <1>1 DEF Here, Shown, Control
<1>. QED BY <1>0, <1>1, <1>2, <1>3, <1>13, <1>14 DEF Moved

\* The value at the top of h ends: what AtClosed says, as a step at c.
LEMMA EndMoves ==
  ASSUME NEW c, NEW b, NEW F, Here(c, b, F), NEW h, NEW e \in Points, ValuesOK(e), HeapAt(h, e, F),
         e.top \in 1 .. e.size, e.str = c.str, pass = 0 => Grows(e, F),
         NEW rest, EndValue(h, rest), NEW cr, cr = rest \cap Control,
         After(c, b) = Closed(e, cr), Accepts(c, b) <=> Room(e, e.parent[e.top])
  PROVE Moved(c, b, F) \/ Stopped(c, b)
<1>1. pass \in {0, 1} /\ status = "parsing" /\ string.length = c.str /\ (pass = 0 => F \in Points)
  BY DEF Here, Known, Shown
<1>2. Closes(e, cr, F) \/ TooMany(e)
  <2>1. pass = 0 => F \in Points /\ Grows(e, F)
    BY <1>1
  <2>. QED BY <1>1, <2>1, AtClosed
<1>3. Closed(e, cr).str = e.str
  BY DEF Closed, With, MakePoint
<1>4. CASE Closes(e, cr, F)
  BY <1>1, <1>3, <1>4 DEF Closes, Moved
<1>5. CASE TooMany(e)
  BY <1>5 DEF TooMany, Stopped
<1>. QED BY <1>2, <1>4, <1>5

LEMMA StringEndsIs ==
  ASSUME NEW c, NEW b, NEW F, Here(c, b, F), StringEnds(b)
  PROVE (Moved(c, b, F) \/ Stopped(c, b)) /\ pos' = pos + 1
<1>0. /\ c \in Points /\ ValuesOK(c) /\ c.top \in 1 .. c.size /\ c.top \in 1 .. Len(heap.node)
      /\ c.size \in Nat /\ c.str \in Nat /\ heap.top = c.top /\ HeapOK(heap)
      /\ c.kind[c.top] = "string" /\ "string" \in c.flags /\ "escaped" \notin c.flags
      /\ ValueShown(c, c.top, Top) /\ pass \in {0, 1} /\ string.length = c.str
      /\ HeapAt(heap, c, F) /\ TopOK(c)
  <2>1. InString /\ ~Escaped /\ Top.type = "string"
    BY DEF StringEnds, InStringAt
  <2>. QED BY <2>1, Sees DEF Here, Shown
<1>. DEFINE n == [Top EXCEPT !.length = string.length, !.text = string.text]
            h == [heap EXCEPT !.node[heap.top] = [@ EXCEPT !.length = string.length,
                                                           !.text = string.text]]
            e == Measured(c, c.str)
<1>1. b = "\"" /\ c.str <= UintMax /\ pos' = pos + 1 /\ EndValue(h, flags \ {"string"})
  BY <1>0 DEF StringEnds, InStringAt, Next1
<1>2. c.len[c.top] = 0
  BY <1>0 DEF TopOK
<1>3. e.flags = c.flags /\ e.str = c.str /\ e.size = c.size /\ e.top = c.top /\ e.kind = c.kind
      /\ e.parent = c.parent /\ e.len = [c.len EXCEPT ![c.top] = c.str] /\ e.keys = c.keys
  BY DEF Measured, MakePoint
<1>4. e \in Points /\ Grows(c, e)
  BY <1>0, <1>2, GrowsMeasured
<1>5. Accepts(c, b) <=> Room(e, e.parent[e.top])
  <2>1. Accepts(c, b) <=> Room(c, c.parent[c.top])
    BY <1>0, <1>1 DEF Accepts, AcceptsInString, Quote
  <2>2. c.parent[c.top] # c.top /\ c.parent[c.top] \in Nat /\ DOMAIN c.len = Nat
    <3>1. c.parent[c.top] < c.top
      BY <1>0 DEF ValuesOK
    <3>2. c.parent \in [Nat -> Nat] /\ DOMAIN c.len = Nat /\ c.top \in Nat
      BY <1>0 DEF Points
    <3>. QED BY <3>1, <3>2
  <2>. QED BY <1>3, <2>1, <2>2 DEF Room
<1>6. After(c, b) = Closed(e, c.flags \ {"string"})
  BY <1>0, <1>1 DEF After, AfterInString, Quote
<1>7. ValuesOK(e)
  BY <1>0 DEF Measured, MakePoint, ValuesOK
<1>. HIDE DEF e
<1>8. pass = 0 => Grows(e, F)
  <2>. SUFFICES ASSUME pass = 0 PROVE Grows(e, F)
    OBVIOUS
  <2>1. Grows(After(c, b), F) /\ F \in Points /\ Accepts(c, b) /\ PointOK(c)
    BY DEF Here, Known
  <2>2. Grows(e, After(c, b))
    BY <1>4, <1>6, GrowsClosed
  <2>3. After(c, b) \in Points
    BY <2>1, AfterOK DEF PointOK
  <2>. QED BY <1>4, <2>1, <2>2, <2>3, GrowsOn
<1>9. HeapAt(h, e, F)
  <2>1. NodeOK(Top, c.top) /\ Top = heap.node[c.top]
    BY <1>0 DEF HeapOK, Top
  <2>2. /\ NodeOK(n, c.top) /\ n.length = string.length /\ n.next = Top.next
        /\ n.type = Top.type /\ n.parent = Top.parent /\ n.keys = Top.keys
        /\ n.data = Top.data /\ n.cap = Top.cap /\ n.room = Top.room /\ n.used = Top.used
        /\ n.items = Top.items /\ n.names = Top.names
    <3>1. IsText(n, Top, string.length, string.text) /\ string.length \in Nat
      BY <1>0 DEF IsText
    <3>. HIDE DEF n
    <3>. QED BY <2>1, <3>1, SetText
  <2>3. h = [heap EXCEPT !.node[c.top] = n]
    BY <1>0, <2>1
  <2>. HIDE DEF n, h
  <2>4. HeapOK(h) /\ Updated(heap, h, c.top, n, heap.top)
    <3>1. heap.top \in 0 .. Len(heap.node)
      BY <1>0 DEF HeapOK
    <3>. QED BY <1>0, <2>2, <2>3, <3>1, SetNode
  <2>5. LikeBut(c, e, c.top)
    BY <1>0, <1>3 DEF LikeBut, Points
  <2>6. ValueShown(e, c.top, n)
    <3>1. e.len[c.top] = c.str
      BY <1>0, <1>3 DEF Points
    <3>. QED BY <1>0, <1>3, <2>2, <3>1 DEF ValueShown, Count
  <2>7. pass = 1 => Empty(n)
    <3>1. pass = 1 => Empty(Top)
      BY <1>0, <2>1 DEF HeapAt, FirstHeap
    <3>. QED BY <2>2, <3>1 DEF Empty
  <2>8. pass = 0 => Filled(n, e, F, c.top)
    <3>. SUFFICES ASSUME pass = 0 PROVE Filled(n, e, F, c.top)
      OBVIOUS
    <3>1. Filled(Top, c, F, c.top) /\ F.kind[c.top] = c.kind[c.top]
      BY <1>0, <2>1 DEF HeapAt, SecondHeap, Here, Known, Grows
    <3>2. F.kind[c.top] \notin Containers
      BY <1>0, <3>1 DEF Containers
    <3>. QED BY <1>3, <2>2, <3>1, <3>2 DEF Filled
  <2>9. n.parent = heap.node[c.top].parent /\ n.items = heap.node[c.top].items
        /\ n.next = heap.node[c.top].next
    BY <2>1, <2>2
  <2>10. pass = 0 => F \in Points
    BY DEF Here, Known
  <2>. QED BY <1>0, <2>4, <2>5, <2>6, <2>7, <2>8, <2>9, <2>10, AtUpdated
<1>10. c.flags \ {"string"} = (flags \ {"string"}) \cap Control
  BY DEF Here, Shown
<1>11. e.top \in 1 .. e.size
  BY <1>0, <1>3
<1>. HIDE DEF h
<1>. QED BY <1>1, <1>3, <1>4, <1>5, <1>6, <1>7, <1>8, <1>9, <1>10, <1>11, EndMoves

-----------------------------------------------------------------------------
(* Outside strings. *)

LEMMA SpaceIs ==
  ASSUME NEW c, NEW b, NEW F, Here(c, b, F), Space(b)
  PROVE Moved(c, b, F) /\ pos' = pos + 1
<1>1. /\ b = " " /\ "string" \notin c.flags /\ flags' = flags /\ pos' = pos + 1
      /\ UNCHANGED <<outcome, pass, heap, string, num, cur>>
      /\ c.flags \subseteq Control /\ HeapAt(heap, c, F) /\ Shown(c)
  BY Sees DEF Space, Turn, Next1, Here
<1>2. Accepts(c, b) /\ After(c, b) = c
  BY <1>1 DEF Accepts, AcceptsSeeking, AcceptsInObject, After, AfterSeeking, AfterInObject
<1>. QED BY <1>1, <1>2 DEF Moved, Shown

LEMMA CommaIs ==
  ASSUME NEW c, NEW b, NEW F, Here(c, b, F), SeekComma(b) \/ SeekColon(b) \/ ObjectComma(b)
  PROVE Moved(c, b, F) /\ pos' = pos + 1
<1>. DEFINE mark == IF b = "," THEN {"need_comma"} ELSE {"need_colon"}
<1>1. /\ b \in {",", ":"} /\ flags' = flags \ mark /\ pos' = pos + 1
      /\ UNCHANGED <<outcome, pass, heap, string, num, cur>>
  BY DEF SeekComma, SeekColon, ObjectComma, Turn, Next1
<1>2. /\ "string" \notin c.flags /\ "done" \notin c.flags
      /\ b = "," => "need_comma" \in c.flags
      /\ b = ":" => /\ "need_comma" \notin c.flags /\ "need_colon" \in c.flags
                    /\ "seek_value" \in c.flags
  <2>1. \A f \in {"need_comma", "need_colon"} : f \in flags <=> f \in c.flags
    BY Sees DEF Control
  <2>2. Seeking \/ InObject
    BY DEF SeekComma, SeekColon, ObjectComma
  <2>3. b = ":" => Seeking
    BY DEF SeekComma, SeekColon, ObjectComma
  <2>4. "string" \notin c.flags /\ "done" \notin c.flags /\ (b = ":" => "seek_value" \in c.flags)
    BY <2>2, <2>3, Sees
  <2>. QED BY <2>1, <2>4 DEF SeekComma, SeekColon, ObjectComma
<1>3. Accepts(c, b) /\ After(c, b) = With(c, c.flags \ mark, c.str)
  BY <1>1, <1>2 DEF Accepts, AcceptsSeeking, AcceptsInObject, After, AfterSeeking, AfterInObject
<1>4. flags' \cap Control = c.flags \ mark /\ string'.length = c.str
  BY <1>1 DEF Here, Shown
<1>. HIDE DEF mark
<1>. QED BY <1>1, <1>3, <1>4, TurnIs

LEMMA KeyBeginsIs ==
  ASSUME NEW c, NEW b, NEW F, Here(c, b, F), KeyBegins(b)
  PROVE Moved(c, b, F) /\ pos' = pos + 1
<1>1. /\ b = "\"" /\ flags' = flags \cup {"string"} /\ pos' = pos + 1 /\ string'.length = 0
      /\ UNCHANGED <<outcome, pass, heap, num, cur>>
  BY DEF KeyBegins, Next1, NoString
<1>2. {"string", "done", "seek_value", "need_comma"} \cap c.flags = {}
  <2>1. "need_comma" \notin c.flags
    BY Sees DEF KeyBegins, Control
  <2>. QED BY <2>1, Sees DEF KeyBegins
<1>3. Accepts(c, b) /\ After(c, b) = With(c, c.flags \cup {"string"}, 0)
  BY <1>1, <1>2 DEF Accepts, AcceptsInObject, After, AfterInObject
<1>4. flags' \cap Control = c.flags \cup {"string"}
  BY <1>1 DEF Here, Shown, Control
<1>. QED BY <1>1, <1>3, <1>4, TurnIs

\* An array or an object ends.
LEMMA EndsIs ==
  ASSUME NEW c, NEW b, NEW F, Here(c, b, F), ArrayEnds(b) \/ ObjectEnds(b)
  PROVE (Moved(c, b, F) \/ Stopped(c, b)) /\ pos' = pos + 1
<1>. DEFINE cr == c.flags \ (IF b = "]" THEN {"need_comma", "seek_value"} ELSE {"need_comma"})
            rest == flags \ (IF b = "]" THEN {"need_comma", "seek_value"} ELSE {"need_comma"})
<1>1. /\ b \in {"]", "}"} /\ pos' = pos + 1 /\ EndValue(heap, rest)
      /\ c \in Points /\ ValuesOK(c) /\ HeapAt(heap, c, F)
  BY Sees DEF ArrayEnds, ObjectEnds, Next1, Here
<1>2. /\ "string" \notin c.flags /\ "done" \notin c.flags /\ c.top # 0 /\ c.top \in 1 .. c.size
      /\ IF b = "]" THEN "seek_value" \in c.flags /\ c.kind[c.top] = "array"
         ELSE "seek_value" \notin c.flags
  <2>1. CASE ArrayEnds(b)
    BY <2>1, Sees DEF ArrayEnds
  <2>2. CASE ObjectEnds(b)
    <3>1. Within("object")
      BY <2>2 DEF ObjectEnds, InObject
    <3>. QED BY <2>2, <3>1, Sees DEF ObjectEnds
  <2>. QED BY <2>1, <2>2
<1>3. After(c, b) = Closed(c, cr)
  BY <1>1, <1>2 DEF After, AfterSeeking, AfterInObject
<1>4. Accepts(c, b) <=> Room(c, c.parent[c.top])
  BY <1>1, <1>2 DEF Accepts, AcceptsSeeking, AcceptsInObject, Literals, Digits
<1>5. cr = rest \cap Control
  BY DEF Here, Shown
<1>6. pass = 0 => Grows(c, F)
  BY DEF Here, Known
<1>. HIDE DEF cr, rest
<1>. QED BY <1>1, <1>2, <1>3, <1>4, <1>5, <1>6, EndMoves

-----------------------------------------------------------------------------
(* A value begins. *)

\* No memory for it.
Starved(c, F) ==
  /\ NewFails /\ "seek_value" \in c.flags /\ "string" \notin c.flags
  /\ pass = 0 => /\ c.size < F.size /\ F.parent[c.size + 1] = c.top

LEMMA ValueIs ==
  ASSUME NEW c, NEW b, NEW F, Here(c, b, F), ValueAt(b)
  PROVE /\ "seek_value" \in c.flags /\ "string" \notin c.flags /\ "done" \notin c.flags /\ Ready(c)
        /\ PointOK(c) /\ c \in Points /\ c.size \in Nat /\ c.str \in Nat /\ c.flags \subseteq Control
        /\ HeapAt(heap, c, F) /\ pass \in {0, 1} /\ string.length = c.str
        /\ flags \cap Control = c.flags
<1>1. "seek_value" \in c.flags /\ "string" \notin c.flags /\ "done" \notin c.flags
  BY Sees DEF ValueAt
<1>2. Ready(c)
  BY Sees DEF ValueAt, Ready, Control
<1>. QED BY <1>1, <1>2, Sees DEF Here, Shown

\* In the second pass, it is the one that the first found.
LEMMA BegunWithin ==
  ASSUME pass = 0, NEW c \in Points, NEW F \in Points, NEW kind, NEW to, NEW str,
         Grows(Begun(c, kind, to, str), F)
  PROVE c.size < F.size /\ F.parent[c.size + 1] = c.top
<1>. DEFINE d == Begun(c, kind, to, str)
<1>1. d.size = c.size + 1 /\ d.parent = [c.parent EXCEPT ![c.size + 1] = c.top]
  BY DEF Begun, MakePoint
<1>2. DOMAIN c.parent = Nat /\ c.size \in Nat /\ F.size \in Nat
  BY DEF Points
<1>3. Grows(d, F)
  OBVIOUS
<1>. HIDE DEF d
<1>. QED BY <1>1, <1>2, <1>3 DEF Grows

\* Its array is allocated in another size than it has.
Misfits(c, F) == /\ Overruns /\ pass = 0 /\ "string" \notin c.flags /\ c.size < F.size

LEMMA OpenIs ==
  ASSUME NEW c, NEW b, NEW F, Here(c, b, F), Open(b)
  PROVE \/ Moved(c, b, F) /\ pos' = pos + 1
        \/ Starved(c, F)
        \/ Misfits(c, F)
<1>. DEFINE kind == KindOf(b)
            to == IF b = "[" THEN c.flags
                  ELSE IF b = "{" THEN c.flags \ {"seek_value"}
                  ELSE (c.flags \ {"seek_value"}) \cup {"string"}
            str == IF b = "\"" THEN 0 ELSE c.str
            d == Begun(c, kind, to, str)
<1>0. /\ "seek_value" \in c.flags /\ "string" \notin c.flags /\ "done" \notin c.flags /\ Ready(c)
      /\ PointOK(c) /\ c \in Points /\ c.size \in Nat /\ c.str \in Nat /\ c.flags \subseteq Control
      /\ HeapAt(heap, c, F) /\ pass \in {0, 1} /\ string.length = c.str
      /\ flags \cap Control = c.flags
  BY ValueIs DEF Open
<1>1. b \in {"{", "[", "\""}
  BY DEF Open, Opens
<1>2. kind = Kind(Opens[b]) /\ kind \in Kinds
  BY <1>1 DEF Opens, KindOf, Kind, Kinds
<1>3. Accepts(c, b) /\ After(c, b) = d
  BY <1>0, <1>1 DEF Accepts, AcceptsSeeking, After, AfterSeeking, AfterOpen
<1>4. d.flags = to /\ d.str = str
  BY DEF Begun, MakePoint
<1>5. pass = 0 => F \in Points /\ ValuesOK(F) /\ Grows(c, F) /\ Grows(d, F)
  BY <1>3 DEF Here, Known
<1>6. pass = 0 => c.size < F.size /\ F.parent[c.size + 1] = c.top
  <2>. HIDE DEF kind, to, str
  <2>. QED BY <1>0, <1>5, BegunWithin
<1>7. CASE NewFails
  BY <1>0, <1>6, <1>7 DEF Starved
<1>8. CASE Overruns
  BY <1>0, <1>6, <1>8 DEF Misfits, Overruns
<1>9. CASE /\ heap' = New(Opens[b])
           /\ flags' = CASE b = "{" -> flags \ {"seek_value"}
                         [] b = "[" -> flags
                         [] b = "\"" -> (flags \ {"seek_value"}) \cup {"string"}
           /\ string' = (IF b = "\"" THEN NoString ELSE string)
           /\ Next1
           /\ UNCHANGED <<outcome, pass, num, cur>>
  <2>1. flags' \cap Control = to
    BY <1>0, <1>1, <1>9 DEF Control
  <2>2. string'.length = str /\ pos' = pos + 1
    BY <1>0, <1>9 DEF NoString, Next1
  <2>3. HeapAt(heap', d, F)
    <3>1. heap' = New(Opens[b])
      BY <1>9
    <3>. HIDE DEF kind, to, str
    <3>. QED BY <1>0, <1>2, <1>5, <3>1, AtBegun
  <2>. HIDE DEF d
  <2>. QED BY <1>3, <1>4, <1>9, <2>1, <2>2, <2>3 DEF Moved
<1>. QED BY <1>7, <1>8, <1>9 DEF Open

\* A literal, or a number that the second pass skips: it begins and ends.
LEMMA WholeIs ==
  ASSUME NEW c, NEW b, NEW F, Here(c, b, F), ValueAt(b), b \in Literals \cup Digits \cup {"-"},
         NEW type, KindOf(b) = Kind(type), NEW h0, h0 = New(type),
         NEW n, NEW h, HeapOK(h0) /\ h0.top \in 1 .. Len(h0.node) =>
                         /\ HeapOK(h) /\ Updated(h0, h, h0.top, n, h0.top)
                         /\ Same(h0.node[h0.top], n) /\ n.next = h0.node[h0.top].next,
         EndValue(h, flags \ {"seek_value"})
  PROVE Moved(c, b, F) \/ Stopped(c, b)
<1>. DEFINE kind == KindOf(b)  to == c.flags \ {"seek_value"}
            e == Begun(c, kind, to, c.str)
<1>0. /\ "seek_value" \in c.flags /\ "string" \notin c.flags /\ "done" \notin c.flags /\ Ready(c)
      /\ PointOK(c) /\ c \in Points /\ c.size \in Nat /\ c.str \in Nat /\ c.flags \subseteq Control
      /\ HeapAt(heap, c, F) /\ pass \in {0, 1} /\ string.length = c.str
      /\ flags \cap Control = c.flags
  BY ValueIs
<1>1. kind \in Kinds /\ to \in SUBSET Control
  BY <1>0 DEF KindOf, Kinds
<1>2. After(c, b) = Closed(e, to)
  BY <1>0 DEF After, AfterSeeking, Literals, Digits
<1>3. e.top = c.size + 1 /\ e.size = c.size + 1 /\ e.str = c.str /\ e.len = c.len
      /\ e.parent = [c.parent EXCEPT ![c.size + 1] = c.top]
  BY DEF Begun, MakePoint
<1>4. Accepts(c, b) <=> Room(c, c.top)
  BY <1>0 DEF Accepts, AcceptsSeeking, Literals, Digits
<1>5. e \in Points /\ ValuesOK(e)
  BY <1>0, <1>1, BegunOK
<1>6. pass = 0 => F \in Points /\ ValuesOK(F) /\ Grows(c, F) /\ Grows(e, F)
  <2>. SUFFICES ASSUME pass = 0 PROVE F \in Points /\ ValuesOK(F) /\ Grows(c, F) /\ Grows(e, F)
    OBVIOUS
  <2>1. /\ F \in Points /\ ValuesOK(F) /\ Grows(c, F) /\ Accepts(c, b) /\ Grows(After(c, b), F)
        /\ PointOK(c)
    BY DEF Here, Known
  <2>. HIDE DEF e
  <2>2. Grows(e, After(c, b))
    BY <1>2, <1>5, GrowsClosed
  <2>3. After(c, b) \in Points
    BY <2>1, AfterOK DEF PointOK
  <2>. QED BY <1>5, <2>1, <2>2, <2>3, GrowsOn
<1>7. HeapAt(h0, e, F) /\ h0.top = c.size + 1 /\ h0.top \in 1 .. Len(h0.node)
  <2>. HIDE DEF kind, to
  <2>1. kind = Kind(type)
    BY DEF kind
  <2>. QED BY <1>0, <1>6, <2>1, AtBegun
<1>8. e.top \in 1 .. e.size /\ h0.top \in 1 .. e.size
  BY <1>0, <1>3, <1>7
<1>9. Accepts(c, b) <=> Room(e, e.parent[e.top])
  <2>1. e.parent[e.top] = c.top
    <3>0. c \in Points /\ c.size + 1 \in Nat
      BY <1>0
    <3>1. DOMAIN c.parent = Nat /\ c.size + 1 \in Nat
      BY <3>0 DEF Points
    <3>. HIDE DEF e
    <3>. QED BY <1>3, <3>1
  <2>. HIDE DEF e
  <2>. QED BY <1>3, <1>4, <2>1 DEF Room
<1>10. HeapAt(h, e, F)
  <2>. HIDE DEF e
  <2>1. /\ HeapOK(h) /\ Updated(h0, h, h0.top, n, h0.top) /\ Same(h0.node[h0.top], n)
        /\ n.next = h0.node[h0.top].next
    BY <1>7 DEF HeapAt
  <2>2. pass = 0 => F \in Points
    BY <1>6
  <2>. QED BY <1>0, <1>5, <1>7, <1>8, <2>1, <2>2, AtSame
<1>11. to = (flags \ {"seek_value"}) \cap Control
  BY <1>0
<1>12. pass = 0 => Grows(e, F)
  BY <1>6
<1>. HIDE DEF e, to
<1>. QED BY <1>2, <1>3, <1>5, <1>8, <1>9, <1>10, <1>11, <1>12, EndMoves

LEMMA StarvedIs ==
  ASSUME NEW c, NEW b, NEW F, Here(c, b, F), ValueAt(b), b \in Literals \cup Digits \cup {"-"}, NewFails
  PROVE Starved(c, F)
<1>. DEFINE e == Begun(c, KindOf(b), c.flags \ {"seek_value"}, c.str)
<1>1. /\ "seek_value" \in c.flags /\ "string" \notin c.flags /\ "done" \notin c.flags /\ Ready(c)
      /\ PointOK(c) /\ c \in Points /\ c.size \in Nat /\ c.str \in Nat /\ c.flags \subseteq Control
  BY ValueIs
<1>2. After(c, b) = Closed(e, c.flags \ {"seek_value"})
  BY <1>1 DEF After, AfterSeeking, Literals, Digits
<1>3. e \in Points
  <2>1. KindOf(b) \in Kinds
    BY DEF KindOf, Kinds
  <2>. QED BY <1>1, <2>1, BegunOK
<1>4. pass = 0 => c.size < F.size /\ F.parent[c.size + 1] = c.top
  <2>. SUFFICES ASSUME pass = 0 PROVE c.size < F.size /\ F.parent[c.size + 1] = c.top
    OBVIOUS
  <2>1. F \in Points /\ Accepts(c, b) /\ Grows(After(c, b), F)
    BY DEF Here, Known
  <2>2. Grows(e, F)
    <3>. HIDE DEF e
    <3>1. Grows(e, After(c, b))
      BY <1>2, <1>3, GrowsClosed
    <3>2. After(c, b) \in Points
      BY <1>1, <2>1, AfterOK DEF PointOK
    <3>. QED BY <1>3, <2>1, <3>1, <3>2, GrowsOn
  <2>. QED BY <1>1, <2>1, <2>2, BegunWithin
<1>. QED BY <1>1, <1>4 DEF Starved

LEMMA LiteralIs ==
  ASSUME NEW c, NEW b, NEW F, Here(c, b, F), Literal(b)
  PROVE ((Moved(c, b, F) \/ Stopped(c, b)) /\ pos' = pos + 1) \/ Starved(c, F)
<1>. DEFINE type == IF b = "null" THEN "null" ELSE "boolean"
            h0 == New(type)
            n == [h0.node[h0.top] EXCEPT !.bool = (b = "true")]
            h == [h0 EXCEPT !.node[h0.top].bool = (b = "true")]
<1>1. ValueAt(b) /\ b \in Literals
  BY DEF Literal
<1>2. CASE NewFails
  BY <1>1, <1>2, StarvedIs
<1>3. CASE Next1 /\ EndValue(h, flags \ {"seek_value"})
  <2>1. KindOf(b) = Kind(type)
    BY <1>1 DEF KindOf, Kind, Literals
  <2>2. ASSUME HeapOK(h0), h0.top \in 1 .. Len(h0.node)
        PROVE  /\ HeapOK(h) /\ Updated(h0, h, h0.top, n, h0.top)
               /\ Same(h0.node[h0.top], n) /\ n.next = h0.node[h0.top].next
    <3>1. NodeOK(h0.node[h0.top], h0.top) /\ h0.top \in 0 .. Len(h0.node)
      BY <2>2 DEF HeapOK
    <3>2. IsBool(n, h0.node[h0.top], (b = "true"))
      BY DEF IsBool
    <3>3. h = [h0 EXCEPT !.node[h0.top] = n]
      OBVIOUS
    <3>. HIDE DEF n, h, h0
    <3>4. NodeOK(n, h0.top) /\ Same(h0.node[h0.top], n) /\ n.next = h0.node[h0.top].next
      BY <3>1, <3>2, SetBool
    <3>. QED BY <2>2, <3>1, <3>3, <3>4, SetNode
  <2>3. h0 = New(type) /\ EndValue(h, flags \ {"seek_value"}) /\ pos' = pos + 1
    BY <1>3 DEF Next1
  <2>4. b \in Literals \cup Digits \cup {"-"}
    BY <1>1
  <2>. HIDE DEF n, h, h0, type
  <2>5. Moved(c, b, F) \/ Stopped(c, b)
    BY <1>1, <2>1, <2>2, <2>3, <2>4, WholeIs
  <2>. QED BY <2>3, <2>5
<1>. QED BY <1>2, <1>3 DEF Literal

LEMMA SkippedIs ==
  ASSUME NEW c, NEW b, NEW F, Here(c, b, F), NumberSkipped(b)
  PROVE \/ (Moved(c, b, F) \/ Stopped(c, b)) /\ pos' = SkipNumber(pos)
        \/ Starved(c, F)
<1>. DEFINE h0 == New("integer")
<1>1. ValueAt(b) /\ b \in Digits \cup {"-"}
  BY DEF NumberSkipped
<1>2. CASE NewFails
  BY <1>1, <1>2, StarvedIs
<1>3. CASE pos' = SkipNumber(pos) /\ EndValue(h0, flags \ {"seek_value"})
  <2>1. KindOf(b) = Kind("integer")
    BY <1>1 DEF KindOf, Kind, Digits
  <2>2. b \in Literals \cup Digits \cup {"-"} /\ h0 = New("integer")
    BY <1>1
  <2>. HIDE DEF h0
  <2>3. ASSUME HeapOK(h0), h0.top \in 1 .. Len(h0.node)
        PROVE  LET n == h0.node[h0.top]
               IN  /\ HeapOK(h0) /\ Updated(h0, h0, h0.top, n, h0.top)
                   /\ Same(h0.node[h0.top], n) /\ n.next = h0.node[h0.top].next
    BY <2>3 DEF Updated, Same
  <2>4. Moved(c, b, F) \/ Stopped(c, b)
    BY <1>1, <1>3, <2>1, <2>2, <2>3, WholeIs
  <2>. QED BY <1>3, <2>4
<1>. QED BY <1>2, <1>3 DEF NumberSkipped

\* The first pass begins to read a number.
NumberBegun(c, b, F) ==
  /\ UNCHANGED <<outcome, pass, string, cur>> /\ InDigits(c, b) /\ b \in Digits \cup {"-"}
  /\ flags' \cap Control = c.flags \ {"seek_value"}
  /\ HeapAt(heap', Begun(c, "number", c.flags \ {"seek_value"}, c.str), F)
  /\ pos' \in {pos, pos + 1}

LEMMA NumberBeginsIs ==
  ASSUME NEW c, NEW b, NEW F, Here(c, b, F), NumberBegins(b)
  PROVE pass = 1 /\ (NumberBegun(c, b, F) \/ Starved(c, F))
<1>1. ValueAt(b) /\ b \in Digits \cup {"-"} /\ pass = 1
  BY DEF NumberBegins
<1>2. CASE NewFails
  <2>1. b \in Literals \cup Digits \cup {"-"}
    BY <1>1
  <2>. QED BY <1>1, <1>2, <2>1, StarvedIs
<1>3. CASE /\ heap' = New("integer")
           /\ num' = NoNum
           /\ flags' = (flags \ {"seek_value", "negative", "zero", "e", "e_sign", "e_negative"})
                           \cup (IF b = "-" THEN {"negative"} ELSE {})
           /\ pos' = (IF b = "-" THEN pos + 1 ELSE pos)
           /\ UNCHANGED <<outcome, pass, string, cur>>
  <2>1. /\ "seek_value" \in c.flags /\ "string" \notin c.flags /\ "done" \notin c.flags /\ Ready(c)
        /\ PointOK(c) /\ HeapAt(heap, c, F) /\ flags \cap Control = c.flags
    BY <1>1, ValueIs
  <2>2. flags' \cap Control = c.flags \ {"seek_value"}
    BY <1>3, <2>1 DEF Control
  <2>3. HeapAt(heap', Begun(c, "number", c.flags \ {"seek_value"}, c.str), F)
    <3>1. heap' = New("integer") /\ "number" = Kind("integer") /\ pass \in {0, 1} /\ pass # 0
      BY <1>1, <1>3 DEF Kind
    <3>. QED BY <2>1, <3>1, AtBegun
  <2>4. InDigits(c, b)
    BY <1>1, <2>1 DEF InDigits
  <2>. QED BY <1>1, <1>3, <2>2, <2>3, <2>4 DEF NumberBegun
<1>. QED BY <1>1, <1>2, <1>3 DEF NumberBegins

-----------------------------------------------------------------------------
(* Errors. *)

LEMMA CutIs ==
  ASSUME NEW c, NEW b, NEW F, Here(c, b, F), CutLiteral(b)
  PROVE Stopped(c, b) \/ (~Accepts(c, b) /\ status' = "astray" /\ UNCHANGED <<cause, heap, pass, cur, string>>)
<1>1. ValueAt(b) /\ b = "cut literal"
  BY DEF CutLiteral
<1>2. "seek_value" \in c.flags /\ "string" \notin c.flags /\ "done" \notin c.flags
  BY <1>1, ValueIs
<1>3. ~Accepts(c, b)
  BY <1>1, <1>2 DEF Accepts, AcceptsSeeking, Literals, Digits
<1>4. CASE Fail("syntax", heap)
  <2>1. HeapOK(heap) /\ (pass = 1 => FirstHeap(heap))
    BY DEF Here, HeapAt
  <2>. QED BY <1>3, <1>4, <2>1 DEF Stopped
<1>. QED BY <1>3, <1>4 DEF CutLiteral

\* Each byte that is not accepted is an error, and no other is.
LEMMA WrongIs ==
  ASSUME NEW c, NEW b, b \in Bytes, NEW F, Here(c, b, F), StringTooLong(b) \/ SyntaxError(b)
  PROVE Stopped(c, b)
<1>0. HeapOK(heap) /\ (pass = 1 => FirstHeap(heap))
  BY DEF Here, HeapAt
<1>1. CASE StringTooLong(b)
  <2>1. "string" \in c.flags /\ ~(c.str <= UintMax)
    <3>1. InString /\ string.length > UintMax
      BY <1>1 DEF StringTooLong
    <3>2. c.str = string.length /\ c.str \in Nat /\ UintMax \in Nat
      BY Sees, BoundAssumption DEF Here, Shown
    <3>. QED BY <3>1, <3>2, Sees
  <2>2. ~Accepts(c, b)
    BY <2>1 DEF Accepts, AcceptsInString
  <2>3. Fail("overflow", heap)
    BY <1>1 DEF StringTooLong
  <2>. QED BY <1>0, <2>2, <2>3 DEF Stopped
<1>2. CASE SyntaxError(b)
  <2>0. Fail("syntax", heap)
    BY <1>2 DEF SyntaxError
  <2>. DEFINE f == c.flags
  <2>1. CASE InString /\ WrongInString(b)
    <3>1. "string" \in f /\ (b = "end" \/ b = "bad unicode")
      BY <2>1, Sees DEF WrongInString
    <3>2. ~Accepts(c, b)
      BY <3>1 DEF Accepts, AcceptsInString
    <3>. QED BY <1>0, <2>0, <3>2 DEF Stopped
  <2>2. CASE Done /\ b \notin {" ", "end"}
    <3>1. "done" \in f /\ "string" \notin f /\ b # " "
      BY <2>2, Sees DEF TopOK
    <3>2. ~Accepts(c, b)
      BY <3>1 DEF Accepts
    <3>. QED BY <1>0, <2>0, <3>2 DEF Stopped
  <2>3. CASE Seeking /\ WrongValue(b)
    <3>1. /\ "seek_value" \in f /\ "string" \notin f /\ "done" \notin f
          /\ Within("array") <=> c.top # 0 /\ c.kind[c.top] = "array"
          /\ "need_comma" \in flags <=> "need_comma" \in f
          /\ "need_colon" \in flags <=> "need_colon" \in f
      BY <2>3, Sees DEF Control
    <3>2. CASE b = "]"
      <4>1. ~(c.top # 0 /\ c.kind[c.top] = "array")
        BY <2>3, <3>1, <3>2 DEF WrongValue
      <4>2. ~Accepts(c, b)
        BY <3>1, <3>2, <4>1 DEF Accepts, AcceptsSeeking, Literals, Digits
      <4>. QED BY <1>0, <2>0, <4>2 DEF Stopped
    <3>3. CASE b # "]"
      <4>1. /\ b # " "
            /\ CASE "need_comma" \in f -> b # ","
                 [] "need_colon" \in f /\ "need_comma" \notin f -> b # ":"
                 [] OTHER -> b \notin DOMAIN Opens \cup Literals \cup Digits \cup {"-", "cut literal"}
        BY <2>3, <3>1, <3>3 DEF WrongValue
      <4>2. DOMAIN Opens = {"{", "[", "\""}
        BY DEF Opens
      <4>3. ~Accepts(c, b)
        BY <3>1, <3>3, <4>1, <4>2 DEF Accepts, AcceptsSeeking, Literals, Digits, Ready
      <4>. QED BY <1>0, <2>0, <4>3 DEF Stopped
    <3>. QED BY <3>2, <3>3
  <2>4. CASE InObject /\ WrongInObject(b)
    <3>1. {"seek_value", "string", "done"} \cap f = {}
          /\ ("need_comma" \in flags <=> "need_comma" \in f)
      BY <2>4, Sees DEF Control
    <3>2. ~Accepts(c, b)
      BY <2>4, <3>1 DEF Accepts, AcceptsInObject, WrongInObject
    <3>. QED BY <1>0, <2>0, <3>2 DEF Stopped
  <2>5. ~InNumber
    BY Sees
  <2>. QED BY <1>2, <2>1, <2>2, <2>3, <2>4, <2>5 DEF SyntaxError
<1>. QED BY <1>1, <1>2

-----------------------------------------------------------------------------
(* Any step at a point. *)

Astray == status' = "astray" /\ UNCHANGED <<cause, heap, pass, cur, string>>

LEMMA PointStep ==
  ASSUME NEW c, NEW b, b \in Bytes, NEW F, Here(c, b, F), Read(b)
  PROVE \/ /\ Moved(c, b, F)
           /\ IF InDigits(c, b) THEN pass = 0 /\ pos' = SkipNumber(pos) ELSE pos' = pos + 1
        \/ pass = 1 /\ NumberBegun(c, b, F)
        \/ Starved(c, F)
        \/ Misfits(c, F)
        \/ Stopped(c, b) /\ (pass = 1 => pos' \in {pos, pos + 1})
        \/ ~Accepts(c, b) /\ Astray /\ pos' = pos
        \/ PassEnds(b)
<1>0. "string" \in c.flags <=> InString
  BY Sees
<1>d. "string" \in c.flags \/ b \notin Digits \cup {"-"} => ~InDigits(c, b)
  BY DEF InDigits
<1>1. CASE Escape(b) \/ StringAdd(b) \/ KeyEnds(b)
  <2>1. InString
    BY <1>1 DEF Escape, StringAdd, KeyEnds, InStringAt
  <2>. QED BY <1>0, <1>1, <1>d, <2>1, EscapeIs, AddIs, KeyEndsIs
<1>2. CASE StringEnds(b)
  <2>1. InString
    BY <1>2 DEF StringEnds, InStringAt
  <2>. QED BY <1>0, <1>2, <1>d, <2>1, StringEndsIs
<1>3. CASE Space(b) \/ SeekComma(b) \/ SeekColon(b) \/ ObjectComma(b) \/ KeyBegins(b)
  <2>1. b \notin Digits \cup {"-"}
    BY <1>3 DEF Space, SeekComma, SeekColon, ObjectComma, KeyBegins, Digits
  <2>. QED BY <1>3, <1>d, <2>1, SpaceIs, CommaIs, KeyBeginsIs
<1>4. CASE ArrayEnds(b) \/ ObjectEnds(b)
  <2>1. b \notin Digits \cup {"-"}
    BY <1>4 DEF ArrayEnds, ObjectEnds, Digits
  <2>. QED BY <1>4, <1>d, <2>1, EndsIs
<1>5. CASE Open(b)
  <2>1. b \notin Digits \cup {"-"}
    BY <1>5 DEF Open, Opens, Digits
  <2>. QED BY <1>5, <1>d, <2>1, OpenIs
<1>6. CASE Literal(b)
  <2>1. b \notin Digits \cup {"-"}
    BY <1>6 DEF Literal, Literals, Digits
  <2>. QED BY <1>6, <1>d, <2>1, LiteralIs
<1>7. CASE CutLiteral(b)
  <2>1. UNCHANGED pos
    BY <1>7 DEF CutLiteral
  <2>. QED BY <1>7, <2>1, CutIs DEF Astray
<1>8. CASE NumberBegins(b)
  BY <1>8, NumberBeginsIs
<1>9. CASE NumberSkipped(b)
  <2>1. pass = 0
    BY <1>9 DEF NumberSkipped, Here
  <2>2. InDigits(c, b)
    BY <1>9, ValueIs DEF NumberSkipped, InDigits
  <2>. QED BY <1>9, <2>1, <2>2, SkippedIs
<1>10. CASE StringTooLong(b) \/ SyntaxError(b)
  <2>1. UNCHANGED pos
    BY <1>10 DEF StringTooLong, SyntaxError
  <2>. QED BY <1>10, <2>1, WrongIs
<1>11. ~InNumber
  BY Sees
<1>. QED BY <1>1, <1>2, <1>3, <1>4, <1>5, <1>6, <1>7, <1>8, <1>9, <1>10, <1>11
         DEF Read, ExponentDigit, IntegerDigit, DoubleDigit, ExponentSign, Point, Exponent, NumberEnds

-----------------------------------------------------------------------------
(* A step in a number, e. *)

InDouble(e, F) ==
  /\ status = "parsing" /\ pass = 1 /\ e \in Points /\ ValuesOK(e) /\ e.top \in 1 .. e.size
  /\ e.kind[e.top] = "number" /\ {"string", "done", "seek_value"} \cap e.flags = {}
  /\ Shown(e) /\ HeapAt(heap, e, F)

Counting(e, b, F) ==
  /\ UNCHANGED <<outcome, pass, string, cur>> /\ flags' \cap Control = e.flags /\ HeapAt(heap', e, F)
  /\ pos' = pos \/ (pos' = pos + 1 /\ b \in NumberBytes)

LEMMA InDoubleIs ==
  ASSUME NEW e, NEW F, InDouble(e, F)
  PROVE /\ ~InString /\ ~Done /\ ~Seeking /\ ~InObject
        /\ heap.top = e.top /\ e.top \in 1 .. Len(heap.node) /\ HeapOK(heap)
        /\ NodeOK(Top, e.top) /\ Kind(Top.type) = "number" /\ Top = heap.node[e.top]
<1>1. HeapOK(heap) /\ HeapShows(heap, e) /\ heap.top = e.top /\ e.size \in Nat
  BY DEF InDouble, HeapAt, HeapShows, Points
<1>2. e.top \in 1 .. Len(heap.node)
  BY <1>1, SizeWithin DEF InDouble, HeapShows
<1>3. NodeOK(Top, e.top) /\ Top = heap.node[e.top]
  BY <1>1, <1>2 DEF HeapOK, Top
<1>4. Kind(Top.type) = "number"
  BY <1>1, <1>3 DEF InDouble, HeapShows, ValueShown
<1>5. ~InString /\ ~Done /\ ~Seeking
  <2>1. flags \cap Control = e.flags /\ {"string", "done", "seek_value"} \cap e.flags = {}
    BY DEF InDouble, Shown
  <2>. QED BY <2>1 DEF InString, Done, Seeking, Control
<1>6. ~InObject
  BY <1>4 DEF InObject, Within, Kind
<1>. QED BY <1>1, <1>2, <1>3, <1>4, <1>5, <1>6

\* The number changes, and may become a double.
LEMMA SetNumberIs ==
  ASSUME NEW e, NEW F, InDouble(e, F), NEW type \in {"integer", "double"} \cup {Top.type}, NEW n, NEW g,
         g = SetNumber(type, n)
  PROVE HeapAt(g, e, F)
<1>0. /\ heap.top = e.top /\ e.top \in 1 .. Len(heap.node) /\ HeapOK(heap)
      /\ NodeOK(Top, e.top) /\ Kind(Top.type) = "number" /\ Top = heap.node[e.top]
      /\ e.top \in 0 .. Len(heap.node)
  BY InDoubleIs
<1>. DEFINE m == [Top EXCEPT !.type = type, !.num = n]
<1>1. g = [heap EXCEPT !.node[e.top] = m]
  BY <1>0 DEF SetNumber
<1>2. IsNumber(m, Top, type, n) /\ Kind(type) = Kind(Top.type)
  BY <1>0 DEF IsNumber, Kind
<1>. HIDE DEF m
<1>3. NodeOK(m, e.top) /\ Same(Top, m) /\ m.next = Top.next
  BY <1>0, <1>2, SetType
<1>4. HeapOK(g) /\ Updated(heap, g, e.top, m, heap.top)
  BY <1>0, <1>1, <1>3, SetNode
<1>5. pass \in {0, 1} /\ pass # 0 /\ e \in Points /\ ValuesOK(e) /\ HeapAt(heap, e, F)
      /\ e.top \in 1 .. e.size /\ Same(heap.node[e.top], m) /\ m.next = heap.node[e.top].next
  BY <1>0, <1>3 DEF InDouble
<1>. QED BY <1>4, <1>5, AtSame

LEMMA NumberStep ==
  ASSUME NEW e, NEW b \in Bytes, NEW F, InDouble(e, F), Read(b)
  PROVE \/ Counting(e, b, F)
        \/ pos' = pos /\ (Closes(e, e.flags, F) \/ TooMany(e))
        \/ pos' = pos /\ Fail("syntax", heap)
<1>0. ~InString /\ ~Done /\ ~Seeking /\ ~InObject /\ pass = 1 /\ HeapAt(heap, e, F)
      /\ flags \cap Control = e.flags /\ status = "parsing"
  BY InDoubleIs DEF InDouble, Shown
<1>1. \/ ExponentDigit(b) \/ IntegerDigit(b) \/ DoubleDigit(b) \/ ExponentSign(b)
      \/ Point(b) \/ Exponent(b) \/ NumberEnds(b) \/ SyntaxError(b)
  BY <1>0 DEF Read, StringTooLong, InStringAt, Escape, StringAdd, KeyEnds, StringEnds, Space,
       ArrayEnds, SeekComma, SeekColon, ValueAt, Open, Literal, CutLiteral, NumberBegins,
       NumberSkipped, KeyBegins, ObjectEnds, ObjectComma, PassEnds
<1>2. \A f \in {"e", "e_sign", "e_negative", "zero", "decimal"} : f \notin Control
  BY DEF Control
<1>3. CASE ExponentDigit(b) \/ ExponentSign(b)
  <2>1. /\ UNCHANGED <<outcome, pass, heap, string, cur>> /\ pos' = pos + 1 /\ b \in NumberBytes
        /\ flags' \cap Control = flags \cap Control
    BY <1>2, <1>3 DEF ExponentDigit, ExponentSign, SignOfExponent, Turn, Next1, NumberBytes
  <2>. QED BY <1>0, <2>1 DEF Counting
<1>4. CASE IntegerDigit(b)
  <2>1. /\ UNCHANGED <<outcome, pass, string, cur>> /\ b \in NumberBytes
        /\ flags' \cap Control = flags \cap Control /\ pos' \in {pos, pos + 1}
    BY <1>2, <1>4 DEF IntegerDigit, Next1, NumberBytes
  <2>2. \/ heap' = SetNumber("double", Top.num)
        \/ heap' = SetNumber("integer", [Top.num EXCEPT !.whole = Longer(@, b)])
    BY <1>4 DEF IntegerDigit
  <2>3. HeapAt(heap', e, F)
    BY <2>2, SetNumberIs
  <2>. QED BY <1>0, <2>1, <2>3 DEF Counting
<1>5. CASE DoubleDigit(b)
  <2>1. /\ UNCHANGED <<outcome, pass, flags, string, cur>> /\ b \in NumberBytes /\ pos' = pos + 1
    BY <1>5 DEF DoubleDigit, Next1, NumberBytes
  <2>2. \/ heap' = heap
        \/ heap' = SetNumber("double", [Top.num EXCEPT !.whole = Longer(@, b)])
    BY <1>5 DEF DoubleDigit
  <2>3. HeapAt(heap', e, F)
    BY <1>0, <2>2, SetNumberIs
  <2>. QED BY <1>0, <2>1, <2>3 DEF Counting
<1>6. CASE Point(b)
  <2>1. /\ UNCHANGED <<outcome, pass, string, cur>> /\ b \in NumberBytes /\ pos' = pos + 1
        /\ flags' \cap Control = flags \cap Control
    BY <1>2, <1>6 DEF Point, Next1, NumberBytes
  <2>2. heap' = SetNumber("double", Top.num)
    BY <1>6 DEF Point
  <2>3. HeapAt(heap', e, F)
    BY <2>2, SetNumberIs
  <2>. QED BY <1>0, <2>1, <2>3 DEF Counting
<1>7. CASE Exponent(b)
  <2>1. /\ UNCHANGED <<outcome, pass, string, cur>> /\ b \in NumberBytes /\ pos' = pos + 1
        /\ flags' \cap Control = flags \cap Control
    BY <1>2, <1>7 DEF Exponent, Next1, NumberBytes
  <2>2. heap' = SetNumber("double", IF Top.type = "double" THEN WithFraction(Top.num) ELSE Top.num)
    BY <1>7 DEF Exponent
  <2>3. HeapAt(heap', e, F)
    BY <2>2, SetNumberIs
  <2>. QED BY <1>0, <2>1, <2>3 DEF Counting
<1>8. CASE NumberEnds(b)
  <2>. DEFINE h == SetNumber(Top.type, Number)
  <2>1. EndValue(h, flags) /\ pos' = pos
    BY <1>8 DEF NumberEnds
  <2>2. HeapAt(h, e, F)
    BY SetNumberIs
  <2>3. /\ e \in Points /\ ValuesOK(e) /\ e.top \in 1 .. e.size /\ e.flags = flags \cap Control
        /\ pass \in {0, 1} /\ pass # 0 /\ status = "parsing"
    BY <1>0 DEF InDouble
  <2>. HIDE DEF h
  <2>4. Closes(e, e.flags, F) \/ TooMany(e)
    BY <2>1, <2>2, <2>3, AtClosed
  <2>. QED BY <2>1, <2>4
<1>9. CASE SyntaxError(b)
  BY <1>9 DEF SyntaxError
<1>. QED BY <1>1, <1>3, <1>4, <1>5, <1>6, <1>7, <1>8, <1>9

-----------------------------------------------------------------------------
(* The first pass. *)

Extends == /\ doc' \in Seq(Bytes) /\ Len(doc) <= Len(doc')
           /\ \A i \in 1 .. Len(doc) : doc'[i] = doc[i]

LEMMA ByteIs ==
  ASSUME doc \in Seq(Bytes), pos \in 0 .. Len(doc), NEW b \in Bytes, Byte(b)
  PROVE /\ Extends /\ UNCHANGED letters /\ status = "parsing"
        /\ pos + 1 \in 1 .. Len(doc') /\ doc'[pos + 1] = b
        /\ pos < Len(doc) => UNCHANGED doc
<1>1. UNCHANGED letters /\ status = "parsing"
  BY DEF Byte
<1>2. CASE pos < Len(doc)
  BY <1>1, <1>2 DEF Byte, Extends
<1>3. CASE ~(pos < Len(doc))
  <2>1. doc' = Append(doc, b) /\ pos = Len(doc) /\ Len(doc) \in Nat
    <3>1. doc' = Append(doc, b)
      BY <1>3, Zenon DEF Byte
    <3>. QED BY <1>3, <3>1
  <2>2. doc' \in Seq(Bytes) /\ Len(doc') = Len(doc) + 1
    BY <2>1, AppendProperties
  <2>3. \A i \in 1 .. Len(doc) : doc'[i] = doc[i]
    BY <2>1, AppendProperties
  <2>4. doc'[Len(doc) + 1] = b
    BY <2>1, AppendProperties
  <2>. QED BY <1>1, <1>3, <2>1, <2>2, <2>3, <2>4 DEF Extends
<1>. QED BY <1>2, <1>3

LEMMA ReadByte ==
  ASSUME NEW b, Read(b)
  PROVE Byte(b)
BY DEF Read, StringTooLong, InStringAt, Escape, StringAdd, KeyEnds, StringEnds, Space,
       ArrayEnds, SeekComma, SeekColon, ValueAt, Open, Literal, CutLiteral, NumberBegins,
       NumberSkipped, KeyBegins, ObjectEnds, ObjectComma, ExponentDigit, IntegerDigit,
       DoubleDigit, ExponentSign, Point, Exponent, NumberEnds, PassEnds, SyntaxError

LEMMA TraceKept ==
  ASSUME NEW H, NEW m, Trace(H, m), Extends, doc \in Seq(Bytes)
  PROVE Trace(H, m)'
<1>0. Len(doc) \in Nat /\ Len(doc') \in Nat
  BY DEF Extends
<1>1. ASSUME NEW i \in 1 .. m PROVE PointOK(H[i].point) /\ H[i].pos \in 0 .. Len(doc')
  BY <1>0 DEF Trace, Extends
<1>2. ASSUME NEW i \in 1 .. (m - 1) PROVE Follows(H[i], H[i + 1])'
  <2>1. Follows(H[i], H[i + 1]) /\ H[i].pos \in 0 .. Len(doc) /\ H[i + 1].pos \in 0 .. Len(doc)
    BY DEF Trace
  <2>2. H[i].pos < Len(doc) /\ H[i].pos + 1 \in 1 .. Len(doc)
    BY <1>0, <2>1 DEF Follows
  <2>3. doc'[H[i].pos + 1] = doc[H[i].pos + 1] /\ H[i].pos < Len(doc')
    BY <1>0, <2>1, <2>2 DEF Extends
  <2>4. \A j \in (H[i].pos + 1) .. H[i + 1].pos : doc'[j] = doc[j]
    BY <1>0, <2>1 DEF Extends
  <2>. QED BY <2>1, <2>3, <2>4 DEF Follows
<1>. QED BY <1>1, <1>2 DEF Trace

\* A point is added at the end.
LEMMA TraceOn ==
  ASSUME NEW H, NEW m, Trace(H, m)', NEW y, PointOK(y.point), y.pos \in 0 .. Len(doc'),
         Follows(H[m], y)'
  PROVE \E K, n : Trace(K, n)' /\ K[n] = y
<1>. DEFINE K == [i \in 1 .. (m + 1) |-> IF i <= m THEN H[i] ELSE y]
<1>0. m \in Nat \ {0} /\ m + 1 \in Nat \ {0}
  BY DEF Trace
<1>1. K[m + 1] = y /\ \A i \in 1 .. m : K[i] = H[i]
  BY <1>0
<1>. HIDE DEF K
<1>2. K[1].point = Start /\ K[1].pos = 0
  BY <1>0, <1>1 DEF Trace
<1>3. \A i \in 1 .. (m + 1) : PointOK(K[i].point) /\ K[i].pos \in 0 .. Len(doc')
  <2>1. \A i \in 1 .. (m + 1) : i \in 1 .. m \/ i = m + 1
    BY <1>0
  <2>. QED BY <1>1, <2>1 DEF Trace
<1>4. \A i \in 1 .. m : Follows(K[i], K[i + 1])'
  <2>. SUFFICES ASSUME NEW i \in 1 .. m PROVE Follows(K[i], K[i + 1])'
    OBVIOUS
  <2>1. CASE i = m
    BY <1>0, <1>1, <2>1
  <2>2. CASE i # m
    <3>1. i \in 1 .. (m - 1) /\ i + 1 \in 1 .. m
      BY <1>0, <2>2
    <3>2. Follows(H[i], H[i + 1])'
      BY <3>1 DEF Trace
    <3>. QED BY <1>1, <3>1, <3>2
  <2>. QED BY <2>1, <2>2
<1>5. (m + 1) - 1 = m
  BY <1>0
<1>6. Trace(K, m + 1)'
  BY <1>0, <1>2, <1>3, <1>4, <1>5 DEF Trace
<1>. QED BY <1>1, <1>6

\* The pass is at the last point, or reads a number that begins there.
AtPoint(x) == x.pos = pos /\ Shown(x.point) /\ HeapShows(heap, x.point)

Number0(c) == Begun(c, "number", c.flags \ {"seek_value"}, c.str)

NumberAt(x) ==
  /\ x.pos < Len(doc) /\ InDigits(x.point, doc[x.pos + 1]) /\ x.pos <= pos
  /\ \A i \in (x.pos + 1) .. pos : doc[i] \in NumberBytes
  /\ Shown(Number0(x.point)) /\ HeapShows(heap, Number0(x.point))

First == /\ HeapOK(heap) /\ FirstHeap(heap)
         /\ \E H, m : Trace(H, m) /\ (AtPoint(H[m]) \/ NumberAt(H[m]))

\* How the pass ends without another point.
FirstStops ==
  \/ \E why \in {"syntax", "overflow", "memory"} : \E g : Fail(why, g) /\ HeapOK(g) /\ FirstHeap(g)
  \/ Astray

\* A step at a point.
LEMMA FirstMoves ==
  ASSUME status = "parsing", pass = 1, doc \in Seq(Bytes), pos \in 0 .. Len(doc),
         HeapOK(heap), FirstHeap(heap), NEW H, NEW m, Trace(H, m), AtPoint(H[m]),
         NEW b \in Bytes, Read(b)
  PROVE \/ First' /\ UNCHANGED <<outcome, pass, cur>> /\ pos' \in {pos, pos + 1}
        \/ FirstStops /\ pos' \in {pos, pos + 1}
        \/ PassEnds(b)
<1>. DEFINE x == H[m]  c == H[m].point
<1>0. /\ Extends /\ pos + 1 \in 1 .. Len(doc') /\ doc'[pos + 1] = b
      /\ Len(doc) \in Nat /\ Len(doc') \in Nat /\ pos \in Nat
  <2>1. Byte(b)
    BY ReadByte
  <2>2. Extends /\ pos + 1 \in 1 .. Len(doc') /\ doc'[pos + 1] = b
    BY <2>1, ByteIs
  <2>. QED BY <2>2 DEF Extends
<1>1. Trace(H, m)'
  BY <1>0, TraceKept
<1>2. /\ m \in 1 .. m /\ PointOK(c) /\ x.pos = pos /\ Shown(c) /\ HeapShows(heap, c)
  BY DEF Trace, AtPoint
<1>3. Here(c, b, Start)
  BY <1>2 DEF Here, HeapAt, Known
<1>. HIDE DEF c
<1>4. CASE Moved(c, b, Start) /\ pos' = pos + 1 /\ ~InDigits(c, b)
  <2>0. PICK y : y = [point |-> After(c, b), pos |-> pos + 1]
    OBVIOUS
  <2>1. Accepts(c, b) /\ PointOK(After(c, b))
    BY <1>2, <1>4, AfterOK DEF Moved
  <2>2. y.point = After(c, b) /\ y.pos = pos + 1
    BY <2>0
  <2>3. Follows(H[m], y)'
    BY <1>0, <1>2, <1>4, <2>1, <2>2 DEF Follows, c
  <2>4. PointOK(y.point) /\ y.pos \in 0 .. Len(doc')
    BY <1>0, <2>1, <2>2
  <2>5. PICK K, n : Trace(K, n)' /\ K[n] = y
    BY <1>1, <2>3, <2>4, TraceOn
  <2>6. HeapOK(heap') /\ FirstHeap(heap') /\ HeapShows(heap', y.point) /\ pass' = pass
        /\ Shown(y.point)'
    BY <1>4, <2>2 DEF Moved, HeapAt, Shown
  <2>7. HeapShows(heap, y.point)'
    BY <2>6 DEF HeapShows, SizeOf, ValueShown, Count
  <2>8. AtPoint(K[n])'
    BY <1>4, <2>2, <2>5, <2>6, <2>7 DEF AtPoint
  <2>9. First'
    BY <2>5, <2>6, <2>8 DEF First
  <2>. QED BY <1>4, <2>9 DEF Moved
<1>5. CASE NumberBegun(c, b, Start)
  <2>1. HeapOK(heap') /\ FirstHeap(heap') /\ HeapShows(heap', Number0(c)) /\ pass' = pass
        /\ InDigits(c, b) /\ b \in NumberBytes /\ pos' \in {pos, pos + 1}
    BY <1>5 DEF NumberBegun, HeapAt, Number0, NumberBytes
  <2>2. Number0(c).flags = c.flags \ {"seek_value"} /\ Number0(c).str = c.str
    BY DEF Number0, Begun, MakePoint
  <2>3. Shown(Number0(c))'
    BY <1>2, <1>5, <2>2 DEF NumberBegun, Shown
  <2>4. HeapShows(heap, Number0(c))'
    BY <2>1 DEF HeapShows, SizeOf, ValueShown, Count
  <2>5. \A i \in (pos + 1) .. pos' : doc'[i] \in NumberBytes
    BY <1>0, <2>1
  <2>6. NumberAt(H[m])'
    BY <1>0, <1>2, <2>1, <2>3, <2>4, <2>5 DEF NumberAt, c
  <2>7. First'
    BY <1>1, <2>1, <2>6 DEF First
  <2>. QED BY <1>5, <2>1, <2>7 DEF NumberBegun
<1>6. CASE Starved(c, Start)
  <2>1. Fail("memory", heap) /\ UNCHANGED pos
    BY <1>6 DEF Starved, NewFails
  <2>. QED BY <2>1 DEF FirstStops
<1>7. CASE Stopped(c, b) /\ pos' \in {pos, pos + 1}
  BY <1>7 DEF Stopped, FirstStops
<1>8. CASE Astray /\ pos' = pos
  BY <1>8 DEF FirstStops
<1>9. \/ Moved(c, b, Start) /\ pos' = pos + 1 /\ ~InDigits(c, b)
      \/ NumberBegun(c, b, Start)
      \/ Starved(c, Start)
      \/ Stopped(c, b) /\ pos' \in {pos, pos + 1}
      \/ Astray /\ pos' = pos
      \/ PassEnds(b)
  <2>1. \/ /\ Moved(c, b, Start)
           /\ IF InDigits(c, b) THEN pass = 0 /\ pos' = SkipNumber(pos) ELSE pos' = pos + 1
        \/ pass = 1 /\ NumberBegun(c, b, Start)
        \/ Starved(c, Start)
        \/ Misfits(c, Start)
        \/ Stopped(c, b) /\ (pass = 1 => pos' \in {pos, pos + 1})
        \/ ~Accepts(c, b) /\ Astray /\ pos' = pos
        \/ PassEnds(b)
    BY <1>3, PointStep
  <2>. QED BY <2>1 DEF Misfits
<1>. QED BY <1>4, <1>5, <1>6, <1>7, <1>8, <1>9

\* A step in a number.
LEMMA FirstCounts ==
  ASSUME status = "parsing", pass = 1, doc \in Seq(Bytes), pos \in 0 .. Len(doc),
         HeapOK(heap), FirstHeap(heap), NEW H, NEW m, Trace(H, m), NumberAt(H[m]),
         NEW b \in Bytes, Read(b)
  PROVE \/ First' /\ UNCHANGED <<outcome, pass, cur>> /\ pos' \in {pos, pos + 1}
        \/ FirstStops /\ pos' \in {pos, pos + 1}
<1>. DEFINE x == H[m]  c == H[m].point  e == Number0(c)  d == doc[x.pos + 1]
<1>0. /\ Extends /\ pos + 1 \in 1 .. Len(doc') /\ doc'[pos + 1] = b
      /\ Len(doc) \in Nat /\ Len(doc') \in Nat /\ pos \in Nat
  <2>1. Byte(b)
    BY ReadByte
  <2>2. Extends /\ pos + 1 \in 1 .. Len(doc') /\ doc'[pos + 1] = b
    BY <2>1, ByteIs
  <2>. QED BY <2>2 DEF Extends
<1>1. Trace(H, m)'
  BY <1>0, TraceKept
<1>2. /\ m \in 1 .. m /\ PointOK(c) /\ x.pos < Len(doc) /\ x.pos <= pos /\ InDigits(c, d)
      /\ x.pos \in 0 .. Len(doc) /\ Shown(e) /\ HeapShows(heap, e)
      /\ \A i \in (x.pos + 1) .. pos : doc[i] \in NumberBytes
  BY DEF Trace, NumberAt
<1>3. /\ "seek_value" \in c.flags /\ "string" \notin c.flags /\ "done" \notin c.flags /\ Ready(c)
      /\ c \in Points /\ c.size \in Nat /\ c.str \in Nat /\ c.flags \in SUBSET Control
      /\ d \in Digits \cup {"-"}
  BY <1>2 DEF InDigits, PointOK, Points
<1>4. /\ e.flags = c.flags \ {"seek_value"} /\ e.str = c.str /\ e.top = c.size + 1
      /\ e.size = c.size + 1 /\ e.len = c.len /\ e.kind = [c.kind EXCEPT ![c.size + 1] = "number"]
      /\ e.parent = [c.parent EXCEPT ![c.size + 1] = c.top]
  BY DEF Number0, Begun, MakePoint
<1>5. e \in Points /\ ValuesOK(e)
  <2>1. "number" \in Kinds /\ c.flags \ {"seek_value"} \in SUBSET Control
    BY <1>3 DEF Kinds
  <2>. QED BY <1>2, <1>3, <2>1, BegunOK DEF Number0
<1>6. DOMAIN c.kind = Nat /\ DOMAIN c.parent = Nat
  BY <1>3 DEF Points
<1>. HIDE DEF e, c
<1>7. e.top \in 1 .. e.size /\ e.kind[e.top] = "number" /\ e.parent[e.top] = c.top
  <2>1. c.size + 1 \in Nat /\ c.size + 1 \in 1 .. (c.size + 1)
    BY <1>3
  <2>2. e.kind[c.size + 1] = "number" /\ e.parent[c.size + 1] = c.top
    BY <1>4, <1>6, <2>1
  <2>. QED BY <1>4, <2>1, <2>2
<1>8. InDouble(e, Start)
  BY <1>2, <1>3, <1>4, <1>5, <1>7 DEF InDouble, HeapAt
<1>9. d = doc'[x.pos + 1] /\ x.pos < Len(doc')
  <2>1. x.pos + 1 \in 1 .. Len(doc) /\ Len(doc) <= Len(doc') /\ Len(doc') \in Nat
    BY <1>0, <1>2 DEF Extends
  <2>2. doc'[x.pos + 1] = doc[x.pos + 1]
    BY <1>0, <2>1 DEF Extends
  <2>. QED BY <1>0, <1>2, <2>1, <2>2
<1>10. \A i \in (x.pos + 1) .. pos : doc'[i] \in NumberBytes
  <2>1. \A i \in (x.pos + 1) .. pos : i \in 1 .. Len(doc)
    BY <1>0, <1>2
  <2>. QED BY <1>0, <1>2, <2>1 DEF Extends
<1>11. CASE Counting(e, b, Start)
  <2>1. HeapOK(heap') /\ FirstHeap(heap') /\ HeapShows(heap', e) /\ pass' = pass
        /\ (pos' = pos \/ (pos' = pos + 1 /\ b \in NumberBytes))
    BY <1>11 DEF Counting, HeapAt
  <2>2. Shown(e)'
    BY <1>2, <1>11 DEF Counting, Shown
  <2>3. HeapShows(heap, e)'
    BY <2>1 DEF HeapShows, SizeOf, ValueShown, Count
  <2>4. \A i \in (x.pos + 1) .. pos' : doc'[i] \in NumberBytes
    <3>1. \A i \in (x.pos + 1) .. pos' : i \in (x.pos + 1) .. pos \/ (i = pos + 1 /\ b \in NumberBytes)
      BY <1>0, <1>2, <2>1
    <3>. QED BY <1>0, <1>10, <3>1
  <2>5. NumberAt(H[m])'
    <3>1. x.pos <= pos'
      BY <1>0, <1>2, <2>1
    <3>. QED BY <1>2, <1>9, <2>2, <2>3, <2>4, <3>1 DEF NumberAt, c, e
  <2>6. First'
    BY <1>1, <2>1, <2>5 DEF First
  <2>. QED BY <1>11, <2>1, <2>6 DEF Counting
<1>12. CASE pos' = pos /\ Closes(e, e.flags, Start)
  <2>0. PICK y : y = [point |-> Closed(e, e.flags), pos |-> pos]
    OBVIOUS
  <2>1. KindOf(d) = "number"
    BY <1>3 DEF KindOf, Digits
  <2>2. After(c, d) = Closed(e, e.flags)
    BY <1>3, <1>4, <2>1 DEF After, AfterSeeking, Number0, Digits, e
  <2>3. Accepts(c, d)
    <3>1. Room(e, c.top)
      BY <1>7, <1>12 DEF Closes
    <3>2. Room(c, c.top)
      BY <1>4, <3>1 DEF Room
    <3>. QED BY <1>3, <3>2 DEF Accepts, AcceptsSeeking
  <2>4. y.point = After(c, d) /\ y.pos = pos /\ PointOK(y.point)
    BY <1>2, <2>0, <2>2, <2>3, AfterOK
  <2>5. Follows(H[m], y)'
    BY <1>2, <1>9, <1>10, <2>3, <2>4 DEF Follows, c
  <2>6. y.pos \in 0 .. Len(doc')
    BY <1>0, <2>4
  <2>7. PICK K, n : Trace(K, n)' /\ K[n] = y
    BY <1>1, <2>4, <2>5, <2>6, TraceOn
  <2>8. HeapOK(heap') /\ FirstHeap(heap') /\ HeapShows(heap', y.point) /\ pass' = pass
        /\ flags' \cap Control = y.point.flags /\ UNCHANGED string
    BY <1>12, <2>2, <2>4 DEF Closes, HeapAt
  <2>9. y.point.str = e.str
    BY <2>2, <2>4 DEF Closed, With, MakePoint
  <2>10. AtPoint(K[n])'
    <3>1. HeapShows(heap, y.point)'
      BY <2>8 DEF HeapShows, SizeOf, ValueShown, Count
    <3>2. Shown(y.point)'
      BY <1>2, <2>8, <2>9 DEF Shown
    <3>. QED BY <1>12, <2>4, <2>7, <3>1, <3>2 DEF AtPoint
  <2>11. First'
    BY <2>7, <2>8, <2>10 DEF First
  <2>. QED BY <1>12, <2>11 DEF Closes
<1>13. CASE pos' = pos /\ TooMany(e)
  BY <1>13 DEF TooMany, FirstStops
<1>14. CASE pos' = pos /\ Fail("syntax", heap)
  BY <1>14 DEF FirstStops
<1>15. \/ Counting(e, b, Start)
       \/ pos' = pos /\ (Closes(e, e.flags, Start) \/ TooMany(e))
       \/ pos' = pos /\ Fail("syntax", heap)
  BY <1>8, NumberStep
<1>. QED BY <1>11, <1>12, <1>13, <1>14, <1>15

-----------------------------------------------------------------------------
(* The second pass. *)

\* It is at the point k.
SecondAt(H, m, k) == /\ WholeTrace(H, m) /\ k \in 1 .. m /\ AtPoint(H[k]) /\ HeapOK(heap)
                     /\ SecondHeap(heap, H[k].point, H[m].point)

LEMMA SkipIs ==
  ASSUME doc \in Seq(Bytes), NEW to \in pos .. (Len(doc) - 1), pos \in Nat,
         \A i \in (pos + 1) .. to : doc[i] \in NumberBytes, doc[to + 1] \notin NumberBytes
  PROVE SkipNumber(pos) = to
<1>. DEFINE Ends(n) == /\ \A i \in (pos + 1) .. n : doc[i] \in NumberBytes
                       /\ doc[n + 1] \notin NumberBytes
<1>0. Len(doc) \in Nat
  OBVIOUS
<1>1. to \in pos .. Len(doc) /\ Ends(to)
  BY <1>0
<1>2. ASSUME NEW n \in pos .. Len(doc), Ends(n) PROVE n = to
  <2>1. CASE n < to
    <3>1. n + 1 \in (pos + 1) .. to
      BY <1>0, <2>1
    <3>. QED BY <1>2, <3>1
  <2>2. CASE to < n
    <3>1. to + 1 \in (pos + 1) .. n
      BY <1>0, <2>2
    <3>. QED BY <1>2, <3>1
  <2>. QED BY <1>0, <2>1, <2>2
<1>3. SkipNumber(pos) = CHOOSE n \in pos .. Len(doc) : Ends(n)
  BY DEF SkipNumber
<1>. HIDE DEF Ends
<1>. QED BY <1>1, <1>2, <1>3

\* What may stand behind a value is no part of a number.
LEMMA AfterValue ==
  ASSUME NEW c, "need_comma" \in c.flags, "string" \notin c.flags, NEW b, Accepts(c, b)
  PROVE b \notin NumberBytes
BY DEF Accepts, AcceptsSeeking, AcceptsInObject, Ready, NumberBytes, Digits

LEMMA AfterNumber ==
  ASSUME NEW c, PointOK(c), NEW b, InDigits(c, b), NEW d, d = After(c, b)
  PROVE "need_comma" \in d.flags /\ "string" \notin d.flags
<1>. DEFINE e == Begun(c, KindOf(b), c.flags \ {"seek_value"}, c.str)
<1>1. d = Closed(e, c.flags \ {"seek_value"})
  BY DEF After, AfterSeeking, InDigits, Digits
<1>2. "string" \notin c.flags
  BY DEF InDigits
<1>. HIDE DEF e
<1>. QED BY <1>1, <1>2 DEF Closed, With, MakePoint, EndFlags

LEMMA SecondMoves ==
  ASSUME status = "parsing", pass = 0, doc \in Seq(Bytes), NEW H, NEW m, NEW k, SecondAt(H, m, k),
         NEW b \in Bytes, Read(b)
  PROVE /\ UNCHANGED doc
        /\ \/ SecondAt(H, m, k + 1)' /\ UNCHANGED <<outcome, pass, cur>>
           \/ Starved(H[k].point, H[m].point)
           \/ Misfits(H[k].point, H[m].point)
           \/ k = m /\ PassEnds(b)
<1>. DEFINE x == H[k]  c == H[k].point  F == H[m].point
<1>0. /\ m \in Nat \ {0} /\ m \in 1 .. m /\ k \in 1 .. m /\ m \in k .. m /\ Trace(H, m)
      /\ WholeTrace(H, m) /\ x.pos = pos /\ Shown(c)
  BY DEF SecondAt, WholeTrace, Trace, AtPoint
<1>1. /\ \A i \in 1 .. m : PointOK(H[i].point) /\ H[i].pos \in 0 .. Len(doc)
      /\ Len(doc) \in Nat /\ pos \in 0 .. Len(doc)
  <2>1. \A i \in 1 .. m : PointOK(H[i].point) /\ H[i].pos \in 0 .. Len(doc)
    BY <1>0 DEF Trace
  <2>. QED BY <1>0, <2>1
<1>2. pos < Len(doc)
  BY <1>0, NextPoint
<1>3. b = doc[pos + 1] /\ UNCHANGED doc
  <2>1. Byte(b)
    BY ReadByte
  <2>. QED BY <1>2, <2>1, Zenon DEF Byte
<1>4. CASE k = m
  <2>1. "done" \in c.flags /\ b = "end"
    BY <1>0, <1>3, <1>4 DEF WholeTrace
  <2>2. TopOK(c)
    BY <1>0, <1>1 DEF PointOK
  <2>3. "string" \notin c.flags
    BY <2>1, <2>2 DEF TopOK
  <2>4. Done /\ ~InString
    BY <1>0, <2>1, <2>3 DEF Shown, Done, InString, Control
  <2>5. ~Seeking /\ ~InObject /\ ~InNumber
    BY <2>4 DEF Seeking, InObject, InNumber
  <2>6. ~SyntaxError(b)
    BY <2>1, <2>4, <2>5 DEF SyntaxError
  <2>7. PassEnds(b)
    BY <2>1, <2>4, <2>5, <2>6
       DEF Read, StringTooLong, InStringAt, Escape, StringAdd, KeyEnds, StringEnds, Space,
       ArrayEnds, SeekComma, SeekColon, ValueAt, Open, Literal, CutLiteral, NumberBegins,
       NumberSkipped, KeyBegins, ObjectEnds, ObjectComma, ExponentDigit, IntegerDigit,
       DoubleDigit, ExponentSign, Point, Exponent, NumberEnds
  <2>. QED BY <1>3, <1>4, <2>7
<1>5. CASE k # m
  <2>. DEFINE y == H[k + 1]
  <2>1. k + 1 \in 1 .. m /\ Follows(x, y) /\ b # "end"
    BY <1>0, <1>3, <1>5, NextPoint
  <2>2. /\ Accepts(c, b) /\ y.point = After(c, b) /\ y.pos \in 0 .. Len(doc) /\ y.pos < Len(doc)
        /\ IF InDigits(c, b)
             THEN y.pos >= pos /\ \A i \in (pos + 1) .. y.pos : doc[i] \in NumberBytes
             ELSE y.pos = pos + 1
    BY <1>0, <1>1, <1>3, <2>1, NextPoint DEF Follows
  <2>3. Grows(c, F) /\ Grows(y.point, F)
    <3>1. m \in (k + 1) .. m
      BY <1>0, <2>1
    <3>. QED BY <1>0, <2>1, <3>1, TraceGrows
  <2>4. F \in Points /\ ValuesOK(F) /\ PointOK(c) /\ PointOK(y.point)
    BY <1>0, <1>1, <2>1 DEF PointOK
  <2>5. ("string" \in c.flags /\ c.kind[c.top] = "object") => c.len[c.top] < F.len[c.top]
    BY <1>0, KeyPromised DEF WholeTrace
  <2>6. Known(c, b, F)
    BY <2>2, <2>3, <2>4, <2>5 DEF Known
  <2>7. Here(c, b, F)
    <3>1. HeapAt(heap, c, F)
      BY DEF HeapAt, SecondAt, AtPoint
    <3>. QED BY <1>0, <2>4, <2>6, <3>1 DEF Here
  <2>8. ~PassEnds(b)
    BY <2>1 DEF PassEnds
  <2>9. \/ Moved(c, b, F) /\ pos' = IF InDigits(c, b) THEN SkipNumber(pos) ELSE pos + 1
        \/ Starved(c, F)
        \/ Misfits(c, F)
    <3>1. \/ /\ Moved(c, b, F)
             /\ IF InDigits(c, b) THEN pass = 0 /\ pos' = SkipNumber(pos) ELSE pos' = pos + 1
          \/ pass = 1 /\ NumberBegun(c, b, F)
          \/ Starved(c, F)
          \/ Misfits(c, F)
          \/ Stopped(c, b) /\ (pass = 1 => pos' \in {pos, pos + 1})
          \/ ~Accepts(c, b) /\ Astray /\ pos' = pos
          \/ PassEnds(b)
      BY <2>7, PointStep
    <3>. QED BY <2>2, <2>8, <3>1 DEF Stopped
  <2>10. InDigits(c, b) => SkipNumber(pos) = y.pos
    <3>. SUFFICES ASSUME InDigits(c, b) PROVE SkipNumber(pos) = y.pos
      OBVIOUS
    <3>1. "need_comma" \in y.point.flags /\ "string" \notin y.point.flags
      BY <2>2, <2>4, AfterNumber
    <3>2. doc[y.pos + 1] \notin NumberBytes
      <4>1. CASE k + 1 = m
        BY <1>0, <4>1 DEF WholeTrace, NumberBytes, Digits
      <4>2. CASE k + 1 # m
        <5>1. Follows(y, H[(k + 1) + 1])
          BY <1>0, <2>1, <4>2, NextPoint
        <5>2. Accepts(y.point, doc[y.pos + 1])
          BY <5>1 DEF Follows
        <5>. QED BY <3>1, <5>2, AfterValue
      <4>. QED BY <4>1, <4>2
    <3>3. y.pos \in pos .. (Len(doc) - 1) /\ pos \in Nat
      BY <1>1, <2>2
    <3>4. \A i \in (pos + 1) .. y.pos : doc[i] \in NumberBytes
      BY <2>2
    <3>. HIDE DEF y
    <3>. QED BY <3>2, <3>3, <3>4, SkipIs
  <2>11. ASSUME Moved(c, b, F), pos' = IF InDigits(c, b) THEN SkipNumber(pos) ELSE pos + 1
         PROVE SecondAt(H, m, k + 1)' /\ UNCHANGED <<outcome, pass, cur>>
    <3>1. y.pos = pos'
      BY <2>2, <2>10, <2>11
    <3>2. UNCHANGED <<outcome, pass, cur>> /\ HeapAt(heap', y.point, F)
          /\ flags' \cap Control = y.point.flags /\ string'.length = y.point.str
      BY <2>2, <2>11 DEF Moved
    <3>3. HeapOK(heap') /\ HeapShows(heap', y.point) /\ SecondHeap(heap', y.point, F)
      BY <3>2 DEF HeapAt
    <3>4. HeapShows(heap, y.point)'
      BY <3>2, <3>3 DEF HeapShows, SizeOf, ValueShown, Count
    <3>5. AtPoint(y)'
      BY <3>1, <3>2, <3>4 DEF AtPoint, Shown
    <3>6. WholeTrace(H, m)'
      BY <1>0, <1>3 DEF WholeTrace, Trace, Follows
    <3>7. SecondHeap(heap, y.point, F)'
      BY <3>3
    <3>. QED BY <2>1, <3>2, <3>3, <3>5, <3>6, <3>7 DEF SecondAt
  <2>. QED BY <1>3, <2>9, <2>11
<1>. QED BY <1>4, <1>5

\* The second pass begins.
LEMMA SecondBegins ==
  ASSUME status = "parsing", pass = 1, doc \in Seq(Bytes), pos \in 0 .. Len(doc),
         HeapOK(heap), FirstHeap(heap), NEW H, NEW m, Trace(H, m), AtPoint(H[m]),
         NEW b \in Bytes, PassEnds(b)
  PROVE SecondAt(H, m, 1)' /\ UNCHANGED <<outcome, cur>> /\ pass' = 0
<1>. DEFINE F == H[m].point
<1>0. /\ Extends /\ pos + 1 \in 1 .. Len(doc') /\ doc'[pos + 1] = b
      /\ Len(doc) \in Nat /\ Len(doc') \in Nat /\ pos \in Nat
  <2>1. Byte(b)
    BY DEF PassEnds
  <2>2. Extends /\ pos + 1 \in 1 .. Len(doc') /\ doc'[pos + 1] = b
    BY <2>1, ByteIs
  <2>. QED BY <2>2 DEF Extends
<1>1. Trace(H, m)' /\ m \in 1 .. m /\ 1 \in 1 .. m
  <2>1. m \in Nat \ {0}
    BY DEF Trace
  <2>. QED BY <1>0, <2>1, TraceKept
<1>2. PointOK(F) /\ F \in Points /\ ValuesOK(F) /\ TopOK(F) /\ H[m].pos = pos
      /\ flags \cap Control = F.flags /\ HeapShows(heap, F)
  <2>1. PointOK(F)
    BY <1>1 DEF Trace
  <2>. QED BY <2>1 DEF AtPoint, Shown, PointOK
<1>3. "done" \in F.flags /\ b = "end"
  BY <1>2 DEF PassEnds, Done, Control
<1>4. WholeTrace(H, m)'
  BY <1>0, <1>1, <1>2, <1>3 DEF WholeTrace
<1>5. /\ pass' = 0 /\ pos' = 0 /\ flags' = {"seek_value"} /\ string' = NoString
      /\ UNCHANGED <<outcome, cur>>
      /\ heap' = [heap EXCEPT !.alloc = heap.root, !.top = 0, !.root = 0]
  BY DEF PassEnds, outcome
<1>6. H[1].point = Start /\ H[1].pos = 0
  BY <1>1 DEF Trace
<1>7. Shown(Start)'
  BY <1>5 DEF Shown, Start, MakePoint, NoString, Control
<1>8. F.size = Len(heap.node) /\ F.size \in Nat /\ F.size # 0
  <2>1. F.top = 1 /\ F.top \in 0 .. F.size
    BY <1>2, <1>3 DEF TopOK
  <2>. QED BY <1>2, <2>1 DEF HeapShows, SizeOf, Points
<1>9. /\ heap'.alloc = 1 /\ heap'.top = 0 /\ heap'.root = 0 /\ heap'.node = heap.node
      /\ heap'.live = heap.live /\ HeapOK(heap')
  <2>1. heap.root = 1
    BY <1>8 DEF FirstHeap
  <2>2. /\ heap'.alloc = 1 /\ heap'.top = 0 /\ heap'.root = 0 /\ heap'.node = heap.node
        /\ heap'.live = heap.live /\ DOMAIN heap' = DOMAIN heap
    BY <1>5, <2>1 DEF HeapOK
  <2>. QED BY <1>8, <2>2 DEF HeapOK
<1>10. Start.top = 0 /\ Start.size = 0
  BY DEF Start, MakePoint
<1>11. HeapShows(heap, Start)'
  BY <1>5, <1>9, <1>10 DEF HeapShows, SizeOf
<1>12. \A v \in 1 .. F.size : Waits(heap', F, v)
  <2>. SUFFICES ASSUME NEW v \in 1 .. F.size PROVE Waits(heap', F, v)
    OBVIOUS
  <2>1. ValueShown(F, v, heap.node[v]) /\ Empty(heap.node[v]) /\ ChainedIn(heap, v)
    BY <1>2, <1>8 DEF HeapShows, FirstHeap
  <2>. QED BY <1>9, <2>1 DEF Waits, ValueShown, Count, ChainedIn
<1>13. SecondHeap(heap', Start, F)
  <2>1. heap'.live = {"value"} \X (1 .. F.size)
    BY <1>8, <1>9 DEF FirstHeap
  <2>2. Tree(heap', 0) /\ LooseOK(heap', 0)
    BY <1>9 DEF Tree, LooseOK, Loose
  <2>. QED BY <1>8, <1>9, <1>10, <1>12, <2>1, <2>2 DEF SecondHeap
<1>14. AtPoint(H[1])'
  BY <1>5, <1>6, <1>7, <1>11 DEF AtPoint
<1>. QED BY <1>1, <1>4, <1>5, <1>6, <1>9, <1>13, <1>14 DEF SecondAt

-----------------------------------------------------------------------------
(* What json_value_free_ex comes to. *)

\* The values up to T that the root leads to.
Reach(h, T, R) ==
  /\ R \subseteq 1 .. T /\ 1 \in R
  /\ \A v \in 2 .. T : v \in R <=> h.node[v].parent \in R /\ v \notin Loose(h, T)

LEMMA ReachIs ==
  ASSUME NEW h, NEW T \in Nat \ {0}, ParentsOK(h, T)
  PROVE \E R : Reach(h, T, R)
<1>. DEFINE Closes1(X) == 1 \in X /\ \A u \in 2 .. T : h.node[u].parent \in X /\ u \notin Loose(h, T)
                                                       => u \in X
            R == {v \in 1 .. T : \A X \in SUBSET (1 .. T) : Closes1(X) => v \in X}
<1>1. 1 \in R
  OBVIOUS
<1>2. ASSUME NEW u \in 2 .. T, h.node[u].parent \in R, u \notin Loose(h, T) PROVE u \in R
  BY <1>2
<1>3. ASSUME NEW v \in 2 .. T, v \in R PROVE h.node[v].parent \in R /\ v \notin Loose(h, T)
  <2>. SUFFICES ASSUME ~(h.node[v].parent \in R /\ v \notin Loose(h, T)) PROVE FALSE
    OBVIOUS
  <2>. DEFINE X == R \ {v}
  <2>1. 1 \in X
    BY <1>1
  <2>2. ASSUME NEW u \in 2 .. T, h.node[u].parent \in X, u \notin Loose(h, T) PROVE u \in X
    BY <1>2, <2>2
  <2>3. X \in SUBSET (1 .. T)
    OBVIOUS
  <2>4. Closes1(X)
    BY <2>1, <2>2
  <2>5. v \in X
    <3>. HIDE DEF X, Closes1
    <3>. QED BY <1>3, <2>3, <2>4
  <2>. QED BY <2>5
<1>4. R \subseteq 1 .. T
  OBVIOUS
<1>. HIDE DEF R
<1>. QED BY <1>1, <1>2, <1>3, <1>4 DEF Reach

\* What holds of the nodes of a heap holds of the same nodes in another.
LEMMA SameNodes ==
  ASSUME NEW h, NEW g, g.node = h.node, NEW T
  PROVE /\ Loose(g, T) = Loose(h, T) /\ (Tree(h, T) => Tree(g, T)) /\ (ParentsOK(h, T) => ParentsOK(g, T))
        /\ \A R : Reach(h, T, R) => Reach(g, T, R)
<1>1. \A w : IsItem(g, w) <=> IsItem(h, w)
  BY DEF IsItem
<1>2. Loose(g, T) = Loose(h, T)
  BY <1>1 DEF Loose
<1>3. Tree(h, T) => Tree(g, T)
  BY DEF Tree
<1>4. ParentsOK(h, T) => ParentsOK(g, T)
  BY DEF ParentsOK
<1>5. \A R : Reach(h, T, R) => Reach(g, T, R)
  BY <1>2 DEF Reach
<1>. QED BY <1>2, <1>3, <1>4, <1>5

\* What Lost defines by recursion.
IsLost(L) ==
  L = [v \in 1 .. heap.top |->
         /\ v # heap.root
         /\ \/ L[Node(v).parent]
            \/ \A i \in DOMAIN Node(Node(v).parent).items : Node(Node(v).parent).items[i] # v]

LEMMA LostDef == Lost = {v \in 1 .. heap.top : (CHOOSE L : IsLost(L))[v]}
BY DEF Lost, IsLost

LEMMA LostIs ==
  ASSUME heap.top \in Nat, heap.root = 1, ParentsOK(heap, heap.top), NEW R, Reach(heap, heap.top, R)
  PROVE Lost = (1 .. heap.top) \ R
<1>. DEFINE T == heap.top
            Linked0(v) == \A i \in DOMAIN Node(Node(v).parent).items : Node(Node(v).parent).items[i] # v
<1>1. \A v \in 2 .. T : Linked0(v) <=> v \in Loose(heap, T)
  BY DEF Loose, IsItem, Node
<1>2. \A v \in 2 .. T : Node(v).parent \in 1 .. T /\ Node(v).parent < v
  BY DEF ParentsOK, Node
<1>3. \A v \in 2 .. T : v \notin R <=> Node(v).parent \notin R \/ Linked0(v)
  BY <1>1 DEF Reach, Node
<1>4. \A v \in 1 .. T : v = 1 \/ v \in 2 .. T
  OBVIOUS
<1>5. 1 \in R /\ R \subseteq 1 .. T
  BY DEF Reach
<1>. HIDE DEF Linked0
<1>6. \E L : IsLost(L)
  <2>. DEFINE L == [v \in 1 .. T |-> v \notin R]
  <2>1. ASSUME NEW v \in 1 .. T
        PROVE (v \notin R) = (v # heap.root /\ (L[Node(v).parent] \/ Linked0(v)))
    <3>1. CASE v = 1
      BY <1>5, <3>1
    <3>2. CASE v # 1
      <4>1. L[Node(v).parent] = (Node(v).parent \notin R)
        BY <1>2, <1>4, <3>2
      <4>. QED BY <1>3, <1>4, <3>2, <4>1
    <3>. QED BY <3>1, <3>2
  <2>2. L = [v \in 1 .. T |-> v # heap.root /\ (L[Node(v).parent] \/ Linked0(v))]
    BY <2>1
  <2>3. IsLost(L)
    BY <2>2 DEF IsLost, Linked0
  <2>. QED BY <2>3
<1>7. ASSUME NEW L, IsLost(L) PROVE \A v \in 1 .. T : L[v] <=> v \notin R
  <2>. DEFINE Bad == {v \in 1 .. T : ~(L[v] <=> v \notin R)}
  <2>0. L = [v \in 1 .. T |-> v # heap.root /\ (L[Node(v).parent] \/ Linked0(v))]
    BY <1>7 DEF IsLost, Linked0
  <2>. SUFFICES ASSUME Bad # {} PROVE FALSE
    OBVIOUS
  <2>1. PICK v \in Bad : \A u \in Bad : v <= u
    <3>1. Bad \in SUBSET Nat
      OBVIOUS
    <3>. HIDE DEF Bad
    <3>. QED BY <3>1, Least
  <2>2. v \in 1 .. T /\ L[v] = (v # heap.root /\ (L[Node(v).parent] \/ Linked0(v)))
    BY <2>0
  <2>3. CASE v = 1
    BY <1>5, <2>2, <2>3
  <2>4. CASE v # 1
    <3>1. v \in 2 .. T /\ Node(v).parent \notin Bad /\ Node(v).parent \in 1 .. T
      <4>1. v \in 2 .. T
        BY <1>4, <2>2, <2>4
      <4>2. Node(v).parent \in 1 .. T /\ Node(v).parent < v
        BY <1>2, <4>1
      <4>. HIDE DEF Bad
      <4>. QED BY <2>1, <4>1, <4>2
    <3>2. L[Node(v).parent] <=> Node(v).parent \notin R
      BY <3>1
    <3>3. L[v] <=> v \notin R
      BY <1>3, <2>2, <2>4, <3>1, <3>2
    <3>. QED BY <3>3
  <2>. QED BY <2>3, <2>4
<1>8. IsLost(CHOOSE L : IsLost(L))
  BY <1>6
<1>. QED BY <1>7, <1>8, LostDef

-----------------------------------------------------------------------------
(* json_value_free_ex. *)

\* Of the tree with T values it comes to those in R, has freed those in G, and is in those
\* in P, from the root to cur.
Freeing(T, R, G, P) ==
  /\ T \in 1 .. Len(heap.node) /\ heap.root = 1 /\ Tree(heap, T) /\ ParentsOK(heap, T)
  /\ Reach(heap, T, R) /\ G \subseteq R /\ P \subseteq R \ G
  /\ heap.live = ({"value"} \X ((1 .. T) \ G)) \cup ({"data"} \X {v \in (1 .. T) \ G : Node(v).data})
  /\ IF cause = "none" THEN R = 1 .. Len(heap.node) ELSE cause = "memory" /\ T = heap.top

Path(P) ==
  /\ IF cur = 0 THEN P = {} ELSE cur \in P /\ 1 \in P /\ \A v \in P : Node(v).parent # cur
  /\ \A v \in P \ {1} :
       LET n == Node(Node(v).parent)
       IN  Node(v).parent \in P /\ n.length \in DOMAIN n.items /\ v = n.items[n.length]

Left(T, R, G, P) ==
  /\ cur = 0 => 1 \in G
  /\ \A v \in R \ ({1} \cup G) : Node(v).parent \notin G
  /\ \A v \in R \ G :
       LET n == Node(v)
       IN  /\ HoldsValues(n) => \/ n.data /\ 0 .. (n.length - 1) \subseteq DOMAIN n.items
                                \/ ~n.data /\ v = 1 /\ T = 1 /\ cause = "memory"
           /\ \A i \in DOMAIN n.items :
                IF i < n.length THEN HoldsValues(n) /\ n.items[i] \notin G ELSE n.items[i] \in G \cup P
           /\ DOMAIN n.items \subseteq Nat

FreeAt(T, R, G, P) == Freeing(T, R, G, P) /\ Path(P) /\ Left(T, R, G, P)

\* m is n with one value less.
IsShorter(m, n) == m = [n EXCEPT !.length = @ - 1]

LEMMA ShorterIs ==
  ASSUME NEW n, NEW v, NodeOK(n, v), n.length # 0, NEW m, IsShorter(m, n)
  PROVE /\ NodeOK(m, v) /\ m.length = n.length - 1 /\ m.type = n.type /\ m.parent = n.parent
        /\ m.next = n.next /\ m.data = n.data /\ m.items = n.items
BY DEF IsShorter, NodeOK, Fields

LEMMA DescendIs ==
  ASSUME HeapOK(heap), NEW T, NEW R, NEW G, NEW P, FreeAt(T, R, G, P), Descend
  PROVE \/ \E Q : FreeAt(T, R, G, Q)' /\ HeapOK(heap') /\ status' = "free" /\ cur' \in 1 .. Len(heap'.node)
        \/ status' = "crashed" /\ UNCHANGED <<heap, cur>> /\ heap.top = heap.root /\ cause = "memory"
<1>. DEFINE n == Node(cur)  l == Node(cur).length  w == Node(cur).items[Node(cur).length - 1]
<1>0. /\ T \in 1 .. Len(heap.node) /\ R \subseteq 1 .. T /\ P \subseteq R \ G /\ 1 \in R
      /\ Tree(heap, T) /\ ParentsOK(heap, T) /\ Len(heap.node) \in Nat /\ T \in Nat
  BY SeqIs DEF FreeAt, Freeing, Reach, HeapOK
<1>1. cur # 0 /\ cur \in P /\ cur \in R \ G /\ cur \in 1 .. T /\ HoldsValues(n) /\ status = "free"
      /\ UNCHANGED <<cause, pass>>
  BY <1>0 DEF Descend, FreeAt, Path
<1>2. NodeOK(n, cur) /\ l \in Nat /\ l # 0 /\ cur \in 1 .. Len(heap.node)
  BY <1>0, <1>1 DEF HeapOK, NodeOK, Node, HoldsValues
<1>3. CASE ~n.data
  <2>1. T = 1 /\ cur = 1 /\ cause = "memory"
    BY <1>1, <1>3 DEF FreeAt, Left
  <2>. QED BY <1>3, <1>1, <2>1 DEF Descend, FreeAt, Freeing
<1>4. CASE n.data
  <2>1. /\ heap' = [heap EXCEPT !.node[cur].length = @ - 1] /\ cur' = w /\ status' = status
        /\ cause' = cause
    BY <1>1, <1>4 DEF Descend
  <2>2. PICK m : IsShorter(m, n)
    BY DEF IsShorter
  <2>3. NodeOK(m, cur) /\ m.length = l - 1 /\ m.type = n.type /\ m.parent = n.parent
        /\ m.data = n.data /\ m.items = n.items
    BY <1>2, <2>2, ShorterIs
  <2>4. heap' = [heap EXCEPT !.node[cur] = m]
    BY <2>1, <2>2, <1>2 DEF HeapOK, IsShorter, Node
  <2>5. HeapOK(heap') /\ Updated(heap, heap', cur, m, heap.top)
    <3>1. heap.top \in 0 .. Len(heap.node)
      BY DEF HeapOK
    <3>. QED BY <1>2, <2>3, <2>4, <3>1, SetNode
  <2>6. /\ Len(heap'.node) = Len(heap.node) /\ heap'.live = heap.live /\ heap'.root = heap.root
        /\ heap'.top = heap.top /\ heap'.node[cur] = m
        /\ \A u \in 1 .. T : u # cur => heap'.node[u] = heap.node[u]
    BY <1>0, <2>5 DEF Updated
  <2>7. l - 1 \in DOMAIN n.items /\ l - 1 < l /\ w \notin G
    BY <1>1, <1>2, <1>4 DEF FreeAt, Left
  <2>8. w \in 2 .. T /\ Node(w).parent = cur
    BY <1>1, <2>7, <1>0 DEF Tree, Node
  <2>9. w \in R
    <3>1. w \notin Loose(heap, T)
      BY <2>7, <2>8 DEF Loose, IsItem, Node
    <3>. QED BY <1>1, <2>8, <3>1 DEF FreeAt, Freeing, Reach, Node
  <2>10. w \notin P
    <3>. SUFFICES ASSUME w \in P PROVE FALSE
      OBVIOUS
    <3>1. l \in DOMAIN n.items /\ w = n.items[l]
      BY <2>8 DEF FreeAt, Path
    <3>2. l = l - 1
      BY <1>0, <1>1, <2>7, <3>1 DEF Tree, Node
    <3>. QED BY <1>2, <3>2
  <2>q. PICK Q : Q = P \cup {w}
    OBVIOUS
  <2>11. Alike(heap, heap', T)
    BY <1>1, <2>3, <2>6 DEF Alike, Node
  <2>12. Tree(heap', T) /\ Loose(heap', T) = Loose(heap, T)
    BY <1>0, <2>11, LooseAlike
  <2>13. ParentsOK(heap', T)
    BY <1>0, <2>11 DEF ParentsOK, Alike
  <2>14. Reach(heap', T, R)
    BY <2>11, <2>12 DEF FreeAt, Freeing, Reach, Alike
  <2>15. {v \in (1 .. T) \ G : heap'.node[v].data} = {v \in (1 .. T) \ G : Node(v).data}
    BY <2>3, <2>6 DEF Node
  <2>16. Freeing(T, R, G, Q)'
    BY <2>1, <2>6, <2>7, <2>9, <2>10, <2>12, <2>13, <2>14, <2>15, <2>q DEF FreeAt, Freeing, Node
  <2>. HIDE DEF w
  <2>17. \A v \in P : heap.node[v].parent # w
    <3>. SUFFICES ASSUME NEW v \in P, Node(v).parent = w PROVE FALSE
      BY DEF Node
    <3>1. v # 1
      BY <1>0, <2>8, <1>1 DEF ParentsOK, Node
    <3>2. w \in P
      BY <3>1 DEF FreeAt, Path
    <3>. QED BY <2>10, <3>2
  <2>18. \A v \in 1 .. T : heap'.node[v].parent = heap.node[v].parent
    BY <2>11 DEF Alike
  <2>19. Path(Q)'
    <3>1. \A v \in Q : v \in 1 .. T
      BY <1>0, <2>8, <2>q
    <3>2. cur' = w /\ w # 0 /\ 1 \in Q /\ w \in Q
      BY <1>1, <2>1, <2>8, <2>q DEF FreeAt, Path
    <3>3. Node(w).parent # w
      BY <1>0, <2>8 DEF ParentsOK, Node
    <3>4. \A v \in Q : heap'.node[v].parent # w
      BY <2>17, <2>18, <2>q, <3>1, <3>3 DEF Node
    <3>5. ASSUME NEW v \in Q \ {1}
          PROVE LET p == heap'.node[heap'.node[v].parent]
                IN  heap'.node[v].parent \in Q /\ p.length \in DOMAIN p.items /\ v = p.items[p.length]
      <4>1. CASE v = w
        <5>1. heap'.node[v].parent = cur
          BY <2>8, <2>18, <3>1, <4>1 DEF Node
        <5>. QED BY <1>1, <2>3, <2>6, <2>7, <2>q, <4>1, <5>1 DEF w
      <4>2. CASE v # w
        <5>1. v \in P \ {1} /\ Node(v).parent # cur /\ Node(v).parent \in P
              /\ heap'.node[v].parent = Node(v).parent
          BY <1>1, <2>18, <2>q, <3>1, <4>2 DEF FreeAt, Path, Node
        <5>2. heap'.node[Node(v).parent] = Node(Node(v).parent)
          BY <1>0, <2>6, <5>1 DEF Node
        <5>3. LET p == Node(Node(v).parent)
              IN  p.length \in DOMAIN p.items /\ v = p.items[p.length]
          BY <5>1 DEF FreeAt, Path
        <5>. QED BY <2>q, <5>1, <5>2, <5>3
      <4>. QED BY <4>1, <4>2
    <3>. QED BY <3>2, <3>4, <3>5 DEF Path, Node
  <2>20. Left(T, R, G, Q)'
    <3>1. cur' # 0
      BY <2>1, <2>8
    <3>2. \A v \in R \ ({1} \cup G) : heap'.node[v].parent \notin G
      BY <1>0, <2>18 DEF FreeAt, Left, Node
    <3>3. ASSUME NEW v \in R \ G
          PROVE LET p == heap'.node[v]
                IN  /\ HoldsValues(p) => \/ p.data /\ 0 .. (p.length - 1) \subseteq DOMAIN p.items
                                         \/ ~p.data /\ v = 1 /\ T = 1 /\ cause' = "memory"
                    /\ \A i \in DOMAIN p.items :
                         IF i < p.length THEN HoldsValues(p) /\ p.items[i] \notin G
                         ELSE p.items[i] \in G \cup Q
                    /\ DOMAIN p.items \subseteq Nat
      <4>1. LET p == Node(v)
            IN  /\ HoldsValues(p) => \/ p.data /\ 0 .. (p.length - 1) \subseteq DOMAIN p.items
                                     \/ ~p.data /\ v = 1 /\ T = 1 /\ cause = "memory"
                /\ \A i \in DOMAIN p.items :
                     IF i < p.length THEN HoldsValues(p) /\ p.items[i] \notin G
                     ELSE p.items[i] \in G \cup P
                /\ DOMAIN p.items \subseteq Nat
        BY DEF FreeAt, Left
      <4>2. CASE v # cur
        <5>1. heap'.node[v] = Node(v)
          BY <1>0, <2>6, <4>2 DEF Node
        <5>2. \A x : x \in G \cup P => x \in G \cup Q
          BY <2>q
        <5>3. cause' = cause
          BY <2>1
        <5>. QED BY <4>1, <5>1, <5>2, <5>3
      <4>3. CASE v = cur
        <5>1. heap'.node[v] = m
          BY <2>6, <4>3
        <5>2. /\ n.data /\ 0 .. (l - 1) \subseteq DOMAIN n.items /\ DOMAIN n.items \subseteq Nat
              /\ \A i \in DOMAIN n.items :
                   IF i < l THEN n.items[i] \notin G ELSE n.items[i] \in G \cup P
          BY <1>1, <1>4, <4>1, <4>3
        <5>3. m.data /\ 0 .. (m.length - 1) \subseteq DOMAIN m.items
          BY <1>2, <2>3, <5>2
        <5>4. ASSUME NEW i \in DOMAIN m.items
              PROVE IF i < m.length THEN HoldsValues(m) /\ m.items[i] \notin G
                    ELSE m.items[i] \in G \cup Q
          <6>1. i \in Nat /\ m.items[i] = n.items[i] /\ i \in DOMAIN n.items
            BY <2>3, <5>2
          <6>2. CASE i < l - 1
            <7>1. HoldsValues(m)
              BY <1>1, <2>3, <6>1, <6>2 DEF HoldsValues
            <7>. QED BY <1>2, <2>3, <5>2, <6>1, <6>2, <7>1
          <6>3. CASE ~(i < l - 1)
            <7>1. i = l - 1 \/ ~(i < l)
              BY <1>2, <6>1, <6>3
            <7>2. m.items[i] \in G \cup Q
              BY <2>q, <5>2, <6>1, <7>1 DEF w
            <7>. QED BY <2>3, <6>3, <7>2
          <6>. QED BY <6>2, <6>3
        <5>. QED BY <2>3, <5>1, <5>2, <5>3, <5>4
      <4>. QED BY <4>2, <4>3
    <3>. QED BY <3>1, <3>2, <3>3 DEF Left, Node
  <2>21. cur' \in 1 .. Len(heap'.node)
    BY <1>0, <2>1, <2>6, <2>8
  <2>. QED BY <1>1, <2>1, <2>5, <2>16, <2>19, <2>20, <2>21 DEF FreeAt
<1>. QED BY <1>3, <1>4

LEMMA AscendIs ==
  ASSUME HeapOK(heap), NEW T, NEW R, NEW G, NEW P, FreeAt(T, R, G, P), Ascend
  PROVE /\ \E K, Q : FreeAt(T, R, K, Q)'
        /\ HeapOK(heap') /\ cur' \in 0 .. Len(heap'.node) /\ UNCHANGED <<outcome, pass>>
<1>. DEFINE n == Node(cur)
<1>0. /\ T \in 1 .. Len(heap.node) /\ R \subseteq 1 .. T /\ P \subseteq R \ G /\ 1 \in R
      /\ Tree(heap, T) /\ ParentsOK(heap, T) /\ Len(heap.node) \in Nat /\ T \in Nat
  BY SeqIs DEF FreeAt, Freeing, Reach, HeapOK
<1>1. /\ cur # 0 /\ cur \in P /\ 1 \in P /\ cur \in R \ G /\ cur \in 1 .. T /\ ~HoldsValues(n)
      /\ UNCHANGED <<outcome, pass>> /\ cur' = n.parent
      /\ \A v \in P : Node(v).parent # cur
  BY <1>0 DEF Ascend, FreeAt, Path
<1>2. /\ heap'.live = heap.live \ {<<"value", cur>>, <<"data", cur>>}
      /\ heap'.node = heap.node /\ heap'.top = heap.top /\ heap'.root = heap.root
      /\ heap'.alloc = heap.alloc /\ DOMAIN heap' = DOMAIN heap
  BY DEF Ascend, HeapOK
<1>3. HeapOK(heap')
  BY <1>2 DEF HeapOK
<1>4. n.parent \in 0 .. (cur - 1) /\ (n.parent = 0 <=> cur = 1)
  BY <1>0, <1>1 DEF ParentsOK, Node
<1>5. PICK K, Q : K = G \cup {cur} /\ Q = P \ {cur}
  OBVIOUS
<1>6. Freeing(T, R, K, Q)'
  <2>1. Tree(heap', T) /\ ParentsOK(heap', T) /\ Reach(heap', T, R)
    <3>1. Tree(heap, T) /\ ParentsOK(heap, T) /\ Reach(heap, T, R)
      BY DEF FreeAt, Freeing
    <3>. QED BY <1>2, <3>1, SameNodes
  <2>2. K \subseteq R /\ Q \subseteq R \ K
    BY <1>0, <1>1, <1>5 DEF FreeAt, Freeing
  <2>3. heap'.live = ({"value"} \X ((1 .. T) \ K)) \cup ({"data"} \X {v \in (1 .. T) \ K : heap'.node[v].data})
    <3>1. heap.live = ({"value"} \X ((1 .. T) \ G)) \cup ({"data"} \X {v \in (1 .. T) \ G : heap.node[v].data})
      BY DEF FreeAt, Freeing, Node
    <3>2. heap'.live = (({"value"} \X ((1 .. T) \ G)) \cup ({"data"} \X {v \in (1 .. T) \ G : heap.node[v].data}))
                          \ {<<"value", cur>>, <<"data", cur>>}
      BY <1>2, <3>1
    <3>. QED BY <1>2, <1>5, <3>2
  <2>. QED BY <1>1, <1>2, <2>1, <2>2, <2>3 DEF FreeAt, Freeing, Node, outcome
<1>7. Path(Q)'
  <2>1. ASSUME cur = 1 PROVE Q = {}
    <3>. SUFFICES ASSUME Q # {} PROVE FALSE
      OBVIOUS
    <3>1. PICK v \in Q : \A u \in Q : v <= u
      <4>1. \A v \in Q : v \in Nat
        BY <1>0, <1>5
      <4>2. Q \in SUBSET Nat /\ Q # {}
        BY <4>1
      <4>. QED BY <4>2, Least
    <3>2. v \in P \ {1} /\ v \in 1 .. T
      BY <1>0, <1>5, <2>1, <3>1
    <3>3. Node(v).parent \in P /\ Node(v).parent \in 0 .. (v - 1)
      BY <1>0, <3>2 DEF FreeAt, Path, ParentsOK, Node
    <3>4. Node(v).parent # 1
      BY <1>1, <2>1, <3>2
    <3>5. Node(v).parent \in Q
      BY <1>5, <2>1, <3>3, <3>4
    <3>. QED BY <3>1, <3>2, <3>3, <3>5
  <2>2. cur' = 0 => Q = {}
    BY <1>1, <1>4, <2>1
  <2>3. ASSUME cur' # 0
        PROVE cur' \in Q /\ 1 \in Q /\ \A v \in Q : Node(v).parent # cur'
    <3>1. cur # 1 /\ cur \in P \ {1}
      BY <1>1, <1>4, <2>3
    <3>2. n.parent \in P /\ cur = Node(n.parent).items[Node(n.parent).length]
      BY <3>1 DEF FreeAt, Path
    <3>3. n.parent # cur
      BY <1>1, <1>4
    <3>4. ASSUME NEW v \in Q, Node(v).parent = cur' PROVE FALSE
      <4>1. Node(1).parent = 0
        BY <1>0 DEF ParentsOK, Node
      <4>2. v \in P \ {1} /\ v # cur
        BY <1>5, <2>3, <3>4, <4>1
      <4>3. v = Node(n.parent).items[Node(n.parent).length]
        BY <1>1, <3>4, <4>2 DEF FreeAt, Path
      <4>. QED BY <3>2, <4>2, <4>3
    <3>. QED BY <1>1, <1>5, <3>1, <3>2, <3>3, <3>4
  <2>4. ASSUME NEW v \in Q \ {1}
        PROVE LET p == Node(Node(v).parent)
              IN  Node(v).parent \in Q /\ p.length \in DOMAIN p.items /\ v = p.items[p.length]
    <3>1. v \in P \ {1} /\ Node(v).parent # cur
      BY <1>1, <1>5
    <3>. QED BY <1>5, <3>1 DEF FreeAt, Path
  <2>. QED BY <1>2, <2>2, <2>3, <2>4 DEF Path, Node
<1>8. Left(T, R, K, Q)'
  <2>1. cur' = 0 => 1 \in K
    BY <1>1, <1>4, <1>5
  <2>2. ASSUME NEW v \in R \ ({1} \cup K) PROVE Node(v).parent \notin K
    <3>. SUFFICES ASSUME Node(v).parent = cur PROVE FALSE
      BY <1>5 DEF FreeAt, Left
    <3>1. v \in 2 .. T /\ v \notin Loose(heap, T)
      <4>1. v \in 2 .. T
        BY <1>0
      <4>. QED BY <4>1 DEF FreeAt, Freeing, Reach
    <3>2. PICK i \in DOMAIN n.items : n.items[i] = v
      BY <3>1 DEF Loose, IsItem, Node
    <3>3. v \in G \cup P
      BY <1>1, <3>2 DEF FreeAt, Left
    <3>. QED BY <1>1, <1>5, <3>3
  <2>3. ASSUME NEW v \in R \ K
        PROVE LET p == Node(v)
              IN  /\ HoldsValues(p) => \/ p.data /\ 0 .. (p.length - 1) \subseteq DOMAIN p.items
                                       \/ ~p.data /\ v = 1 /\ T = 1 /\ cause = "memory"
                  /\ \A i \in DOMAIN p.items :
                       IF i < p.length THEN HoldsValues(p) /\ p.items[i] \notin K
                       ELSE p.items[i] \in K \cup Q
                  /\ DOMAIN p.items \subseteq Nat
    <3>. DEFINE p == Node(v)
    <3>1. v \in R \ G /\ v # cur /\ v \in 1 .. T
      BY <1>0, <1>5
    <3>2. /\ HoldsValues(p) => \/ p.data /\ 0 .. (p.length - 1) \subseteq DOMAIN p.items
                               \/ ~p.data /\ v = 1 /\ T = 1 /\ cause = "memory"
          /\ \A i \in DOMAIN p.items :
               IF i < p.length THEN HoldsValues(p) /\ p.items[i] \notin G
               ELSE p.items[i] \in G \cup P
          /\ DOMAIN p.items \subseteq Nat
      BY <3>1 DEF FreeAt, Left
    <3>3. ASSUME NEW i \in DOMAIN p.items, i < p.length, p.items[i] = cur PROVE FALSE
      <4>1. n.parent = v /\ cur \in 2 .. T
        BY <1>0, <3>1, <3>3 DEF Tree, Node
      <4>2. cur \in P \ {1}
        BY <1>1, <4>1
      <4>3. p.length \in DOMAIN p.items /\ cur = p.items[p.length]
        BY <4>1, <4>2 DEF FreeAt, Path
      <4>4. i = p.length
        BY <1>0, <3>1, <3>3, <4>3 DEF Tree, Node
      <4>5. i \in Nat
        BY <3>2
      <4>. QED BY <3>3, <4>4, <4>5
    <3>4. \A x : (x \in G \cup P => x \in K \cup Q) /\ (x \notin G /\ x # cur => x \notin K)
      BY <1>5
    <3>. HIDE DEF p
    <3>5. \A i \in DOMAIN p.items :
             IF i < p.length THEN HoldsValues(p) /\ p.items[i] \notin K
             ELSE p.items[i] \in K \cup Q
      BY <3>2, <3>3, <3>4
    <3>. QED BY <3>2, <3>5 DEF p
  <2>4. cause' = cause
    BY <1>1 DEF outcome
  <2>. QED BY <1>2, <2>1, <2>2, <2>3, <2>4 DEF Left, Node
<1>9. cur' \in 0 .. Len(heap'.node)
  BY <1>0, <1>1, <1>2, <1>4
<1>. QED BY <1>1, <1>3, <1>6, <1>7, <1>8, <1>9 DEF FreeAt

\* All that it comes to has been freed when it ends.
LEMMA FreeEndsIs ==
  ASSUME HeapOK(heap), NEW T, NEW R, NEW G, NEW P, FreeAt(T, R, G, P), cur = 0
  PROVE IF cause = "none" THEN heap.live = {} ELSE heap.live = Blocks(Lost)
<1>0. /\ T \in 1 .. Len(heap.node) /\ R \subseteq 1 .. T /\ G \subseteq R /\ 1 \in R /\ 1 \in G
      /\ ParentsOK(heap, T) /\ Len(heap.node) \in Nat /\ T \in Nat /\ Reach(heap, T, R)
      /\ heap.root = 1
  BY SeqIs DEF FreeAt, Freeing, Reach, HeapOK, Left
<1>1. G = R
  <2>. DEFINE Bad == R \ G
  <2>. SUFFICES ASSUME Bad # {} PROVE FALSE
    BY <1>0
  <2>1. PICK v \in Bad : \A u \in Bad : v <= u
    <3>1. Bad \in SUBSET Nat
      BY <1>0
    <3>. HIDE DEF Bad
    <3>. QED BY <3>1, Least
  <2>2. v \in 2 .. T
    BY <1>0
  <2>3. Node(v).parent \in R /\ Node(v).parent \in 0 .. (v - 1)
    BY <1>0, <2>2 DEF Reach, ParentsOK, Node
  <2>4. Node(v).parent \notin G
    BY <2>2 DEF FreeAt, Left
  <2>5. Node(v).parent \in Bad
    BY <2>3, <2>4
  <2>. HIDE DEF Bad
  <2>. QED BY <2>1, <2>2, <2>3, <2>5
<1>2. heap.live = ({"value"} \X ((1 .. T) \ R)) \cup ({"data"} \X {v \in (1 .. T) \ R : Node(v).data})
  BY <1>1 DEF FreeAt, Freeing
<1>3. CASE cause = "none"
  <2>1. (1 .. T) \ R = {}
    BY <1>0, <1>3 DEF FreeAt, Freeing
  <2>. QED BY <1>2, <1>3, <2>1
<1>4. CASE cause # "none"
  <2>1. T = heap.top
    BY <1>4 DEF FreeAt, Freeing
  <2>2. Lost = (1 .. T) \ R
    BY <1>0, <2>1, LostIs
  <2>. QED BY <1>2, <1>4, <2>2 DEF Blocks
<1>. QED BY <1>3, <1>4

-----------------------------------------------------------------------------
(* What is left to free. *)

\* A tree with T values; the last may have got no array.
Whole(h, T) ==
  /\ T \in 1 .. Len(h.node) /\ h.root = 1 /\ Tree(h, T) /\ ParentsOK(h, T)
  /\ \A v \in 1 .. T :
       LET n == h.node[v]
       IN  /\ HoldsValues(n) /\ n.data => DOMAIN n.items = 0 .. (n.length - 1)
           /\ ~(HoldsValues(n) /\ n.data) => DOMAIN n.items = {}
           /\ HoldsValues(n) /\ ~n.data => v = T

\* After an error in the first pass, and in the second.
FirstFreed(h) ==
  /\ \A v \in 1 .. Len(h.node) : ChainedIn(h, v)
  /\ h.live = {"value"} \X {v \in 1 .. Len(h.node) : h.alloc # 0 /\ v >= h.alloc}

SecondFreed(h) ==
  LET T == h.top
  IN  /\ Whole(h, T) /\ T \in Loose(h, T) \cup {1}
      /\ h.alloc = 0 \/ h.alloc > T
      /\ \A v \in (T + 1) .. Len(h.node) : ChainedIn(h, v)
      /\ h.live = ({"value"} \X {v \in 1 .. Len(h.node) : v <= T \/ (h.alloc # 0 /\ v >= h.alloc)})
                    \cup ({"data"} \X {v \in 1 .. T : h.node[v].data})

\* The tree that the caller gets.
DoneOK(h) ==
  /\ Whole(h, Len(h.node)) /\ Loose(h, Len(h.node)) = {} /\ h.alloc = 0
  /\ \A v \in 1 .. Len(h.node) : HoldsValues(h.node[v]) => h.node[v].data
  /\ h.live = ({"value"} \X (1 .. Len(h.node))) \cup ({"data"} \X {v \in 1 .. Len(h.node) : h.node[v].data})

Agrees(n) == /\ DOMAIN n.items = 0 .. (n.cap - 1) /\ n.cap \in Nat
             /\ HoldsValues(n) => n.length = n.cap
             /\ n.type = "object" => n.used = n.room
             /\ n.type = "string" => n.length + 1 = n.room

\* The record n of v, which the pass has come to at c.
Recorded(n, c, F, v) ==
  /\ n.length = c.len[v] /\ n.used = c.keys[v] /\ Kind(n.type) = F.kind[v] /\ F.kind[v] = c.kind[v]
  /\ Filled(n, c, F, v)
  /\ c.len[v] \in Nat /\ F.len[v] \in Nat /\ c.len[v] <= F.len[v]
  /\ c.keys[v] \in Nat /\ F.keys[v] \in Nat /\ c.keys[v] <= F.keys[v]
  /\ (c.len[v] # 0 => F.kind[v] \in Containers \cup {"string"})
  /\ (F.keys[v] # 0 => F.kind[v] = "object")
  /\ (HoldsValues(n) <=> F.kind[v] \in Containers /\ c.len[v] # 0)

LEMMA RecordIs ==
  ASSUME pass = 0, NEW h, HeapOK(h), NEW c, PointOK(c), NEW F \in Points, ValuesOK(F), Grows(c, F),
         HeapShows(h, c), SecondHeap(h, c, F), NEW v \in 1 .. c.size
  PROVE Recorded(h.node[v], c, F, v)
<1>0. c \in Points /\ ValuesOK(c) /\ c.size \in Nat /\ F.size \in Nat /\ v \in Nat
      /\ c.size <= F.size
  <2>1. c \in Points /\ ValuesOK(c)
    BY DEF PointOK
  <2>2. c.size \in Nat /\ F.size \in Nat
    BY <2>1 DEF Points
  <2>3. c.size <= F.size
    BY DEF Grows
  <2>. QED BY <2>1, <2>2, <2>3
<1>1. ValueShown(c, v, h.node[v])
  BY DEF HeapShows
<1>2. F.kind[v] = c.kind[v] /\ F.parent[v] = c.parent[v] /\ c.len[v] <= F.len[v]
      /\ c.keys[v] <= F.keys[v]
  BY <1>0 DEF Grows
<1>3. c.len[v] \in Nat /\ F.len[v] \in Nat /\ c.keys[v] \in Nat /\ F.keys[v] \in Nat
  BY <1>0 DEF Points
<1>4. v \in 1 .. F.size
  BY <1>0
<1>5. (c.len[v] # 0 => F.kind[v] \in Containers \cup {"string"})
      /\ (F.keys[v] # 0 => F.kind[v] = "object")
  BY <1>0, <1>2, <1>4 DEF ValuesOK
<1>6. HoldsValues(h.node[v]) <=> F.kind[v] \in Containers /\ c.len[v] # 0
  BY <1>1, <1>2, KindIs DEF ValueShown, HoldsValues, Containers
<1>7. Filled(h.node[v], c, F, v)
  BY DEF SecondHeap
<1>. QED BY <1>1, <1>2, <1>3, <1>5, <1>6, <1>7 DEF ValueShown, Count, Recorded

\* What is filled, at any point.
LEMMA FilledIs ==
  ASSUME pass = 0, NEW h, HeapOK(h), NEW c, PointOK(c), NEW F \in Points, ValuesOK(F), Grows(c, F),
         HeapShows(h, c), SecondHeap(h, c, F), NEW v \in 1 .. c.size, NEW n, n = h.node[v]
  PROVE /\ HoldsValues(n) => n.data /\ DOMAIN n.items = 0 .. (n.length - 1)
        /\ ~HoldsValues(n) => DOMAIN n.items = {}
        /\ n.data => /\ DOMAIN n.items \cup DOMAIN n.names \subseteq 0 .. (n.cap - 1)
                     /\ n.used <= n.room
<1>. USE DEF Recorded
<1>1. Recorded(n, c, F, v)
  BY RecordIs
<1>d. n.data = Needs(F, v)
  BY <1>1 DEF Filled
<1>2. HoldsValues(n) => n.data /\ DOMAIN n.items = 0 .. (n.length - 1)
  <2>1. HoldsValues(n) => F.len[v] # 0 /\ F.kind[v] \in Containers
    BY <1>1
  <2>2. HoldsValues(n) => n.data
    BY <1>d, <2>1, Zenon DEF Needs
  <2>3. HoldsValues(n) => DOMAIN n.items = 0 .. (n.length - 1)
    BY <1>1 DEF Filled
  <2>. QED BY <2>2, <2>3
<1>3. ~HoldsValues(n) => DOMAIN n.items = {}
  BY <1>1 DEF Filled
<1>4. DOMAIN n.items \subseteq 0 .. (n.cap - 1)
  BY <1>1 DEF Filled
<1>5. n.data => n.used <= n.room
  BY <1>1 DEF Filled, Needs, Containers
<1>6. DOMAIN n.names \subseteq 0 .. (n.cap - 1)
  BY <1>1 DEF Filled
<1>. QED BY <1>2, <1>3, <1>4, <1>5, <1>6

FitIn(h) ==
  \A v \in 1 .. Len(h.node) :
    h.node[v].data => /\ DOMAIN h.node[v].items \cup DOMAIN h.node[v].names \subseteq 0 .. (h.node[v].cap - 1)
                      /\ h.node[v].used <= h.node[v].room

\* What SecondAt says of its points.
LEMMA SecondPoint ==
  ASSUME NEW H, NEW m, NEW k, SecondAt(H, m, k), NEW c, c = H[k].point, NEW F, F = H[m].point
  PROVE /\ PointOK(c) /\ c \in Points /\ ValuesOK(c) /\ TopOK(c) /\ c.size \in Nat /\ c.str \in Nat
        /\ PointOK(F) /\ F \in Points /\ ValuesOK(F) /\ TopOK(F) /\ F.size \in Nat
        /\ Grows(c, F) /\ "done" \in F.flags
        /\ HeapOK(heap) /\ HeapShows(heap, c) /\ SecondHeap(heap, c, F) /\ Shown(c)
        /\ Len(heap.node) = F.size /\ c.size <= F.size /\ heap.top = c.top
<1>1. Trace(H, m) /\ k \in 1 .. m /\ m \in k .. m /\ m \in 1 .. m
  BY DEF SecondAt, WholeTrace, Trace
<1>2. PointOK(c) /\ PointOK(F)
  BY <1>1 DEF Trace
<1>3. Grows(c, F)
  BY <1>1, TraceGrows
<1>4. c \in Points /\ ValuesOK(c) /\ TopOK(c) /\ F \in Points /\ ValuesOK(F) /\ TopOK(F)
  BY <1>2 DEF PointOK
<1>5. c.size \in Nat /\ c.str \in Nat /\ F.size \in Nat
  BY <1>4 DEF Points
<1>. QED BY <1>2, <1>3, <1>4, <1>5 DEF SecondAt, WholeTrace, AtPoint, SecondHeap, HeapShows

LEMMA SecondFits ==
  ASSUME pass = 0, NEW H, NEW m, NEW k, SecondAt(H, m, k)
  PROVE FitIn(heap)
<1>. DEFINE c == H[k].point  F == H[m].point
<1>0. /\ PointOK(c) /\ F \in Points /\ ValuesOK(F) /\ Grows(c, F) /\ c.size \in Nat /\ F.size \in Nat
      /\ HeapOK(heap) /\ HeapShows(heap, c) /\ SecondHeap(heap, c, F) /\ Len(heap.node) = F.size
  BY SecondPoint
<1>. HIDE DEF c, F
<1>1. ASSUME NEW v \in 1 .. F.size, v \notin 1 .. c.size PROVE ~heap.node[v].data
  <2>1. v \in (c.size + 1) .. F.size
    BY <1>0, <1>1
  <2>. QED BY <1>0, <2>1 DEF SecondHeap, Waits, Empty
<1>. QED BY <1>0, <1>1, FilledIs DEF FitIn

\* A key or text that is being read has room.
LEMMA TextFits ==
  ASSUME pass = 0, NEW H, NEW m, NEW k, SecondAt(H, m, k), InString
  PROVE heap.top \in 1 .. Len(heap.node) /\ Top.data /\ Top.used + string.length < Top.room
<1>. DEFINE c == H[k].point  F == H[m].point  v == c.top  n == heap.node[v]
<1>0. /\ PointOK(c) /\ F \in Points /\ ValuesOK(F) /\ Grows(c, F) /\ TopOK(c) /\ c.str \in Nat
      /\ HeapOK(heap) /\ HeapShows(heap, c) /\ SecondHeap(heap, c, F) /\ Shown(c)
      /\ Len(heap.node) = F.size /\ c.size <= F.size /\ heap.top = c.top /\ c.size \in Nat
      /\ F.size \in Nat
  BY SecondPoint
<1>p. Trace(H, m) /\ "done" \in H[m].point.flags /\ k \in 1 .. m
  BY DEF SecondAt, WholeTrace
<1>t. "string" \in c.flags /\ c.kind[v] = "string" => c.str <= F.len[v]
  BY <1>p, TextPromised
<1>k. "string" \in c.flags /\ c.kind[v] = "object" =>
        c.len[v] < F.len[v] /\ c.keys[v] + c.str + 1 <= F.keys[v]
  BY <1>p, KeyPromised
<1>. HIDE DEF c, F
<1>1. "string" \in c.flags /\ string.length = c.str
  BY <1>0 DEF InString, Shown, Control
<1>2. v \in 1 .. c.size /\ (c.kind[v] = "object" \/ c.kind[v] = "string")
  BY <1>0, <1>1 DEF TopOK
<1>3. Recorded(n, c, F, v)
  BY <1>0, <1>2, RecordIs
<1>. USE DEF Recorded
<1>4. n.data /\ n.used + string.length < n.room
  <2>1. CASE c.kind[v] = "object"
    <3>1. Needs(F, v)
      BY <1>1, <1>3, <1>k, <2>1 DEF Needs, Containers
    <3>2. n.room = F.keys[v]
      BY <1>3, <2>1, <3>1 DEF Filled
    <3>3. n.data
      BY <1>3, <3>1, Zenon DEF Filled
    <3>. QED BY <1>0, <1>1, <1>3, <1>k, <2>1, <3>2, <3>3
  <2>2. CASE c.kind[v] = "string"
    <3>1. Needs(F, v)
      BY <1>3, <2>2 DEF Needs
    <3>2. n.room = F.len[v] + 1 /\ n.used = 0
      BY <1>3, <2>2, <3>1 DEF Filled
    <3>3. n.data
      BY <1>3, <3>1, Zenon DEF Filled
    <3>. QED BY <1>0, <1>1, <1>3, <1>t, <2>2, <3>2, <3>3
  <2>. QED BY <1>2, <2>1, <2>2
<1>. QED BY <1>0, <1>2, <1>4 DEF Top

\* The last step of the second pass.
LEMMA DoneIs ==
  ASSUME pass = 0, NEW H, NEW m, SecondAt(H, m, m)
  PROVE DoneOK(heap) /\ (\A v \in 1 .. Len(heap.node) : Agrees(heap.node[v])) /\ "string" \notin flags
<1>. DEFINE F == H[m].point  T == Len(heap.node)
<1>0. /\ PointOK(F) /\ F \in Points /\ ValuesOK(F) /\ Grows(F, F) /\ TopOK(F) /\ "done" \in F.flags
      /\ HeapOK(heap) /\ HeapShows(heap, F) /\ SecondHeap(heap, F, F) /\ Shown(F)
      /\ T = F.size /\ heap.top = F.top /\ F.size \in Nat
  BY SecondPoint
<1>. HIDE DEF F
<1>1. F.top = 1 /\ T \in Nat /\ 1 \in 1 .. T /\ T # 0 /\ "string" \notin F.flags
  BY <1>0 DEF TopOK
<1>2. heap.root = 1 /\ heap.alloc = 0 /\ heap.top = 1 /\ Tree(heap, T) /\ LooseOK(heap, T)
  BY <1>0, <1>1 DEF SecondHeap
<1>3. ParentsOK(heap, T)
  BY <1>0, ParentsShown
<1>4. Loose(heap, T) = {}
  <2>. DEFINE L == Loose(heap, T)
  <2>. SUFFICES ASSUME L # {} PROVE FALSE
    OBVIOUS
  <2>0. \A v \in L : v \in 2 .. T
    BY DEF Loose
  <2>1. PICK v \in L : \A u \in L : v <= u
    <3>1. L \in SUBSET Nat /\ L # {}
      BY <2>0
    <3>. HIDE DEF L
    <3>. QED BY <3>1, Least
  <2>2. heap.node[v].parent \in L
    BY <1>2 DEF LooseOK
  <2>3. heap.node[v].parent \in 0 .. (v - 1) /\ v \in 2 .. T
    BY <1>3, <2>0 DEF ParentsOK
  <2>. HIDE DEF L
  <2>. QED BY <2>1, <2>2, <2>3
<1>5. ASSUME NEW v \in 1 .. T
      PROVE LET n == heap.node[v]
            IN  /\ HoldsValues(n) => n.data /\ DOMAIN n.items = 0 .. (n.length - 1)
                /\ ~HoldsValues(n) => DOMAIN n.items = {}
                /\ n.data = Needs(F, v)
                /\ Agrees(n)
  <2>. DEFINE n == heap.node[v]
  <2>0. v \in 1 .. F.size
    BY <1>0
  <2>1. /\ HoldsValues(n) => n.data /\ DOMAIN n.items = 0 .. (n.length - 1)
        /\ ~HoldsValues(n) => DOMAIN n.items = {}
    BY <1>0, <2>0, FilledIs
  <2>. USE DEF Recorded
  <2>2. Recorded(n, F, F, v)
    BY <1>0, <2>0, RecordIs
  <2>3. DOMAIN n.items = 0 .. (n.cap - 1) /\ n.cap \in Nat /\ (HoldsValues(n) => n.length = n.cap)
    BY <2>2 DEF Filled
  <2>4. n.type = "object" => n.used = n.room
    <3>1. n.type = "object" => F.kind[v] = "object"
      BY <2>2, KindIs
    <3>. QED BY <2>2, <3>1 DEF Filled, Needs, Containers
  <2>5. n.type = "string" => n.length + 1 = n.room
    <3>1. n.type = "string" => F.kind[v] = "string"
      BY <2>2, KindIs
    <3>. QED BY <2>2, <3>1 DEF Filled, Needs, Containers
  <2>6. n.data = Needs(F, v)
    BY <2>2 DEF Filled
  <2>7. Agrees(n)
    BY <2>3, <2>4, <2>5 DEF Agrees
  <2>. HIDE DEF n
  <2>8. /\ HoldsValues(n) => n.data /\ DOMAIN n.items = 0 .. (n.length - 1)
        /\ ~HoldsValues(n) => DOMAIN n.items = {}
        /\ n.data = Needs(F, v) /\ Agrees(n)
    BY <2>1, <2>6, <2>7
  <2>. QED BY <2>8 DEF n
<1>6. Whole(heap, T)
  BY <1>1, <1>2, <1>3, <1>5 DEF Whole
<1>7. heap.live = ({"value"} \X (1 .. T)) \cup ({"data"} \X {v \in 1 .. T : heap.node[v].data})
  <2>1. {v \in 1 .. T : heap.node[v].data} = {v \in 1 .. T : Needs(F, v)}
    BY <1>5
  <2>2. heap.live = ({"value"} \X (1 .. T)) \cup ({"data"} \X {v \in 1 .. T : Needs(F, v)})
    BY <1>0 DEF SecondHeap
  <2>. QED BY <2>1, <2>2
<1>8. "string" \notin flags
  BY <1>0, <1>1 DEF Shown, Control
<1>9. DoneOK(heap)
  BY <1>2, <1>4, <1>5, <1>6, <1>7 DEF DoneOK
<1>. QED BY <1>5, <1>8, <1>9

\* Narrow leaves what an int holds as it is.
LEMMA NarrowSmall ==
  ASSUME letters \in Alphabets, NEW x \in Nat, x < IntLimit[letters]
  PROVE Narrow(x) = x
<1>1. PICK limit \in Nat \ {0} : limit = IntLimit[letters]
  BY SizeAssumption
<1>2. PICK a \in Nat : a = x + limit
  BY <1>1
<1>3. PICK w \in Nat \ {0} : w = 2 * limit
  BY <1>1
<1>4. a % w = a
  <2>1. a < w
    BY <1>1, <1>2, <1>3
  <2>. QED BY <2>1
<1>5. Narrow(x) = (a % w) - limit
  BY <1>1, <1>2, <1>3 DEF Narrow
<1>. QED BY <1>1, <1>2, <1>4, <1>5

LEMMA MisfitsIs ==
  ASSUME letters \in Alphabets, NEW H, NEW m, NEW k, SecondAt(H, m, k), Misfits(H[k].point, H[m].point)
  PROVE /\ status' = "overrun" /\ UNCHANGED <<cause, pass, pos, flags, heap, string, cur>>
        /\ EntrySize * Node(heap.alloc).length >= IntLimit[letters]
<1>. DEFINE c == H[k].point  F == H[m].point
<1>0. /\ HeapOK(heap) /\ SecondHeap(heap, c, F) /\ Len(heap.node) = F.size
      /\ c.size \in Nat /\ F.size \in Nat /\ c.size < F.size
  BY SecondPoint DEF Misfits
<1>1. heap.alloc \in 1 .. Len(heap.node)
  BY <1>0 DEF SecondHeap
<1>2. PICK l \in Nat : l = Node(heap.alloc).length
  BY <1>0, <1>1 DEF HeapOK, NodeOK, Node
<1>3. ~Sized(Node(heap.alloc)) /\ status' = "overrun"
      /\ UNCHANGED <<cause, pass, pos, flags, heap, string, cur>>
  BY DEF Misfits, Overruns
<1>4. Narrow(EntrySize * l) # EntrySize * l
  BY <1>2, <1>3 DEF Sized, ValuesSize
<1>5. EntrySize * l \in Nat /\ IntLimit[letters] \in Nat
  BY SizeAssumption
<1>6. ~(EntrySize * l < IntLimit[letters])
  BY <1>4, <1>5, NarrowSmall
<1>. QED BY <1>2, <1>3, <1>5, <1>6

\* The second pass fails: no memory for what the next value holds.
LEMMA StarvedFreed ==
  ASSUME pass = 0, NEW H, NEW m, NEW k, SecondAt(H, m, k), Starved(H[k].point, H[m].point)
  PROVE /\ status' = "release" /\ cause' = "memory" /\ UNCHANGED <<pos, pass, flags, string, cur>>
        /\ HeapOK(heap') /\ SecondFreed(heap') /\ FitIn(heap')
<1>. DEFINE c == H[k].point  F == H[m].point  S == c.size  T == c.size + 1
<1>0. /\ PointOK(c) /\ F \in Points /\ ValuesOK(F) /\ Grows(c, F) /\ TopOK(c) /\ c \in Points
      /\ ValuesOK(c)
      /\ HeapOK(heap) /\ HeapShows(heap, c) /\ SecondHeap(heap, c, F)
      /\ Len(heap.node) = F.size /\ heap.top = c.top /\ c.size \in Nat /\ F.size \in Nat
  BY SecondPoint
<1>1. /\ UNCHANGED <<pos, pass, flags, string, num, cur>> /\ heap' = Taken
      /\ status' = "release" /\ cause' = "memory" /\ c.size < F.size /\ F.parent[T] = c.top
      /\ NewFails
  BY DEF Starved, NewFails, Fail
<1>. HIDE DEF c, F
<1>2. /\ T \in 1 .. Len(heap.node) /\ T \in Nat
      /\ HeapOK(heap') /\ heap'.top = T /\ heap'.root = 1 /\ heap'.live = heap.live
      /\ heap'.node = heap.node /\ heap'.alloc = (IF T = F.size THEN 0 ELSE T + 1)
      /\ Waits(heap, F, T)
  BY <1>0, <1>1, TakenIs
<1>3. heap.node[T].parent = c.top /\ heap.node[T].items = <<>> /\ heap.node[T].data = FALSE
  BY <1>1, <1>2 DEF Waits, Empty
<1>4. S \in Nat /\ ParentsOK(heap, S) /\ c.top \in 0 .. S /\ (c.top = 0 <=> S = 0)
  BY <1>0, ParentsShown DEF TopOK
<1>5. Tree(heap', T) /\ LooseOK(heap', T)
  <2>1. Alike(heap, heap', S)
    BY <1>2 DEF Alike
  <2>2. Tree(heap, S) /\ LooseOK(heap, S)
    BY <1>0 DEF SecondHeap
  <2>. HIDE DEF S
  <2>3. T = S + 1
    BY DEF S
  <2>. HIDE DEF T
  <2>4. heap'.node[T].parent = heap.top /\ heap'.node[T].items = <<>> /\ heap'.top = T
        /\ heap.top \in 0 .. S /\ (heap.top = 0 <=> S = 0)
    BY <1>0, <1>2, <1>3, <1>4
  <2>. QED BY <1>4, <2>1, <2>2, <2>3, <2>4, LooseBegun
<1>6. ParentsOK(heap', T)
  <2>1. \A u \in 1 .. T : heap'.node[u].parent = heap.node[u].parent
    BY <1>2
  <2>2. ASSUME NEW u \in 1 .. T, u # T
        PROVE heap'.node[u].parent \in 0 .. (u - 1) /\ (heap'.node[u].parent = 0 <=> u = 1)
    <3>1. u \in 1 .. S
      BY <1>4, <2>2
    <3>. QED BY <1>4, <2>1, <2>2, <3>1 DEF ParentsOK
  <2>3. heap'.node[T].parent \in 0 .. (T - 1) /\ (heap'.node[T].parent = 0 <=> T = 1)
    BY <1>2, <1>3, <1>4
  <2>. QED BY <2>2, <2>3 DEF ParentsOK
<1>7. ASSUME NEW v \in 1 .. T
      PROVE LET n == heap'.node[v]
            IN  /\ HoldsValues(n) /\ n.data => DOMAIN n.items = 0 .. (n.length - 1)
                /\ ~(HoldsValues(n) /\ n.data) => DOMAIN n.items = {}
                /\ HoldsValues(n) /\ ~n.data => v = T
  <2>1. CASE v = T
    BY <1>2, <1>3, <2>1
  <2>2. CASE v # T
    <3>1. v \in 1 .. c.size
      BY <1>4, <2>2
    <3>2. /\ HoldsValues(heap.node[v]) => heap.node[v].data
             /\ DOMAIN heap.node[v].items = 0 .. (heap.node[v].length - 1)
          /\ ~HoldsValues(heap.node[v]) => DOMAIN heap.node[v].items = {}
      BY <1>0, <3>1, FilledIs
    <3>. QED BY <1>2, <3>2
  <2>. QED BY <2>1, <2>2
<1>8. Whole(heap', T)
  BY <1>2, <1>5, <1>6, <1>7 DEF Whole
<1>9. T \in Loose(heap', T) \cup {1}
  BY <1>2, <1>5 DEF LooseOK
<1>10. \A v \in (T + 1) .. Len(heap'.node) : ChainedIn(heap', v)
  <2>1. \A v \in (T + 1) .. F.size : v \in (c.size + 1) .. F.size
    BY <1>0
  <2>. QED BY <1>0, <1>2, <2>1 DEF SecondHeap, Waits, ChainedIn
<1>11. heap'.live =
          ({"value"} \X {v \in 1 .. Len(heap'.node) : v <= T \/ (heap'.alloc # 0 /\ v >= heap'.alloc)})
            \cup ({"data"} \X {v \in 1 .. T : heap'.node[v].data})
  <2>1. heap.live = ({"value"} \X (1 .. F.size)) \cup ({"data"} \X {v \in 1 .. c.size : Needs(F, v)})
    BY <1>0 DEF SecondHeap
  <2>2. {v \in 1 .. Len(heap'.node) : v <= T \/ (heap'.alloc # 0 /\ v >= heap'.alloc)} = 1 .. F.size
    BY <1>0, <1>2
  <2>3. {v \in 1 .. T : heap'.node[v].data} = {v \in 1 .. c.size : Needs(F, v)}
    <3>1. \A v \in 1 .. c.size : heap.node[v].data = Needs(F, v) /\ v \in 1 .. T
      BY <1>0 DEF SecondHeap, Filled
    <3>2. \A v \in 1 .. T : v \in 1 .. c.size \/ v = T
      BY <1>0
    <3>. QED BY <1>2, <1>3, <3>1, <3>2
  <2>. QED BY <1>2, <2>1, <2>2, <2>3
<1>12. FitIn(heap')
  BY <1>2, SecondFits DEF FitIn
<1>13. heap'.alloc = 0 \/ heap'.alloc > T
  BY <1>2
<1>14. SecondFreed(heap')
  <2>. HIDE DEF T
  <2>. QED BY <1>2, <1>8, <1>9, <1>10, <1>11, <1>13 DEF SecondFreed
<1>. QED BY <1>1, <1>2, <1>12, <1>14

\* An error in the first pass.
LEMMA FirstFails ==
  ASSUME pass = 1, NEW why, NEW g, Fail(why, g), HeapOK(g), FirstHeap(g)
  PROVE HeapOK(heap') /\ FirstFreed(heap') /\ status' = "release" /\ cause' = why
        /\ UNCHANGED <<pass, flags, string, cur>>
<1>1. heap' = [g EXCEPT !.alloc = g.root] /\ status' = "release" /\ cause' = why
      /\ UNCHANGED <<pass, flags, string, cur>>
  BY DEF Fail
<1>2. /\ heap'.alloc = g.root /\ heap'.node = g.node /\ heap'.live = g.live /\ heap'.top = g.top
      /\ heap'.root = g.root /\ DOMAIN heap' = DOMAIN g
  BY <1>1 DEF HeapOK
<1>3. HeapOK(heap')
  BY <1>2 DEF HeapOK
<1>4. \A v \in 1 .. Len(heap'.node) : ChainedIn(heap', v)
  BY <1>2 DEF FirstHeap, ChainedIn
<1>5. {v \in 1 .. Len(g.node) : g.root # 0 /\ v >= g.root} = 1 .. Len(g.node)
  <2>1. Len(g.node) \in Nat
    BY SeqIs DEF HeapOK
  <2>. QED BY <2>1 DEF FirstHeap
<1>6. FirstFreed(heap')
  BY <1>2, <1>4, <1>5 DEF FirstFreed, FirstHeap
<1>. QED BY <1>1, <1>3, <1>6

\* A record of the chain is freed.
LEMMA Unchained ==
  ASSUME HeapOK(heap), heap.alloc # 0, ChainedIn(heap, heap.alloc),
         heap' = [heap EXCEPT !.live = @ \ {<<"value", heap.alloc>>},
                              !.alloc = heap.node[heap.alloc].next]
  PROVE /\ HeapOK(heap') /\ heap'.node = heap.node /\ heap'.top = heap.top /\ heap'.root = heap.root
        /\ heap'.live = heap.live \ {<<"value", heap.alloc>>}
        /\ heap'.alloc = (IF heap.alloc = Len(heap.node) THEN 0 ELSE heap.alloc + 1)
        /\ heap.alloc \in 1 .. Len(heap.node) /\ Len(heap.node) \in Nat
        /\ \A v \in 1 .. Len(heap.node) : (heap'.alloc # 0 /\ v >= heap'.alloc) <=> v > heap.alloc
<1>1. Len(heap.node) \in Nat /\ heap.alloc \in 1 .. Len(heap.node)
  <2>1. Len(heap.node) \in Nat
    BY SeqIs DEF HeapOK
  <2>. QED BY <2>1 DEF HeapOK
<1>2. /\ heap'.node = heap.node /\ heap'.top = heap.top /\ heap'.root = heap.root
      /\ heap'.live = heap.live \ {<<"value", heap.alloc>>} /\ DOMAIN heap' = DOMAIN heap
      /\ heap'.alloc = (IF heap.alloc = Len(heap.node) THEN 0 ELSE heap.alloc + 1)
  BY DEF HeapOK, ChainedIn
<1>3. heap'.alloc \in 0 .. Len(heap.node)
  BY <1>1, <1>2
<1>4. HeapOK(heap')
  BY <1>2, <1>3 DEF HeapOK
<1>. QED BY <1>1, <1>2, <1>4

LEMMA FirstReleases ==
  ASSUME HeapOK(heap), FirstFreed(heap), heap.alloc # 0,
         heap' = [heap EXCEPT !.live = @ \ {<<"value", heap.alloc>>},
                              !.alloc = heap.node[heap.alloc].next]
  PROVE HeapOK(heap') /\ FirstFreed(heap') /\ Len(heap'.node) = Len(heap.node)
<1>1. ChainedIn(heap, heap.alloc)
  <2>1. Len(heap.node) \in Nat
    BY SeqIs DEF HeapOK
  <2>. QED BY <2>1 DEF FirstFreed, HeapOK
<1>2. /\ HeapOK(heap') /\ heap'.node = heap.node
      /\ heap'.live = heap.live \ {<<"value", heap.alloc>>}
      /\ heap.alloc \in 1 .. Len(heap.node) /\ Len(heap.node) \in Nat
      /\ \A v \in 1 .. Len(heap.node) : (heap'.alloc # 0 /\ v >= heap'.alloc) <=> v > heap.alloc
  BY <1>1, Unchained
<1>3. heap'.live = {"value"} \X {v \in 1 .. Len(heap'.node) : heap'.alloc # 0 /\ v >= heap'.alloc}
  <2>1. {v \in 1 .. Len(heap'.node) : heap'.alloc # 0 /\ v >= heap'.alloc}
          = {v \in 1 .. Len(heap.node) : v > heap.alloc}
    BY <1>2
  <2>2. heap.live = {"value"} \X {v \in 1 .. Len(heap.node) : v >= heap.alloc}
    BY DEF FirstFreed
  <2>3. {v \in 1 .. Len(heap.node) : v >= heap.alloc} \ {heap.alloc} = {v \in 1 .. Len(heap.node) : v > heap.alloc}
    BY <1>2
  <2>. DEFINE A == {v \in 1 .. Len(heap.node) : v >= heap.alloc}
              B == {v \in 1 .. Len(heap.node) : v > heap.alloc}
  <2>. HIDE DEF A, B
  <2>4. A \ {heap.alloc} = B /\ heap.live = {"value"} \X A
    BY <2>2, <2>3 DEF A, B
  <2>5. ({"value"} \X A) \ {<<"value", heap.alloc>>} = {"value"} \X B
    BY <2>4
  <2>. QED BY <1>2, <2>1, <2>4, <2>5 DEF B
<1>. QED BY <1>2, <1>3 DEF FirstFreed, ChainedIn

LEMMA SecondReleases ==
  ASSUME HeapOK(heap), SecondFreed(heap), heap.alloc # 0,
         heap' = [heap EXCEPT !.live = @ \ {<<"value", heap.alloc>>},
                              !.alloc = heap.node[heap.alloc].next]
  PROVE HeapOK(heap') /\ SecondFreed(heap') /\ heap'.node = heap.node
<1>. DEFINE T == heap.top
<1>0. Len(heap.node) \in Nat /\ T \in 1 .. Len(heap.node) /\ heap.alloc > T
      /\ heap.alloc \in 1 .. Len(heap.node)
  <2>1. Len(heap.node) \in Nat
    BY SeqIs DEF HeapOK
  <2>. QED BY <2>1 DEF SecondFreed, HeapOK, Whole
<1>1. ChainedIn(heap, heap.alloc)
  BY <1>0 DEF SecondFreed
<1>2. /\ HeapOK(heap') /\ heap'.node = heap.node /\ heap'.top = T /\ heap'.root = heap.root
      /\ heap'.live = heap.live \ {<<"value", heap.alloc>>}
      /\ heap'.alloc = (IF heap.alloc = Len(heap.node) THEN 0 ELSE heap.alloc + 1)
      /\ \A v \in 1 .. Len(heap.node) : (heap'.alloc # 0 /\ v >= heap'.alloc) <=> v > heap.alloc
  BY <1>1, Unchained
<1>. DEFINE A == {v \in 1 .. Len(heap.node) : v <= T \/ (heap.alloc # 0 /\ v >= heap.alloc)}
            B == {v \in 1 .. Len(heap'.node) : v <= T \/ (heap'.alloc # 0 /\ v >= heap'.alloc)}
            D == {v \in 1 .. T : heap.node[v].data}
<1>3. A \ {heap.alloc} = B
  BY <1>0, <1>2
<1>4. heap.live = ({"value"} \X A) \cup ({"data"} \X D)
  BY DEF SecondFreed
<1>5. heap'.live = ({"value"} \X B) \cup ({"data"} \X D)
  <2>. HIDE DEF A, B, D
  <2>1. (({"value"} \X A) \cup ({"data"} \X D)) \ {<<"value", heap.alloc>>}
          = ({"value"} \X B) \cup ({"data"} \X D)
    BY <1>3
  <2>. QED BY <1>2, <1>4, <2>1
<1>6. Whole(heap', T) /\ T \in Loose(heap', T) \cup {1}
  <2>1. Whole(heap, T) /\ T \in Loose(heap, T) \cup {1}
    BY DEF SecondFreed
  <2>a. heap'.node = heap.node /\ heap'.root = heap.root
    BY <1>2 DEF HeapOK
  <2>2. Loose(heap', T) = Loose(heap, T)
    BY <2>a, SameNodes
  <2>b. Tree(heap, T) /\ ParentsOK(heap, T)
    BY <2>1 DEF Whole
  <2>3. Tree(heap', T) /\ ParentsOK(heap', T)
    BY <2>a, <2>b, SameNodes
  <2>4. Whole(heap', T)
    BY <2>1, <2>3, <2>a DEF Whole
  <2>. QED BY <2>1, <2>2, <2>4
<1>7. heap'.alloc = 0 \/ heap'.alloc > T
  BY <1>0, <1>2
<1>8. \A v \in (T + 1) .. Len(heap'.node) : ChainedIn(heap', v)
  BY <1>2 DEF SecondFreed, ChainedIn
<1>. QED BY <1>2, <1>5, <1>6, <1>7, <1>8 DEF SecondFreed

\* json_value_free_ex begins.
LEMMA FreeBegins ==
  ASSUME HeapOK(heap), NEW T, Whole(heap, T), UNCHANGED <<heap, cause>>, cur' = heap.root,
         heap.live = ({"value"} \X (1 .. T)) \cup ({"data"} \X {v \in 1 .. T : heap.node[v].data}),
         IF cause = "none"
           THEN /\ T = Len(heap.node) /\ Loose(heap, T) = {}
                /\ \A v \in 1 .. T : HoldsValues(heap.node[v]) => heap.node[v].data
           ELSE cause = "memory" /\ T = heap.top /\ T \in Loose(heap, T) \cup {1}
  PROVE \E R : FreeAt(T, R, {}, {1})'
<1>0. /\ Len(heap.node) \in Nat /\ T \in 1 .. Len(heap.node) /\ T \in Nat \ {0} /\ heap.root = 1
      /\ ParentsOK(heap, T) /\ Tree(heap, T)
  BY SeqIs DEF HeapOK, Whole
<1>1. PICK R : Reach(heap, T, R) /\ (cause = "none" => R = 1 .. T)
  <2>1. CASE cause = "none"
    <3>1. \A v \in 2 .. T : heap.node[v].parent \in 1 .. T
      BY <1>0 DEF ParentsOK
    <3>2. Reach(heap, T, 1 .. T)
      BY <1>0, <2>1, <3>1 DEF Reach
    <3>. QED BY <3>2
  <2>2. CASE cause # "none"
    BY <1>0, <2>2, ReachIs
  <2>. QED BY <2>1, <2>2
<1>2. R \subseteq 1 .. T /\ 1 \in R
  BY <1>1 DEF Reach
<1>3. Freeing(T, R, {}, {1})'
  <2>1. /\ (1 .. T) \ {} = 1 .. T /\ {1} \subseteq R \ {} /\ {} \subseteq R
    BY <1>2
  <2>2. heap.live = ({"value"} \X ((1 .. T) \ {})) \cup ({"data"} \X {v \in (1 .. T) \ {} : heap.node[v].data})
    BY <2>1
  <2>3. IF cause = "none" THEN R = 1 .. Len(heap.node) ELSE cause = "memory" /\ T = heap.top
    BY <1>1
  <2>. QED BY <1>0, <1>1, <2>1, <2>2, <2>3 DEF Freeing, Node
<1>4. Path({1})'
  BY <1>0 DEF Path, Node, ParentsOK
<1>5. Left(T, R, {}, {1})'
  <2>1. ASSUME NEW v \in R
        PROVE LET n == heap.node[v]
              IN  /\ HoldsValues(n) => \/ n.data /\ 0 .. (n.length - 1) \subseteq DOMAIN n.items
                                       \/ ~n.data /\ v = 1 /\ T = 1 /\ cause = "memory"
                  /\ \A i \in DOMAIN n.items :
                       IF i < n.length THEN HoldsValues(n) /\ n.items[i] \notin {}
                       ELSE n.items[i] \in {} \cup {1}
                  /\ DOMAIN n.items \subseteq Nat
    <3>. DEFINE n == heap.node[v]
    <3>0. v \in 1 .. T
      BY <1>2
    <3>1. /\ HoldsValues(n) /\ n.data => DOMAIN n.items = 0 .. (n.length - 1)
          /\ ~(HoldsValues(n) /\ n.data) => DOMAIN n.items = {}
          /\ HoldsValues(n) /\ ~n.data => v = T
      BY <3>0 DEF Whole
    <3>2. HoldsValues(n) /\ ~n.data => v = 1 /\ T = 1 /\ cause = "memory"
      <4>. SUFFICES ASSUME HoldsValues(n), ~n.data PROVE v = 1 /\ T = 1 /\ cause = "memory"
        OBVIOUS
      <4>1. cause # "none" /\ v = T
        BY <3>0, <3>1
      <4>2. v \in 2 .. T => v \notin Loose(heap, T)
        BY <1>1 DEF Reach
      <4>. QED BY <1>0, <4>1, <4>2
    <3>3. n.length \in Nat
      BY <1>0, <3>0 DEF HeapOK, NodeOK
    <3>. HIDE DEF n
    <3>4. HoldsValues(n) => \/ n.data /\ 0 .. (n.length - 1) \subseteq DOMAIN n.items
                            \/ ~n.data /\ v = 1 /\ T = 1 /\ cause = "memory"
      BY <3>1, <3>2
    <3>5. \A i \in DOMAIN n.items : i < n.length /\ HoldsValues(n) /\ n.items[i] \notin {} /\ i \in Nat
      BY <3>1, <3>3
    <3>. QED BY <3>4, <3>5 DEF n
  <2>2. cur' # 0
    BY <1>0
  <2>. QED BY <2>1, <2>2 DEF Left, Node
<1>. QED BY <1>3, <1>4, <1>5 DEF FreeAt

-----------------------------------------------------------------------------
(* The inductive invariant: what holds throughout, and in each phase of a call. *)

Always ==
  /\ letters \in Alphabets /\ doc \in Seq(Bytes) /\ pos \in 0 .. Len(doc)
  /\ pass \in {0, 1} /\ cur \in 0 .. Len(heap.node) /\ HeapOK(heap)
  /\ status \in {"parsing", "release", "free"} \cup Ended
  /\ cause \in {"none", "syntax", "memory", "overflow"}
  /\ string.length \in 0 .. (UintMax + 4)

Phases ==
  /\ status \in {"parsing", "release", "done"} => cur = 0
  /\ status \in {"parsing", "done"} => cause = "none"
  /\ pass = 1 => \A v \in 1 .. Len(heap.node) : ChainedIn(heap, v)
  /\ pass = 0 => cause \in {"none", "memory"}
  /\ pass = 0 /\ status # "parsing" => FitIn(heap) /\ "string" \notin flags

Reading ==
  status = "parsing" =>
    IF pass = 1 THEN First ELSE \E H, m, k : SecondAt(H, m, k)

FreeingOK ==
  /\ status = "release" => IF pass = 1 THEN FirstFreed(heap)
                           ELSE cause = "memory" /\ SecondFreed(heap)
  /\ status = "free" => pass = 0 /\ \E T, R, G, P : FreeAt(T, R, G, P)

EndOK ==
  /\ status = "done" => pass = 0 /\ DoneOK(heap) /\ \A v \in 1 .. Len(heap.node) : Agrees(heap.node[v])
  /\ status = "freed" \/ (status = "failed" /\ pass = 1) => heap.live = {}
  /\ status = "failed" /\ pass = 0 => heap.live = Blocks(Lost)
  /\ status = "crashed" => heap.top = heap.root /\ cause = "memory"
  /\ status = "overrun" => pass = 0 /\ EntrySize * Node(heap.alloc).length >= IntLimit[letters]

IInv == Always /\ Phases /\ Reading /\ FreeingOK /\ EndOK

LEMMA InitOK ==
  ASSUME Init
  PROVE IInv
<1>. DEFINE H == [i \in {1} |-> [point |-> Start, pos |-> 0]]
<1>0. /\ letters \in Alphabets /\ doc = <<>> /\ status = "parsing" /\ cause = "none"
      /\ pass = 1 /\ pos = 0 /\ flags = {"seek_value"}
      /\ heap = NoHeap /\ string = NoString /\ cur = 0
  BY DEF Init
<1>1. heap.node = <<>> /\ heap.live = {} /\ heap.top = 0 /\ heap.root = 0 /\ heap.alloc = 0
      /\ Len(heap.node) = 0 /\ DOMAIN heap = {"node", "live", "top", "root", "alloc"}
  BY <1>0 DEF NoHeap
<1>2. HeapOK(heap)
  <2>1. IsSeq(heap.node)
    <3>1. heap.node \in Seq({})
      BY <1>1
    <3>. QED BY <3>1 DEF IsSeq
  <2>. QED BY <1>1, <2>1 DEF HeapOK
<1>3. FirstHeap(heap)
  BY <1>1 DEF FirstHeap
<1>4. Trace(H, 1)
  BY <1>0, StartOK DEF Trace
<1>5. AtPoint(H[1])
  <2>1. Shown(Start)
    BY <1>0 DEF Shown, Start, MakePoint, NoString, Control
  <2>2. HeapShows(heap, Start)
    BY <1>0, <1>1 DEF HeapShows, SizeOf, Start, MakePoint
  <2>. QED BY <1>0, <2>1, <2>2 DEF AtPoint
<1>6. First
  <2>. HIDE DEF H
  <2>. QED BY <1>2, <1>3, <1>4, <1>5 DEF First
<1>7. Always
  <2>1. doc \in Seq(Bytes) /\ Len(doc) = 0
    BY <1>0
  <2>2. string.length = 0 /\ UintMax \in Nat
    BY <1>0, BoundAssumption DEF NoString
  <2>. QED BY <1>0, <1>1, <1>2, <2>1, <2>2 DEF Always
<1>8. Phases /\ Reading /\ FreeingOK /\ EndOK
  BY <1>0, <1>1, <1>6 DEF Phases, Reading, FreeingOK, EndOK
<1>. QED BY <1>7, <1>8 DEF IInv

\* string_length.
LEMMA StringStep ==
  ASSUME string.length \in 0 .. (UintMax + 4), NEW b, Read(b)
  PROVE string'.length \in 0 .. (UintMax + 4)
<1>0. UintMax \in Nat
  BY BoundAssumption
<1>1. CASE StringAdd(b)
  <2>1. string.length <= UintMax /\ string'.length = string.length + Width(b)
    BY <1>1 DEF StringAdd, InStringAt
  <2>2. Width(b) \in {1, 2, 3, 4}
    BY DEF Width, Unicode
  <2>. QED BY <1>0, <2>1, <2>2
<1>2. CASE string' = NoString \/ string' = string
  BY <1>0, <1>2 DEF NoString
<1>f. ASSUME NEW why, NEW h, Fail(why, h) PROVE string' = string
  BY <1>f DEF Fail
<1>e. ASSUME NEW h, NEW rest, EndValue(h, rest) PROVE string' = string
  <2>1. UNCHANGED string \/ \E g : Fail("overflow", g)
    BY <1>e DEF EndValue
  <2>. QED BY <1>f, <2>1
<1>n. NewFails \/ Overruns => string' = string
  BY <1>f DEF NewFails, Overruns
<1>3. CASE StringTooLong(b) \/ Escape(b) \/ KeyEnds(b) \/ StringEnds(b) \/ Space(b) \/ SeekComma(b)
           \/ SeekColon(b) \/ ArrayEnds(b) \/ ObjectEnds(b) \/ ObjectComma(b) \/ SyntaxError(b)
  <2>1. string' = string
    BY <1>3, <1>f, <1>e DEF StringTooLong, Escape, KeyEnds, StringEnds, Space, SeekComma, SeekColon,
       ArrayEnds, ObjectEnds, ObjectComma, SyntaxError, Turn
  <2>. QED BY <1>2, <2>1
<1>4. CASE Open(b) \/ Literal(b) \/ CutLiteral(b) \/ NumberBegins(b) \/ NumberSkipped(b) \/ KeyBegins(b)
  <2>1. string' = NoString \/ string' = string
    BY <1>4, <1>f, <1>e, <1>n DEF Open, Literal, CutLiteral, NumberBegins, NumberSkipped, KeyBegins
  <2>. QED BY <1>2, <2>1
<1>5. CASE ExponentDigit(b) \/ IntegerDigit(b) \/ DoubleDigit(b) \/ ExponentSign(b) \/ Point(b)
           \/ Exponent(b) \/ NumberEnds(b)
  <2>1. string' = string
    BY <1>5, <1>e DEF ExponentDigit, IntegerDigit, DoubleDigit, ExponentSign, Point, Exponent,
       NumberEnds, Turn
  <2>. QED BY <1>2, <2>1
<1>6. CASE PassEnds(b)
  BY <1>2, <1>6 DEF PassEnds
<1>. QED BY <1>1, <1>3, <1>4, <1>5, <1>6 DEF Read

\* What a byte that is read leaves as it should be.
LEMMA ReadKeeps ==
  ASSUME Always, NEW b \in Bytes, Read(b)
  PROVE /\ letters' \in Alphabets /\ doc' \in Seq(Bytes) /\ pos + 1 \in 0 .. Len(doc')
        /\ pos \in 0 .. Len(doc') /\ status = "parsing" /\ string'.length \in 0 .. (UintMax + 4)
        /\ 0 \in 0 .. Len(doc')
<1>1. Byte(b)
  BY ReadByte
<1>2. /\ Extends /\ UNCHANGED letters /\ status = "parsing" /\ pos + 1 \in 1 .. Len(doc')
  BY <1>1, ByteIs DEF Always
<1>3. Len(doc') \in Nat /\ pos \in Nat
  BY <1>2 DEF Extends, Always
<1>. QED BY <1>2, <1>3, StringStep DEF Extends, Always

LEMMA FirstReads ==
  ASSUME IInv, pass = 1, NEW b \in Bytes, Read(b)
  PROVE IInv'
<1>0. /\ letters' \in Alphabets /\ doc' \in Seq(Bytes) /\ pos + 1 \in 0 .. Len(doc')
      /\ pos \in 0 .. Len(doc') /\ status = "parsing" /\ string'.length \in 0 .. (UintMax + 4)
      /\ 0 \in 0 .. Len(doc')
  BY ReadKeeps DEF IInv
<1>1. First /\ cur = 0 /\ cause = "none" /\ HeapOK(heap) /\ FirstHeap(heap) /\ doc \in Seq(Bytes)
      /\ pos \in 0 .. Len(doc)
  BY <1>0 DEF IInv, Always, Phases, Reading, First
<1>l. ASSUME HeapOK(heap') PROVE 0 \in 0 .. Len(heap'.node)
  BY <1>l, SeqIs DEF HeapOK
<1>2. CASE First' /\ UNCHANGED <<outcome, pass, cur>> /\ pos' \in {pos, pos + 1}
  <2>1. status' = "parsing" /\ cause' = "none" /\ pass' = 1 /\ cur' = 0 /\ HeapOK(heap') /\ FirstHeap(heap')
    BY <1>0, <1>1, <1>2 DEF outcome, First
  <2>2. Always'
    BY <1>0, <1>2, <1>l, <2>1 DEF Always, Ended
  <2>3. Phases' /\ Reading' /\ FreeingOK' /\ EndOK'
    BY <1>2, <2>1 DEF Phases, Reading, FreeingOK, EndOK, FirstHeap
  <2>. QED BY <2>2, <2>3 DEF IInv
<1>3. CASE FirstStops /\ pos' \in {pos, pos + 1}
  <2>1. CASE \E why \in {"syntax", "overflow", "memory"} : \E g : Fail(why, g) /\ HeapOK(g) /\ FirstHeap(g)
    <3>0. PICK why \in {"syntax", "overflow", "memory"} : \E g : Fail(why, g) /\ HeapOK(g) /\ FirstHeap(g)
      BY <2>1
    <3>1. PICK g : Fail(why, g) /\ HeapOK(g) /\ FirstHeap(g)
      BY <3>0
    <3>2. HeapOK(heap') /\ FirstFreed(heap') /\ status' = "release" /\ cause' = why /\ pass' = 1 /\ cur' = 0
      BY <1>1, <3>1, FirstFails
    <3>3. Always'
      BY <1>0, <1>3, <1>l, <3>2 DEF Always
    <3>4. Phases' /\ Reading' /\ FreeingOK' /\ EndOK'
      BY <3>2 DEF Phases, Reading, FreeingOK, EndOK, FirstFreed
    <3>. QED BY <3>3, <3>4 DEF IInv
  <2>2. CASE Astray
    <3>1. status' = "astray" /\ UNCHANGED <<cause, heap, pass, cur>>
      BY <2>2 DEF Astray
    <3>2. Always'
      BY <1>0, <1>1, <1>3, <1>l, <3>1 DEF Always, Ended, IInv
    <3>3. Phases' /\ Reading' /\ FreeingOK' /\ EndOK'
      BY <1>1, <3>1 DEF Phases, Reading, FreeingOK, EndOK, FirstHeap
    <3>. QED BY <3>2, <3>3 DEF IInv
  <2>. QED BY <1>3, <2>1, <2>2 DEF FirstStops
<1>4. ASSUME NEW H, NEW m, Trace(H, m), AtPoint(H[m]), PassEnds(b) PROVE IInv'
  <2>1. SecondAt(H, m, 1)' /\ UNCHANGED <<outcome, cur>> /\ pass' = 0
    BY <1>0, <1>1, <1>4, SecondBegins
  <2>2. pos' = 0
    BY <1>4 DEF PassEnds
  <2>3. status' = "parsing" /\ cause' = "none" /\ cur' = 0 /\ HeapOK(heap')
    BY <1>0, <1>1, <2>1 DEF outcome, SecondAt
  <2>4. Always'
    BY <1>0, <1>l, <2>1, <2>2, <2>3 DEF Always
  <2>5. Phases' /\ Reading' /\ FreeingOK' /\ EndOK'
    BY <2>1, <2>3 DEF Phases, Reading, FreeingOK, EndOK
  <2>. QED BY <2>4, <2>5 DEF IInv
<1>5. PICK H, m : Trace(H, m) /\ (AtPoint(H[m]) \/ NumberAt(H[m]))
  BY <1>1 DEF First
<1>6. CASE AtPoint(H[m])
  <2>1. \/ First' /\ UNCHANGED <<outcome, pass, cur>> /\ pos' \in {pos, pos + 1}
        \/ FirstStops /\ pos' \in {pos, pos + 1}
        \/ PassEnds(b)
    BY <1>0, <1>1, <1>5, <1>6, FirstMoves
  <2>. QED BY <1>2, <1>3, <1>4, <1>5, <1>6, <2>1
<1>7. CASE NumberAt(H[m])
  <2>1. \/ First' /\ UNCHANGED <<outcome, pass, cur>> /\ pos' \in {pos, pos + 1}
        \/ FirstStops /\ pos' \in {pos, pos + 1}
    BY <1>0, <1>1, <1>5, <1>7, FirstCounts
  <2>. QED BY <1>2, <1>3, <2>1
<1>. QED BY <1>5, <1>6, <1>7

LEMMA SecondReads ==
  ASSUME IInv, pass = 0, NEW b \in Bytes, Read(b)
  PROVE IInv'
<1>0. /\ letters' \in Alphabets /\ doc' \in Seq(Bytes) /\ pos \in 0 .. Len(doc')
      /\ status = "parsing" /\ string'.length \in 0 .. (UintMax + 4)
  BY ReadKeeps DEF IInv
<1>r. letters' = letters
  BY ReadByte, ByteIs DEF IInv, Always
<1>1. cur = 0 /\ cause = "none" /\ HeapOK(heap) /\ doc \in Seq(Bytes) /\ (\E H, m, k : SecondAt(H, m, k))
  BY <1>0 DEF IInv, Always, Phases, Reading
<1>2. PICK H, m, k : SecondAt(H, m, k)
  BY <1>1
<1>l. ASSUME HeapOK(heap') PROVE 0 \in 0 .. Len(heap'.node)
  BY <1>l, SeqIs DEF HeapOK
<1>3. CASE SecondAt(H, m, k + 1)' /\ UNCHANGED <<outcome, pass, cur>>
  <2>1. status' = "parsing" /\ cause' = "none" /\ pass' = 0 /\ cur' = 0 /\ HeapOK(heap')
    BY <1>0, <1>1, <1>3 DEF outcome, SecondAt
  <2>2. pos' \in 0 .. Len(doc')
    <3>1. Trace(H, m)' /\ k + 1 \in 1 .. m /\ H[k + 1].pos = pos'
      BY <1>3 DEF SecondAt, WholeTrace, AtPoint
    <3>2. \A i \in 1 .. m : H[i].pos \in 0 .. Len(doc')
      BY <3>1 DEF Trace
    <3>. QED BY <3>1, <3>2
  <2>3. Always'
    BY <1>0, <1>l, <2>1, <2>2 DEF Always
  <2>4. Phases' /\ Reading' /\ FreeingOK' /\ EndOK'
    BY <1>3, <2>1 DEF Phases, Reading, FreeingOK, EndOK
  <2>. QED BY <2>3, <2>4 DEF IInv
<1>4. CASE Starved(H[k].point, H[m].point)
  <2>1. /\ status' = "release" /\ cause' = "memory" /\ UNCHANGED <<pos, pass, flags, string, cur>>
        /\ HeapOK(heap') /\ SecondFreed(heap') /\ FitIn(heap')
    BY <1>2, <1>4, StarvedFreed
  <2>2. "string" \notin flags
    <3>1. "string" \notin H[k].point.flags /\ Shown(H[k].point)
      BY <1>2, <1>4 DEF Starved, SecondAt, AtPoint
    <3>. QED BY <3>1 DEF Shown, Control
  <2>3. Always'
    BY <1>0, <1>1, <1>l, <2>1 DEF Always, IInv
  <2>4. Phases' /\ Reading' /\ FreeingOK' /\ EndOK'
    BY <1>1, <2>1, <2>2 DEF Phases, Reading, FreeingOK, EndOK
  <2>. QED BY <2>3, <2>4 DEF IInv
<1>5. CASE Misfits(H[k].point, H[m].point)
  <2>1. /\ status' = "overrun" /\ UNCHANGED <<cause, pass, pos, flags, heap, string, cur>>
        /\ EntrySize * Node(heap.alloc).length >= IntLimit[letters]
    BY <1>0, <1>2, <1>5, MisfitsIs DEF IInv, Always
  <2>2. "string" \notin flags
    <3>1. "string" \notin H[k].point.flags /\ Shown(H[k].point)
      BY <1>2, <1>5 DEF Misfits, SecondAt, AtPoint
    <3>. QED BY <3>1 DEF Shown, Control
  <2>3. FitIn(heap) /\ letters' = letters
    BY <1>2, <1>r, SecondFits
  <2>4. Always'
    BY <1>0, <1>1, <1>l, <2>1 DEF Always, IInv, Ended
  <2>5. Phases' /\ Reading' /\ FreeingOK'
    BY <1>1, <2>1, <2>2, <2>3 DEF Phases, Reading, FreeingOK
  <2>6. EndOK'
    BY <1>1, <2>1, <2>3 DEF EndOK, Node
  <2>. QED BY <2>4, <2>5, <2>6 DEF IInv
<1>6. CASE k = m /\ PassEnds(b)
  <2>1. status' = "done" /\ UNCHANGED <<pass, pos, flags, string, heap, cause, cur>>
    BY <1>6 DEF PassEnds
  <2>2. DoneOK(heap) /\ (\A v \in 1 .. Len(heap.node) : Agrees(heap.node[v])) /\ "string" \notin flags
    BY <1>2, <1>6, DoneIs
  <2>3. FitIn(heap)
    BY <1>2, SecondFits
  <2>4. Always'
    BY <1>0, <1>1, <1>l, <2>1 DEF Always, IInv, Ended
  <2>5. Phases' /\ Reading' /\ FreeingOK' /\ EndOK'
    BY <1>1, <2>1, <2>2, <2>3 DEF Phases, Reading, FreeingOK, EndOK
  <2>. QED BY <2>4, <2>5 DEF IInv
<1>. QED BY <1>0, <1>1, <1>2, <1>3, <1>4, <1>5, <1>6, SecondMoves

LEMMA ShorterFits ==
  ASSUME HeapOK(heap), FitIn(heap), cur # 0, cur \in 0 .. Len(heap.node), Node(cur).length # 0,
         heap' = [heap EXCEPT !.node[cur].length = @ - 1]
  PROVE FitIn(heap')
<1>0. cur \in 1 .. Len(heap.node) /\ Len(heap.node) \in Nat
  <2>1. Len(heap.node) \in Nat
    BY SeqIs DEF HeapOK
  <2>. QED BY <2>1
<1>1. PICK n : IsShorter(n, Node(cur))
  BY DEF IsShorter
<1>2. heap' = [heap EXCEPT !.node[cur] = n]
  BY <1>0, <1>1 DEF HeapOK, IsShorter, Node
<1>3. /\ NodeOK(n, cur) /\ n.data = Node(cur).data /\ n.items = Node(cur).items
      /\ n.names = Node(cur).names /\ n.cap = Node(cur).cap /\ n.used = Node(cur).used
      /\ n.room = Node(cur).room
  <2>1. NodeOK(Node(cur), cur)
    BY <1>0 DEF HeapOK, Node
  <2>2. NodeOK(n, cur)
    BY <1>1, <2>1, ShorterIs
  <2>. QED BY <1>1, <2>1, <2>2 DEF NodeOK, Fields, IsShorter
<1>4. Updated(heap, heap', cur, n, heap.top)
  <2>1. heap.top \in 0 .. Len(heap.node)
    BY DEF HeapOK
  <2>. QED BY <1>0, <1>2, <1>3, <2>1, SetNode
<1>. QED BY <1>0, <1>3, <1>4 DEF FitIn, Updated, Node

LEMMA FreeSteps ==
  ASSUME IInv, Release \/ FreeTree \/ Descend \/ Ascend \/ FreeEnds
  PROVE IInv'
<1>0. /\ letters' \in Alphabets /\ doc' \in Seq(Bytes) /\ pos' \in 0 .. Len(doc') /\ pass' \in {0, 1}
      /\ cause' \in {"none", "syntax", "memory", "overflow"} /\ string'.length \in 0 .. (UintMax + 4)
      /\ UNCHANGED <<cause, pass, flags>>
      /\ HeapOK(heap) /\ Len(heap.node) \in Nat
  <2>1. UNCHANGED <<letters, doc, cause, pass, pos, flags, string>>
    BY DEF Release, FreeTree, Descend, Ascend, FreeEnds, input, outcome
  <2>2. HeapOK(heap) /\ Len(heap.node) \in Nat
    BY SeqIs DEF IInv, Always, HeapOK
  <2>. QED BY <2>1, <2>2 DEF IInv, Always
<1>1. CASE Release
  <2>0. status = "release" /\ cur = 0 /\ cur' \in {cur, heap.root}
    <3>1. status = "release"
      BY <1>1 DEF Release
    <3>2. cur = 0
      BY <3>1 DEF IInv, Phases
    <3>. QED BY <1>1, <3>1, <3>2 DEF Release
  <2>1. CASE heap.alloc # 0
    <3>1. /\ heap' = [heap EXCEPT !.live = @ \ {<<"value", heap.alloc>>},
                                  !.alloc = heap.node[heap.alloc].next]
          /\ status' = "release" /\ cur' = 0
      BY <1>1, <2>0, <2>1 DEF Release
    <3>2. CASE pass = 1
      <4>1. FirstFreed(heap)
        BY <2>0, <3>2 DEF IInv, FreeingOK
      <4>2. HeapOK(heap') /\ FirstFreed(heap') /\ Len(heap'.node) = Len(heap.node)
        BY <1>0, <2>1, <3>1, <4>1, FirstReleases
      <4>3. Always'
        BY <1>0, <3>1, <4>2 DEF Always
      <4>4. Phases' /\ Reading' /\ FreeingOK' /\ EndOK'
        BY <1>0, <3>1, <3>2, <4>2 DEF Phases, Reading, FreeingOK, EndOK, FirstFreed
      <4>. QED BY <4>3, <4>4 DEF IInv
    <3>3. CASE pass # 1
      <4>1. SecondFreed(heap) /\ cause = "memory" /\ FitIn(heap) /\ "string" \notin flags /\ pass = 0
        BY <2>0, <3>3 DEF IInv, FreeingOK, Phases, Always
      <4>2. HeapOK(heap') /\ SecondFreed(heap') /\ heap'.node = heap.node
        BY <1>0, <2>1, <3>1, <4>1, SecondReleases
      <4>3. Always'
        BY <1>0, <3>1, <4>2 DEF Always
      <4>4. Phases' /\ Reading' /\ FreeingOK' /\ EndOK'
        BY <1>0, <3>1, <3>3, <4>1, <4>2 DEF Phases, Reading, FreeingOK, EndOK, FitIn
      <4>. QED BY <4>3, <4>4 DEF IInv
    <3>. QED BY <3>2, <3>3
  <2>2. CASE heap.alloc = 0 /\ pass = 1
    <3>1. status' = "failed" /\ cur' = 0 /\ UNCHANGED heap
      BY <1>1, <2>2 DEF Release
    <3>2. FirstFreed(heap)
      BY <2>0, <2>2 DEF IInv, FreeingOK
    <3>3. heap.live = {}
      BY <2>2, <3>2 DEF FirstFreed
    <3>4. Always'
      BY <1>0, <3>1 DEF Always, Ended
    <3>5. Phases' /\ Reading' /\ FreeingOK' /\ EndOK'
      BY <1>0, <2>2, <3>1, <3>2, <3>3 DEF Phases, Reading, FreeingOK, EndOK, FirstFreed
    <3>. QED BY <3>4, <3>5 DEF IInv
  <2>3. CASE heap.alloc = 0 /\ pass # 1
    <3>1. status' = "free" /\ cur' = heap.root /\ UNCHANGED heap
      BY <1>1, <2>3 DEF Release
    <3>2. SecondFreed(heap) /\ cause = "memory" /\ FitIn(heap) /\ "string" \notin flags /\ pass = 0
      BY <2>0, <2>3 DEF IInv, FreeingOK, Phases, Always
    <3>t. PICK T : T = heap.top
      OBVIOUS
    <3>3. Whole(heap, T) /\ T \in Loose(heap, T) \cup {1} /\ T \in 1 .. Len(heap.node)
      BY <3>2, <3>t DEF SecondFreed, Whole
    <3>4. heap.live = ({"value"} \X (1 .. T)) \cup ({"data"} \X {v \in 1 .. T : heap.node[v].data})
      <4>1. {v \in 1 .. Len(heap.node) : v <= T \/ (heap.alloc # 0 /\ v >= heap.alloc)} = 1 .. T
        BY <1>0, <2>3, <3>3
      <4>. QED BY <3>2, <3>t, <4>1 DEF SecondFreed
    <3>5. \E R : FreeAt(T, R, {}, {1})'
      <4>1. UNCHANGED <<heap, cause>> /\ cur' = heap.root
        BY <1>0, <3>1
      <4>2. IF cause = "none"
              THEN /\ T = Len(heap.node) /\ Loose(heap, T) = {}
                   /\ \A v \in 1 .. T : HoldsValues(heap.node[v]) => heap.node[v].data
              ELSE cause = "memory" /\ T = heap.top /\ T \in Loose(heap, T) \cup {1}
        BY <3>2, <3>3, <3>t
      <4>. QED BY <1>0, <3>3, <3>4, <4>1, <4>2, FreeBegins
    <3>6. cur' \in 0 .. Len(heap'.node)
      BY <1>0, <3>1 DEF HeapOK
    <3>7. Always'
      BY <1>0, <3>1, <3>6 DEF Always
    <3>8. Phases' /\ Reading' /\ EndOK'
      BY <1>0, <2>3, <3>1, <3>2 DEF Phases, Reading, EndOK
    <3>9. FreeingOK'
      <4>1. status' = "free" /\ pass' = 0 /\ \E R, G, P : FreeAt(T, R, G, P)'
        BY <1>0, <3>1, <3>2, <3>5
      <4>. QED BY <4>1 DEF FreeingOK
    <3>. QED BY <3>7, <3>8, <3>9 DEF IInv
  <2>. QED BY <2>1, <2>2, <2>3
<1>2. CASE FreeTree
  <2>1. status = "done" /\ status' = "free" /\ cur' = heap.root /\ UNCHANGED heap
    BY <1>2 DEF FreeTree
  <2>2. DoneOK(heap) /\ cause = "none" /\ FitIn(heap) /\ "string" \notin flags /\ pass = 0
    BY <2>1 DEF IInv, EndOK, Phases
  <2>3. \E T, R : FreeAt(T, R, {}, {1})'
    <3>1. PICK t : t = Len(heap.node)
      OBVIOUS
    <3>2. /\ Whole(heap, t) /\ Loose(heap, t) = {}
          /\ \A v \in 1 .. t : HoldsValues(heap.node[v]) => heap.node[v].data
          /\ heap.live = ({"value"} \X (1 .. t)) \cup ({"data"} \X {v \in 1 .. t : heap.node[v].data})
      BY <2>2, <3>1 DEF DoneOK
    <3>. QED BY <1>0, <2>1, <2>2, <3>1, <3>2, FreeBegins
  <2>4. cur' \in 0 .. Len(heap'.node)
    BY <1>0, <2>1 DEF HeapOK
  <2>5. Always'
    BY <1>0, <2>1, <2>4 DEF Always
  <2>6. Phases' /\ Reading' /\ FreeingOK' /\ EndOK'
    BY <1>0, <2>1, <2>2, <2>3 DEF Phases, Reading, FreeingOK, EndOK
  <2>. QED BY <2>5, <2>6 DEF IInv
<1>3. ASSUME Descend \/ Ascend \/ FreeEnds
      PROVE /\ status = "free" /\ pass = 0 /\ cause \in {"none", "memory"} /\ FitIn(heap)
            /\ "string" \notin flags /\ \E T, R, G, P : FreeAt(T, R, G, P)
  <2>1. status = "free"
    BY <1>3 DEF Descend, Ascend, FreeEnds
  <2>. QED BY <2>1 DEF IInv, FreeingOK, Phases
<1>4. CASE Descend
  <2>1. PICK T, R, G, P : FreeAt(T, R, G, P)
    BY <1>3, <1>4
  <2>2. FitIn(heap')
    <3>1. CASE UNCHANGED heap
      BY <1>3, <1>4, <3>1
    <3>2. CASE heap' = [heap EXCEPT !.node[cur].length = @ - 1]
      <4>1. cur # 0 /\ cur \in 0 .. Len(heap.node) /\ Node(cur).length # 0
        BY <1>4 DEF Descend, HoldsValues, IInv, Always
      <4>. QED BY <1>0, <1>3, <1>4, <3>2, <4>1, ShorterFits
    <3>. QED BY <1>4, <3>1, <3>2 DEF Descend
  <2>3. CASE \E Q : FreeAt(T, R, G, Q)' /\ HeapOK(heap') /\ status' = "free" /\ cur' \in 1 .. Len(heap'.node)
    <3>1. cur' \in 0 .. Len(heap'.node)
      BY <2>3
    <3>2. Always'
      BY <1>0, <2>3, <3>1 DEF Always
    <3>3. Phases' /\ Reading' /\ FreeingOK' /\ EndOK'
      BY <1>0, <1>3, <1>4, <2>2, <2>3 DEF Phases, Reading, FreeingOK, EndOK
    <3>. QED BY <3>2, <3>3 DEF IInv
  <2>4. CASE status' = "crashed" /\ UNCHANGED <<heap, cur>> /\ heap.top = heap.root /\ cause = "memory"
    <3>1. Always'
      BY <1>0, <2>4 DEF Always, IInv, Ended
    <3>2. Phases' /\ Reading' /\ FreeingOK' /\ EndOK'
      BY <1>0, <1>3, <1>4, <2>2, <2>4 DEF Phases, Reading, FreeingOK, EndOK
    <3>. QED BY <3>1, <3>2 DEF IInv
  <2>. QED BY <1>0, <1>4, <2>1, <2>3, <2>4, DescendIs
<1>5. CASE Ascend
  <2>1. PICK T, R, G, P : FreeAt(T, R, G, P)
    BY <1>3, <1>5
  <2>2. /\ \E K, Q : FreeAt(T, R, K, Q)'
        /\ HeapOK(heap') /\ cur' \in 0 .. Len(heap'.node) /\ UNCHANGED <<outcome, pass>>
    BY <1>0, <1>5, <2>1, AscendIs
  <2>3. heap'.node = heap.node /\ status' = "free"
    BY <1>0, <1>3, <1>5, <2>2 DEF Ascend, HeapOK, outcome
  <2>4. Always'
    BY <1>0, <2>2, <2>3 DEF Always
  <2>5. Phases' /\ Reading' /\ FreeingOK' /\ EndOK'
    BY <1>0, <1>3, <1>5, <2>2, <2>3 DEF Phases, Reading, FreeingOK, EndOK, FitIn
  <2>. QED BY <2>4, <2>5 DEF IInv
<1>6. CASE FreeEnds
  <2>1. PICK T, R, G, P : FreeAt(T, R, G, P)
    BY <1>3, <1>6
  <2>2. cur = 0 /\ UNCHANGED <<heap, cur>> /\ status' = IF cause = "none" THEN "freed" ELSE "failed"
    BY <1>6 DEF FreeEnds
  <2>3. IF cause = "none" THEN heap.live = {} ELSE heap.live = Blocks(Lost)
    BY <1>0, <2>1, <2>2, FreeEndsIs
  <2>4. (Blocks(Lost))' = Blocks(Lost)
    BY <2>2 DEF Blocks, Lost, Node
  <2>5. Always'
    BY <1>0, <2>2 DEF Always, Ended, IInv
  <2>6. Phases' /\ Reading' /\ FreeingOK' /\ EndOK'
    BY <1>0, <1>3, <1>6, <2>2, <2>3, <2>4 DEF Phases, Reading, FreeingOK, EndOK
  <2>. QED BY <2>5, <2>6 DEF IInv
<1>. QED BY <1>1, <1>2, <1>4, <1>5, <1>6

\* Nothing happens.
LEMMA Stutters ==
  ASSUME IInv, UNCHANGED vars
  PROVE IInv'
<1>0. /\ letters' = letters /\ doc' = doc /\ status' = status /\ cause' = cause /\ pass' = pass
      /\ pos' = pos /\ flags' = flags /\ heap' = heap /\ string' = string /\ cur' = cur
  BY DEF vars, input, outcome
<1>1. Always' /\ Phases'
  BY <1>0 DEF IInv, Always, Phases, FitIn
<1>2. \A c : (Shown(c) => Shown(c)') /\ (HeapShows(heap, c) => HeapShows(heap, c)')
  BY <1>0 DEF Shown, HeapShows, SizeOf, ValueShown, Count
<1>3. \A x : (AtPoint(x) => AtPoint(x)') /\ (NumberAt(x) => NumberAt(x)')
  BY <1>0, <1>2 DEF AtPoint, NumberAt
<1>4. \A H, m : (Trace(H, m) => Trace(H, m)') /\ (WholeTrace(H, m) => WholeTrace(H, m)')
  BY <1>0 DEF Trace, WholeTrace, Follows
<1>5. Reading'
  <2>1. CASE status = "parsing" /\ pass = 1
    <3>1. First
      BY <2>1 DEF IInv, Reading
    <3>2. First'
      BY <1>0, <1>3, <1>4, <3>1 DEF First
    <3>. QED BY <1>0, <2>1, <3>2 DEF Reading
  <2>2. CASE status = "parsing" /\ pass # 1
    <3>1. PICK H, m, k : SecondAt(H, m, k)
      BY <2>2 DEF IInv, Reading
    <3>2. SecondAt(H, m, k)'
      BY <1>0, <1>3, <1>4, <3>1 DEF SecondAt
    <3>. QED BY <1>0, <2>2, <3>2 DEF Reading
  <2>. QED BY <1>0, <2>1, <2>2 DEF Reading
<1>6. \A T, R, G, P : FreeAt(T, R, G, P) => FreeAt(T, R, G, P)'
  BY <1>0 DEF FreeAt, Freeing, Path, Left, Node
<1>7. FreeingOK'
  <2>1. CASE status = "free"
    <3>1. pass = 0 /\ \E T, R, G, P : FreeAt(T, R, G, P)
      BY <2>1 DEF IInv, FreeingOK
    <3>. QED BY <1>0, <1>6, <2>1, <3>1 DEF FreeingOK
  <2>2. CASE status # "free"
    BY <1>0, <2>2 DEF IInv, FreeingOK
  <2>. QED BY <2>1, <2>2
<1>8. EndOK'
  <2>1. (Blocks(Lost))' = Blocks(Lost)
    BY <1>0 DEF Blocks, Lost, Node
  <2>2. \A n : Agrees(n)' <=> Agrees(n)
    BY DEF Agrees, HoldsValues
  <2>3. DoneOK(heap)' <=> DoneOK(heap)
    BY <1>0 DEF DoneOK
  <2>. QED BY <1>0, <2>1, <2>2, <2>3 DEF IInv, EndOK, Node
<1>. QED BY <1>1, <1>5, <1>7, <1>8 DEF IInv

LEMMA StepOK ==
  ASSUME IInv, [Next]_vars
  PROVE IInv'
<1>1. CASE \E b \in Bytes : Read(b)
  <2>1. PICK b \in Bytes : Read(b)
    BY <1>1
  <2>2. pass \in {0, 1}
    BY DEF IInv, Always
  <2>. QED BY <2>1, <2>2, FirstReads, SecondReads
<1>2. CASE Release \/ FreeTree \/ Descend \/ Ascend \/ FreeEnds
  BY <1>2, FreeSteps
<1>3. CASE UNCHANGED vars
  BY <1>3, Stutters
<1>. QED BY <1>1, <1>2, <1>3 DEF Next

LEMMA Invariance == Spec => []IInv
<1>1. Init => IInv
  BY InitOK
<1>2. IInv /\ [Next]_vars => IInv'
  BY StepOK
<1>. QED BY <1>1, <1>2, PTL DEF Spec

(***************************************************************************)
(* WritesFit, for any alphabets and lengths and any limits of the lengths  *)
(* and of int: json_parse_ex writes no value, key or byte outside of what  *)
(* its second pass has allocated by the counts of the first, and           *)
(* string_length stays within 4 of uint_max.  It allocates another size    *)
(* only for an object whose entries take more bytes than an int can count, *)
(* and is not followed from there.                                         *)
(***************************************************************************)
THEOREM WritesAlwaysFit == Spec => []WritesFit
<1>1. IInv => WritesFit
  <2>. SUFFICES ASSUME IInv PROVE WritesFit
    OBVIOUS
  <2>1. UintMax \in Nat /\ string.length \in 0 .. (UintMax + 4) /\ Nodes = 1 .. Len(heap.node)
    BY BoundAssumption, SeqIs DEF IInv, Always, HeapOK, Nodes
  <2>2. CASE pass = 0 /\ status = "parsing"
    <3>1. PICK H, m, k : SecondAt(H, m, k)
      BY <2>2 DEF IInv, Reading
    <3>2. FitIn(heap)
      BY <2>2, <3>1, SecondFits
    <3>3. InString => Top.data /\ Top.used + string.length < Top.room
      BY <2>2, <3>1, TextFits
    <3>. QED BY <2>1, <2>2, <3>2, <3>3 DEF WritesFit, FitIn, Node
  <2>3. CASE pass = 0 /\ status # "parsing"
    <3>1. status = "overrun" => EntrySize * Node(heap.alloc).length >= IntLimit[letters]
      BY DEF IInv, EndOK
    <3>. QED BY <2>1, <2>3, <3>1 DEF IInv, Phases, WritesFit, FitIn, InString, Node
  <2>4. CASE pass # 0
    BY <2>1, <2>4 DEF IInv, EndOK, WritesFit
  <2>. QED BY <2>2, <2>3, <2>4
<1>. QED BY <1>1, Invariance, PTL

(***************************************************************************)
(* PassesAgree, likewise: the second pass of json_parse_ex meets no error  *)
(* but a lack of memory, and when it ends it has come to every value of    *)
(* the first and has filled every array, object and string.                *)
(***************************************************************************)
THEOREM PassesAlwaysAgree == Spec => []PassesAgree
<1>1. IInv => PassesAgree
  <2>. SUFFICES ASSUME IInv PROVE PassesAgree
    OBVIOUS
  <2>1. pass = 0 => cause \in {"none", "memory"}
    BY DEF IInv, Phases
  <2>2. Nodes = 1 .. Len(heap.node)
    BY SeqIs DEF IInv, Always, HeapOK, Nodes
  <2>3. ASSUME status = "done"
        PROVE heap.alloc = 0 /\ \A v \in 1 .. Len(heap.node) : Agrees(heap.node[v])
    BY <2>3 DEF IInv, EndOK, DoneOK
  <2>4. ASSUME NEW n, Agrees(n) PROVE Cardinality(DOMAIN n.items) = n.cap
    <3>1. 0 \in Int /\ n.cap - 1 \in Int /\ n.cap \in Nat
      BY <2>4 DEF Agrees
    <3>2. Cardinality(0 .. (n.cap - 1)) = IF 0 > n.cap - 1 THEN 0 ELSE n.cap - 1 - 0 + 1
      BY <3>1, FS_Interval
    <3>3. Cardinality(0 .. (n.cap - 1)) = n.cap
      BY <3>1, <3>2
    <3>. QED BY <2>4, <3>3 DEF Agrees
  <2>5. ASSUME status = "done", NEW v \in Nodes
        PROVE /\ Cardinality(DOMAIN Node(v).items) = Node(v).cap
              /\ HoldsValues(Node(v)) => Node(v).length = Node(v).cap
              /\ Node(v).type = "object" => Node(v).used = Node(v).room
              /\ Node(v).type = "string" => Node(v).length + 1 = Node(v).room
    <3>1. Agrees(Node(v))
      BY <2>2, <2>3, <2>5 DEF Node
    <3>. QED BY <2>4, <3>1 DEF Agrees
  <2>. QED BY <2>1, <2>3, <2>5 DEF PassesAgree
<1>. QED BY <1>1, Invariance, PTL

(***************************************************************************)
(* MemorySound, likewise: json_parse_ex and json_value_free_ex free and    *)
(* read memory only while it is allocated, and return all of it, but for   *)
(* what the second pass has begun and not linked when memory runs out.     *)
(***************************************************************************)
THEOREM MemoryAlwaysSound == Spec => []MemorySound
<1>1. IInv => MemorySound
  <2>. SUFFICES ASSUME IInv PROVE MemorySound
    OBVIOUS
  <2>0. Nodes = 1 .. Len(heap.node) /\ Len(heap.node) \in Nat /\ HeapOK(heap)
    BY SeqIs DEF IInv, Always, HeapOK, Nodes
  <2>1. TypeOK
    <3>1. Range(doc) \subseteq Bytes
      BY DEF IInv, Always, Range
    <3>2. cur \in Nodes \cup {0} /\ {heap.top, heap.root, heap.alloc} \subseteq Nodes \cup {0}
      BY <2>0 DEF IInv, Always, HeapOK
    <3>3. heap.live \subseteq {"value", "data"} \X Nodes
      BY <2>0 DEF HeapOK
    <3>4. ASSUME NEW v \in Nodes
          PROVE /\ Node(v).parent \in 0 .. (v - 1) /\ Node(v).next \in {0, v + 1}
                /\ pass = 1 => Node(v).next = IF v = Len(heap.node) THEN 0 ELSE v + 1
                /\ Node(v).length \in Nat /\ Node(v).keys \in Nat
      <4>1. NodeOK(heap.node[v], v)
        BY <2>0 DEF HeapOK
      <4>2. pass = 1 => ChainedIn(heap, v)
        BY <2>0 DEF IInv, Phases
      <4>. QED BY <4>1, <4>2 DEF NodeOK, ChainedIn, Node
    <3>. QED BY <3>1, <3>2, <3>3, <3>4 DEF IInv, Always, TypeOK
  <2>2. FreesLive
    <3>1. ASSUME status = "release", heap.alloc # 0 PROVE <<"value", heap.alloc>> \in heap.live
      <4>1. heap.alloc \in 1 .. Len(heap.node) /\ heap.alloc \in Nat
        BY <2>0, <3>1 DEF HeapOK
      <4>2. CASE pass = 1
        <5>1. FirstFreed(heap)
          BY <3>1, <4>2 DEF IInv, FreeingOK
        <5>. QED BY <3>1, <4>1, <5>1 DEF FirstFreed
      <4>3. CASE pass # 1
        <5>1. SecondFreed(heap)
          BY <3>1, <4>3 DEF IInv, FreeingOK
        <5>. QED BY <3>1, <4>1, <5>1 DEF SecondFreed
      <4>. QED BY <4>2, <4>3
    <3>2. ASSUME status = "free", cur # 0
          PROVE <<"value", cur>> \in heap.live /\ (Node(cur).data => <<"data", cur>> \in heap.live)
      <4>1. PICK T, R, G, P : FreeAt(T, R, G, P)
        BY <3>2 DEF IInv, FreeingOK
      <4>2. cur \in P /\ P \subseteq R \ G /\ R \subseteq 1 .. T
        BY <3>2, <4>1 DEF FreeAt, Path, Freeing, Reach
      <4>3. cur \in (1 .. T) \ G
        BY <4>2
      <4>. QED BY <4>1, <4>3 DEF FreeAt, Freeing
    <3>. QED BY <3>1, <3>2 DEF FreesLive
  <2>3. MemoryReturned
    <3>1. ASSUME status = "done" PROVE heap.live = Blocks(Nodes)
      <4>1. DoneOK(heap)
        BY <3>1 DEF IInv, EndOK
      <4>. QED BY <2>0, <4>1 DEF DoneOK, Blocks, Node
    <3>. QED BY <3>1 DEF IInv, EndOK, MemoryReturned
  <2>. QED BY <2>1, <2>2, <2>3 DEF MemorySound
<1>. QED BY <1>1, Invariance, PTL
=============================================================================
