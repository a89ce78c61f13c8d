----------------------------- MODULE JsonParser ------------------------------
(***************************************************************************)
(* ns_agent/src/json.c.  The parser reads a document twice.  The first     *)
(* pass checks it, allocates a record for each value, in a chain, and      *)
(* counts what each will hold; the second takes the records in the same    *)
(* order, allocates the arrays and strings by those counts, and fills      *)
(* them.  It links a value into the one around it when the value ends.     *)
(*                                                                         *)
(* A step reads a byte.  Bytes between which nothing can happen are one:   *)
(* a literal, and what follows \ in an escape of 1 to 4 bytes of UTF-8.    *)
(* The document is any, so the first pass reads any byte and doc records   *)
(* it; "end" stands for its end, and for a byte 0.                         *)
(*                                                                         *)
(* Comments are off, as json_parse has it.  Lengths are bounded by those   *)
(* that the code checks, and the size of an object's array by the int that *)
(* it is computed in; other sizes are those of a 64-bit build, in which    *)
(* the lengths checked keep them from an overflow.                         *)
(***************************************************************************)
EXTENDS Integers, FiniteSets, Functions, Sequences

CONSTANTS Alphabets,   \* sets of bytes that documents are written with
          MaxLength,   \* bounds on the length of those documents
          UintMax,     \* state.uint_max
          IntMax,      \* JSON_INT_MAX
          EntrySize,   \* sizeof (json_object_entry)
          IntLimit     \* INT_MAX + 1, for documents of each alphabet

Literals == {"true", "false", "null"}
Digits == {"0", "1"}
NumberBytes == Digits \cup {"-", "+", ".", "e"}
Unicode == [u1 |-> 1, u2 |-> 2, u3 |-> 3, u4 |-> 4]
Bytes == {"{", "}", "[", "]", ",", ":", "\"", "\\", " ", "a", "end"} \cup Literals
           \cup NumberBytes \cup DOMAIN Unicode \cup {"bad unicode", "cut literal"}

ASSUME AlphabetAssumption == Alphabets \subseteq SUBSET (Bytes \ {"end"})
ASSUME BoundAssumption == MaxLength \in [Alphabets -> Nat] /\ UintMax \in Nat /\ IntMax \in Nat
ASSUME SizeAssumption == EntrySize \in Nat /\ IntLimit \in [Alphabets -> Nat \ {0}]

VARIABLES letters, doc,   \* the alphabet of the document, and its bytes read so far
          status,         \* "parsing", a loop that frees, or how the call ended
          cause,          \* the error, or "none"
          pass,           \* state.first_pass
          pos,            \* state.ptr: the bytes behind it
          flags,
          heap,           \* the values, and the pointers of the parser to them
          string,         \* string_length, and what was written to string
          num,            \* num_digits, num_fraction and num_e
          cur             \* value of json_value_free_ex

input == <<letters, doc>>
outcome == <<status, cause>>
vars == <<input, outcome, pass, pos, flags, heap, string, num, cur>>

Zero == [whole |-> 0, frac |-> 0, places |-> 0, exp |-> 0, neg |-> FALSE]

\* struct _json_value.  keys is the count that the first pass keeps in u.object.values;
\* next is lost once object_mem takes its place.  room and cap are the bytes and slots
\* allocated: items and names are the values and keys written there, by index.
Fresh(type, parent) ==
  [type |-> type, parent |-> parent, next |-> 0, length |-> 0, keys |-> 0,
   data |-> FALSE, cap |-> 0, room |-> 0, used |-> 0,
   items |-> <<>>, names |-> <<>>, text |-> <<>>, bool |-> FALSE, num |-> Zero]

NoHeap == [node |-> <<>>, live |-> {}, top |-> 0, root |-> 0, alloc |-> 0]
NoString == [length |-> 0, text |-> <<>>]
NoNum == [digits |-> 0, fraction |-> 0, e |-> 0]

Init ==
  /\ letters \in Alphabets /\ doc = <<>>
  /\ status = "parsing" /\ cause = "none"
  /\ pass = 1 /\ pos = 0 /\ flags = {"seek_value"}
  /\ heap = NoHeap /\ string = NoString /\ num = NoNum /\ cur = 0

-----------------------------------------------------------------------------
Node(v) == heap.node[v]
Top == heap.node[heap.top]

\* The byte at ptr is b.
Byte(b) ==
  /\ status = "parsing"
  /\ UNCHANGED letters
  /\ IF pos < Len(doc)
       THEN b = doc[pos + 1] /\ UNCHANGED doc
       ELSE /\ b \in letters \cup {"end"}
            /\ b # "end" => Len(doc) < MaxLength[letters]
            /\ b \in DOMAIN Unicode \cup {"bad unicode"} => "escaped" \in flags
            /\ b \in Literals \cup {"cut literal"} => "string" \notin flags
            /\ doc' = Append(doc, b)

Next1 == pos' = pos + 1

\* e_failed: what is freed first begins at the root, or at the records left in the chain.
Fail(why, h) ==
  /\ status' = "release" /\ cause' = why
  /\ heap' = IF pass = 1 THEN [h EXCEPT !.alloc = h.root] ELSE h
  /\ UNCHANGED <<pass, flags, string, num, cur>>

-----------------------------------------------------------------------------
(* new_value *)

RootOr(h, v) == IF h.root = 0 THEN v ELSE h.root

\* In the first pass: a record at the end of the chain.
Allocated(type) ==
  LET v == Len(heap.node) + 1
      chained == IF heap.alloc = 0 THEN heap.node
                 ELSE [heap.node EXCEPT ![heap.alloc].next = v]
  IN  [node |-> Append(chained, Fresh(type, heap.top)),
       live |-> heap.live \cup {<<"value", v>>},
       top |-> v, root |-> RootOr(heap, v), alloc |-> v]

\* In the second: the next record of the chain.
Taken == [heap EXCEPT !.top = heap.alloc,
                      !.root = RootOr(heap, heap.alloc),
                      !.alloc = heap.node[heap.alloc].next]

NeedsData(n) == \/ n.type \in {"array", "object"} /\ n.length # 0
                \/ n.type = "string"

\* The conversion to int.
Narrow(x) == LET limit == IntLimit[letters] IN ((x + limit) % (2 * limit)) - limit

\* values_size, an int; Sized if that does not change it.  The keys are put behind it.
ValuesSize(n) == Narrow(EntrySize * n.length)
Sized(n) == n.type = "object" => ValuesSize(n) = EntrySize * n.length
BlockSize(n) == ValuesSize(n) + n.keys

\* Faulty variant of Opened: the keys are not counted.
OpenedKeyless(n) ==
  [n EXCEPT !.data = TRUE,
            !.cap = IF n.type = "string" THEN 0 ELSE n.length,
            !.room = IF n.type = "string" THEN n.length + 1 ELSE 0,
            !.next = IF n.type = "object" THEN 0 ELSE @,
            !.length = 0]

\* What it holds is allocated if it is Sized, for the second pass to count again.
Opened(n) ==
  [n EXCEPT !.data = TRUE,
            !.cap = IF n.type = "string" THEN 0 ELSE n.length,
            !.room = IF n.type = "string" THEN n.length + 1 ELSE n.keys,
            !.next = IF n.type = "object" THEN 0 ELSE @,
            !.length = 0]

New(type) ==
  IF pass = 1 THEN Allocated(type)
  ELSE IF NeedsData(Node(heap.alloc))
    THEN [Taken EXCEPT !.node[heap.alloc] = Opened(@),
                       !.live = @ \cup {<<"data", heap.alloc>>}]
    ELSE Taken

\* json_alloc returns 0: e_alloc_failure.
NewFails == /\ UNCHANGED pos
            /\ IF pass = 1 THEN Fail("memory", heap)
               ELSE NeedsData(Node(heap.alloc)) /\ Fail("memory", Taken)

\* An object's array is allocated in another size.  A negative one is never granted, as it
\* is converted to unsigned long, which leaves NewFails.  Any other is taken: the entries
\* will overwrite the keys or what is behind the block, and the call is not followed on.
Overruns == /\ pass # 1 /\ ~Sized(Node(heap.alloc)) /\ BlockSize(Node(heap.alloc)) >= 0
            /\ status' = "overrun"
            /\ UNCHANGED <<cause, pass, pos, flags, heap, string, num, cur>>

-----------------------------------------------------------------------------
(* flag_next: the value at the top of h has ended. *)

\* x stored in the array f at i.
Put(f, i, x) == [j \in DOMAIN f \cup {i} |-> IF j = i THEN x ELSE f[j]]

Linked(p, v) ==
  [p EXCEPT !.length = @ + 1,
            !.items = IF pass = 1 THEN @ ELSE Put(@, p.length, v)]

EndValue(h, rest) ==
  LET v == h.top  p == h.node[v].parent IN
  IF p = 0
    THEN /\ heap' = h
         /\ flags' = rest \cup {"need_comma", "done"}
         /\ UNCHANGED <<outcome, pass, string, num, cur>>
    ELSE LET linked == [h EXCEPT !.node[p] = Linked(@, v)] IN
         IF linked.node[p].length > UintMax
           THEN Fail("overflow", linked)
           ELSE /\ heap' = [linked EXCEPT !.top = p]
                /\ flags' = rest \cup {"need_comma"}
                              \cup (IF linked.node[p].type = "array" THEN {"seek_value"} ELSE {})
                /\ UNCHANGED <<outcome, pass, string, num, cur>>

\* The flags change, nothing else.
Turn(to) == /\ flags' = to
            /\ Next1
            /\ UNCHANGED <<outcome, pass, heap, string, num, cur>>

-----------------------------------------------------------------------------
(* In a string: flag_string. *)

InString == "string" \in flags
Escaped == "escaped" \in flags

\* b would be one byte too much to count.
StringTooLong(b) ==
  /\ Byte(b) /\ InString /\ b # "end"
  /\ string.length > UintMax
  /\ UNCHANGED pos
  /\ Fail("overflow", heap)

InStringAt(b) == Byte(b) /\ InString /\ b # "end" /\ string.length <= UintMax

Escape(b) == /\ InStringAt(b) /\ ~Escaped /\ b = "\\"
             /\ Turn(flags \cup {"escaped"})

Width(b) == IF Escaped /\ b \in DOMAIN Unicode THEN Unicode[b] ELSE 1

StringAdd(b) ==
  /\ InStringAt(b) /\ b # "bad unicode"
  /\ Escaped \/ b \notin {"\"", "\\"}
  /\ string' = [length |-> string.length + Width(b),
                text |-> IF pass = 1 THEN <<>>
                         ELSE string.text \o (IF Escaped THEN <<"\\", b>> ELSE <<b>>)]
  /\ flags' = flags \ {"escaped"}
  /\ Next1
  /\ UNCHANGED <<outcome, pass, heap, num, cur>>

\* The key of an object: the first pass counts its bytes, the second stores it.
KeyEnd(n) ==
  IF pass = 1
    THEN [n EXCEPT !.keys = @ + string.length + 1]
    ELSE [n EXCEPT !.used = @ + string.length + 1,
                   !.names = Put(@, n.length, string.text)]

KeyEnds(b) ==
  /\ InStringAt(b) /\ ~Escaped /\ b = "\"" /\ Top.type = "object"
  /\ heap' = [heap EXCEPT !.node[heap.top] = KeyEnd(@)]
  /\ flags' = (flags \ {"string"}) \cup {"seek_value", "need_colon"}
  /\ Next1
  /\ UNCHANGED <<outcome, pass, string, num, cur>>

StringEnds(b) ==
  /\ InStringAt(b) /\ ~Escaped /\ b = "\"" /\ Top.type = "string"
  /\ Next1
  /\ EndValue([heap EXCEPT !.node[heap.top] = [@ EXCEPT !.length = string.length,
                                                      !.text = string.text]],
              flags \ {"string"})

-----------------------------------------------------------------------------
(* Seeking a value: flag_seek_value. *)

Done == "done" \in flags
Seeking == "seek_value" \in flags /\ ~InString /\ ~Done
Within(type) == heap.top # 0 /\ Top.type = type
InObject == Within("object") /\ ~InString /\ ~Done /\ ~Seeking

Space(b) == Byte(b) /\ (Done \/ Seeking \/ InObject) /\ ~InString /\ b = " " /\ Turn(flags)

ArrayEnds(b) ==
  /\ Byte(b) /\ Seeking /\ b = "]" /\ Within("array")
  /\ Next1
  /\ EndValue(heap, flags \ {"need_comma", "seek_value"})

SeekComma(b) == /\ Byte(b) /\ Seeking /\ "need_comma" \in flags /\ b = ","
                /\ Turn(flags \ {"need_comma"})

SeekColon(b) == /\ Byte(b) /\ Seeking /\ "need_comma" \notin flags
                /\ "need_colon" \in flags /\ b = ":"
                /\ Turn(flags \ {"need_colon"})

\* A value may begin at b.
ValueAt(b) == Byte(b) /\ Seeking /\ {"need_comma", "need_colon"} \cap flags = {}

Opens == [b \in {"{", "[", "\""} |->
            CASE b = "{" -> "object" [] b = "[" -> "array" [] b = "\"" -> "string"]

\* Any value but a number or a literal goes on after its first byte.
Open(b) ==
  /\ ValueAt(b) /\ b \in DOMAIN Opens
  /\ \/ NewFails
     \/ Overruns
     \/ /\ pass # 1 => Sized(Node(heap.alloc))
        /\ heap' = New(Opens[b])
        /\ flags' = CASE b = "{" -> flags \ {"seek_value"}
                       [] b = "[" -> flags
                       [] b = "\"" -> (flags \ {"seek_value"}) \cup {"string"}
        /\ string' = IF b = "\"" THEN NoString ELSE string
        /\ Next1
        /\ UNCHANGED <<outcome, pass, num, cur>>

Literal(b) ==
  /\ ValueAt(b) /\ b \in Literals
  /\ \/ NewFails
     \/ /\ Next1
        /\ LET h == New(IF b = "null" THEN "null" ELSE "boolean") IN
             EndValue([h EXCEPT !.node[h.top].bool = (b = "true")], flags \ {"seek_value"})

\* The test against end lets the last letter of a literal be read behind it.  What is
\* there decides whether the literal is unknown, or all that follows is read, too.
CutLiteral(b) ==
  /\ ValueAt(b) /\ b = "cut literal"
  /\ UNCHANGED pos
  /\ \/ Fail("syntax", heap)
     \/ /\ status' = "astray"
        /\ UNCHANGED <<cause, pass, flags, heap, string, num, cur>>

\* Faulty variant of NumberBegins: the sign of the last number stays.
NumberBeginsSigned(b) ==
  /\ ValueAt(b) /\ b \in Digits \cup {"-"} /\ pass = 1
  /\ \/ NewFails
     \/ /\ heap' = New("integer")
        /\ num' = NoNum
        /\ flags' = (flags \ {"seek_value", "zero", "e", "e_sign", "e_negative"})
                       \cup (IF b = "-" THEN {"negative"} ELSE {})
        /\ pos' = IF b = "-" THEN pos + 1 ELSE pos
        /\ UNCHANGED <<outcome, pass, string, cur>>

\* First pass: the loop comes back to the first digit, but not to a minus.
NumberBegins(b) ==
  /\ ValueAt(b) /\ b \in Digits \cup {"-"} /\ pass = 1
  /\ \/ NewFails
     \/ /\ heap' = New("integer")
        /\ num' = NoNum
        /\ flags' = (flags \ {"seek_value", "negative", "zero", "e", "e_sign", "e_negative"})
                       \cup (IF b = "-" THEN {"negative"} ELSE {})
        /\ pos' = IF b = "-" THEN pos + 1 ELSE pos
        /\ UNCHANGED <<outcome, pass, string, cur>>

\* Faulty variant of SkipNumber: stops at a decimal point.
SkipInteger(from) ==
  CHOOSE to \in from .. Len(doc) :
    /\ \A i \in (from + 1) .. to : doc[i] \in NumberBytes \ {"."}
    /\ doc[to + 1] \notin NumberBytes \ {"."}

\* Behind all bytes that a number may have.
SkipNumber(from) ==
  CHOOSE to \in from .. Len(doc) :
    /\ \A i \in (from + 1) .. to : doc[i] \in NumberBytes
    /\ doc[to + 1] \notin NumberBytes

\* Second pass: the number is in its record already.
NumberSkipped(b) ==
  /\ ValueAt(b) /\ b \in Digits \cup {"-"} /\ pass # 1
  /\ \/ NewFails
     \/ /\ pos' = SkipNumber(pos)
        /\ EndValue(New("integer"), flags \ {"seek_value"})

-----------------------------------------------------------------------------
(* In an object, before a key or after a value. *)

\* Faulty variant of KeyBegins: no comma is needed.
KeyBeginsAnyhow(b) ==
  /\ Byte(b) /\ InObject /\ b = "\""
  /\ string' = NoString
  /\ flags' = flags \cup {"string"}
  /\ Next1
  /\ UNCHANGED <<outcome, pass, heap, num, cur>>

KeyBegins(b) ==
  /\ Byte(b) /\ InObject /\ b = "\"" /\ "need_comma" \notin flags
  /\ string' = NoString
  /\ flags' = flags \cup {"string"}
  /\ Next1
  /\ UNCHANGED <<outcome, pass, heap, num, cur>>

ObjectEnds(b) == /\ Byte(b) /\ InObject /\ b = "}"
                 /\ Next1
                 /\ EndValue(heap, flags \ {"need_comma"})

ObjectComma(b) == /\ Byte(b) /\ InObject /\ b = "," /\ "need_comma" \in flags
                  /\ Turn(flags \ {"need_comma"})

-----------------------------------------------------------------------------
(* In a number, which only the first pass reads. *)

InNumber == /\ heap.top # 0 /\ Top.type \in {"integer", "double"}
            /\ ~InString /\ ~Done /\ ~Seeking

DigitValue == [b \in Digits |-> IF b = "1" THEN 1 ELSE 0]
Overflows(value, b) == (IntMax - DigitValue[b]) \div 10 < value
Longer(n, b) == n * 10 + DigitValue[b]

\* The number so far is n, and the value at the top ends or becomes a double.
SetNumber(type, n) == [heap EXCEPT !.node[heap.top] = [@ EXCEPT !.type = type, !.num = n]]

ExponentDigit(b) ==
  /\ Byte(b) /\ InNumber /\ b \in Digits /\ "e" \in flags
  /\ num' = [num EXCEPT !.digits = @ + 1, !.e = Longer(@, b)]
  /\ flags' = flags \cup {"e_sign"}
  /\ Next1
  /\ UNCHANGED <<outcome, pass, heap, string, cur>>

\* Faulty variant of IntegerDigit: an integer too large for its type stays one.
IntegerDigitAgain(b) ==
  /\ Byte(b) /\ InNumber /\ b \in Digits /\ "e" \notin flags
  /\ Top.type = "integer" /\ "zero" \notin flags
  /\ flags' = IF num.digits = 0 /\ b = "0" THEN flags \cup {"zero"} ELSE flags
  /\ IF Overflows(Top.num.whole, b)
       THEN UNCHANGED <<heap, num, pos>>
       ELSE /\ heap' = SetNumber("integer", [Top.num EXCEPT !.whole = Longer(@, b)])
            /\ num' = [num EXCEPT !.digits = @ + 1]
            /\ Next1
  /\ UNCHANGED <<outcome, pass, string, cur>>

\* An integer too large for its type becomes a double, and the digit is read again.
IntegerDigit(b) ==
  /\ Byte(b) /\ InNumber /\ b \in Digits /\ "e" \notin flags
  /\ Top.type = "integer" /\ "zero" \notin flags
  /\ flags' = IF num.digits = 0 /\ b = "0" THEN flags \cup {"zero"} ELSE flags
  /\ IF Overflows(Top.num.whole, b)
       THEN heap' = SetNumber("double", Top.num) /\ UNCHANGED <<num, pos>>
       ELSE /\ heap' = SetNumber("integer", [Top.num EXCEPT !.whole = Longer(@, b)])
            /\ num' = [num EXCEPT !.digits = @ + 1]
            /\ Next1
  /\ UNCHANGED <<outcome, pass, string, cur>>

DoubleDigit(b) ==
  /\ Byte(b) /\ InNumber /\ b \in Digits /\ "e" \notin flags /\ Top.type = "double"
  /\ IF "decimal" \in flags
       THEN /\ num' = [num EXCEPT !.digits = @ + 1, !.fraction = Longer(@, b)]
            /\ UNCHANGED heap
       ELSE /\ num' = [num EXCEPT !.digits = @ + 1]
            /\ heap' = SetNumber("double", [Top.num EXCEPT !.whole = Longer(@, b)])
  /\ Next1
  /\ UNCHANGED <<outcome, pass, flags, string, cur>>

SignOfExponent(b) == b \in {"+", "-"} /\ "e" \in flags /\ "e_sign" \notin flags

ExponentSign(b) ==
  /\ Byte(b) /\ InNumber /\ SignOfExponent(b)
  /\ Turn(flags \cup {"e_sign"} \cup (IF b = "-" THEN {"e_negative"} ELSE {}))

Point(b) ==
  /\ Byte(b) /\ InNumber /\ b = "." /\ Top.type = "integer" /\ num.digits # 0
  /\ heap' = SetNumber("double", Top.num)
  /\ num' = [num EXCEPT !.digits = 0]
  /\ flags' = flags \cup {"decimal"}
  /\ Next1
  /\ UNCHANGED <<outcome, pass, string, cur>>

\* Neither a digit nor a sign nor a point that the number may have.
AfterDigits(b) == ~(b \in Digits \/ SignOfExponent(b) \/ (b = "." /\ Top.type = "integer"))

\* A double, an exponent and what follows them need digits.
Complete == num.digits # 0 \/ ("e" \notin flags /\ Top.type = "integer")

WithFraction(n) == [n EXCEPT !.frac = num.fraction, !.places = num.digits]

Exponent(b) ==
  /\ Byte(b) /\ InNumber /\ b = "e" /\ "e" \notin flags /\ Complete
  /\ heap' = SetNumber("double", IF Top.type = "double" THEN WithFraction(Top.num) ELSE Top.num)
  /\ num' = [num EXCEPT !.digits = 0]
  /\ flags' = (flags \cup {"e"}) \ {"zero"}
  /\ Next1
  /\ UNCHANGED <<outcome, pass, string, cur>>

\* What the number is worth, with its fraction or exponent, and its sign.
Number == LET n == CASE "e" \in flags -> [Top.num EXCEPT !.exp =
                                            IF "e_negative" \in flags THEN -num.e ELSE num.e]
                     [] "e" \notin flags /\ Top.type = "double" -> WithFraction(Top.num)
                     [] OTHER -> Top.num
          IN  [n EXCEPT !.neg = "negative" \in flags]

\* b is read again.
NumberEnds(b) ==
  /\ Byte(b) /\ InNumber /\ AfterDigits(b) /\ Complete /\ (b = "e" => "e" \in flags)
  /\ UNCHANGED pos
  /\ EndValue(SetNumber(Top.type, Number), flags)

-----------------------------------------------------------------------------
(* The ends of the passes, and errors. *)

PassEnds(b) ==
  /\ Byte(b) /\ Done /\ b = "end"
  /\ IF pass = 1
       THEN /\ pass' = 0 /\ pos' = 0 /\ flags' = {"seek_value"} /\ string' = NoString
            /\ heap' = [heap EXCEPT !.alloc = heap.root, !.top = 0, !.root = 0]
            /\ UNCHANGED status
       ELSE /\ status' = "done"
            /\ UNCHANGED <<pass, pos, flags, string, heap>>
  /\ UNCHANGED <<cause, num, cur>>

WrongInString(b) ==
  b = "end" \/ (Escaped /\ b = "bad unicode" /\ string.length <= UintMax)

WrongValue(b) ==
  IF b = "]" THEN ~Within("array")
  ELSE /\ b # " "
       /\ CASE "need_comma" \in flags -> b # ","
            [] "need_colon" \in flags /\ "need_comma" \notin flags -> b # ":"
            [] OTHER -> b \notin DOMAIN Opens \cup Literals \cup Digits \cup {"-", "cut literal"}

WrongInObject(b) == \/ b \notin {" ", "\"", "}", ","}
                    \/ b = "\"" /\ "need_comma" \in flags
                    \/ b = "," /\ "need_comma" \notin flags

\* A number with a leading 0, with a point or an "e" where a digit should be, or none after.
WrongInNumber(b) ==
  \/ b \in Digits /\ "e" \notin flags /\ Top.type = "integer" /\ "zero" \in flags
  \/ b = "." /\ Top.type = "integer" /\ num.digits = 0
  \/ AfterDigits(b) /\ ~Complete

SyntaxError(b) ==
  /\ Byte(b)
  /\ \/ InString /\ WrongInString(b)
     \/ Done /\ b \notin {" ", "end"}
     \/ Seeking /\ WrongValue(b)
     \/ InObject /\ WrongInObject(b)
     \/ InNumber /\ WrongInNumber(b)
  /\ UNCHANGED pos
  /\ Fail("syntax", heap)

-----------------------------------------------------------------------------
(* e_failed frees the records that wait in the chain, and, in the second   *)
(* pass, the values from the root on: json_value_free_ex.                  *)

Release ==
  /\ status = "release"
  /\ IF heap.alloc # 0
       THEN /\ heap' = [heap EXCEPT !.live = @ \ {<<"value", heap.alloc>>},
                                    !.alloc = heap.node[heap.alloc].next]
            /\ UNCHANGED <<status, cur>>
       ELSE /\ IF pass = 1 THEN status' = "failed" /\ cur' = 0
                            ELSE status' = "free" /\ cur' = heap.root
            /\ UNCHANGED heap
  /\ UNCHANGED <<input, cause, pass, pos, flags, string, num>>

\* The caller frees the tree.
FreeTree == /\ status = "done"
            /\ status' = "free" /\ cur' = heap.root
            /\ UNCHANGED <<input, cause, pass, pos, flags, heap, string, num>>

HoldsValues(n) == n.type \in {"array", "object"} /\ n.length # 0

\* The last of the values left; there is no array of them if it got no memory.
Descend ==
  /\ status = "free" /\ cur # 0 /\ HoldsValues(Node(cur))
  /\ IF Node(cur).data
       THEN /\ heap' = [heap EXCEPT !.node[cur].length = @ - 1]
            /\ cur' = Node(cur).items[Node(cur).length - 1]
            /\ UNCHANGED status
       ELSE status' = "crashed" /\ UNCHANGED <<heap, cur>>
  /\ UNCHANGED <<input, cause, pass, pos, flags, string, num>>

\* Faulty variant of Ascend: leaves the array or the string.
AscendValue ==
  /\ status = "free" /\ cur # 0 /\ ~HoldsValues(Node(cur))
  /\ heap' = [heap EXCEPT !.live = @ \ {<<"value", cur>>}]
  /\ cur' = Node(cur).parent
  /\ UNCHANGED <<input, outcome, pass, pos, flags, string, num>>

Ascend ==
  /\ status = "free" /\ cur # 0 /\ ~HoldsValues(Node(cur))
  /\ heap' = [heap EXCEPT !.live = @ \ {<<"value", cur>>, <<"data", cur>>}]
  /\ cur' = Node(cur).parent
  /\ UNCHANGED <<input, outcome, pass, pos, flags, string, num>>

FreeEnds == /\ status = "free" /\ cur = 0
            /\ status' = IF cause = "none" THEN "freed" ELSE "failed"
            /\ UNCHANGED <<input, cause, pass, pos, flags, heap, string, num, cur>>

-----------------------------------------------------------------------------
Read(b) ==
  \/ StringTooLong(b) \/ Escape(b) \/ StringAdd(b) \/ KeyEnds(b) \/ StringEnds(b)
  \/ Space(b) \/ ArrayEnds(b) \/ SeekComma(b) \/ SeekColon(b)
  \/ Open(b) \/ Literal(b) \/ CutLiteral(b) \/ NumberBegins(b) \/ NumberSkipped(b)
  \/ KeyBegins(b) \/ ObjectEnds(b) \/ ObjectComma(b)
  \/ ExponentDigit(b) \/ IntegerDigit(b) \/ DoubleDigit(b) \/ ExponentSign(b)
  \/ Point(b) \/ Exponent(b) \/ NumberEnds(b)
  \/ PassEnds(b) \/ SyntaxError(b)

Next == \/ \E b \in Bytes : Read(b)
        \/ Release \/ FreeTree \/ Descend \/ Ascend \/ FreeEnds

Spec == Init /\ [][Next]_vars /\ WF_vars(Next)
-----------------------------------------------------------------------------
Nodes == DOMAIN heap.node
Ended == {"done", "freed", "failed", "crashed", "astray", "overrun"}

(* Type invariant: the states of the call, and the records, which the first pass leaves *)
(* in a chain. *)
TypeOK ==
  /\ letters \in Alphabets /\ Range(doc) \subseteq Bytes
  /\ status \in {"parsing", "release", "free"} \cup Ended
  /\ cause \in {"none", "syntax", "memory", "overflow"}
  /\ pass \in {0, 1} /\ pos \in 0 .. Len(doc) /\ cur \in Nodes \cup {0}
  /\ {heap.top, heap.root, heap.alloc} \subseteq Nodes \cup {0}
  /\ heap.live \subseteq {"value", "data"} \X Nodes
  /\ \A v \in Nodes : /\ Node(v).parent \in 0 .. (v - 1)
                      /\ Node(v).next \in {0, v + 1}
                      /\ pass = 1 => Node(v).next = IF v = Len(heap.node) THEN 0 ELSE v + 1
                      /\ Node(v).length \in Nat /\ Node(v).keys \in Nat

(***************************************************************************)
(* What the second pass writes fits what the first has counted: an array   *)
(* or object gets no more values, and a string or the keys of an object,   *)
(* each with its 0 behind it, no more bytes than were allocated for them.  *)
(* Excepted is only an object of so many pairs that an int cannot hold the *)
(* size of their array (json.c:153), whose block may be too small.         *)
(* string_length, which is tested once for each byte, stays within reach   *)
(* of the 8 that uint_max leaves to its type.                              *)
(***************************************************************************)
WritesFit ==
  /\ string.length <= UintMax + 4
  /\ status = "overrun" => EntrySize * Node(heap.alloc).length >= IntLimit[letters]
  /\ pass = 0 =>
       /\ \A v \in {u \in Nodes : Node(u).data} :
            /\ DOMAIN Node(v).items \cup DOMAIN Node(v).names \subseteq 0 .. (Node(v).cap - 1)
            /\ Node(v).used <= Node(v).room
       /\ InString => /\ Top.data
                      /\ Top.used + string.length < Top.room

(***************************************************************************)
(* The second pass finds what the first has found: it comes to the same    *)
(* values in the same order, up to the last, fills all that was allocated, *)
(* and meets no error but a lack of memory.                                *)
(***************************************************************************)
PassesAgree ==
  /\ pass = 0 => cause \in {"none", "memory"}
  /\ status = "done" =>
       /\ heap.alloc = 0
       /\ \A v \in Nodes : /\ Cardinality(DOMAIN Node(v).items) = Node(v).cap
                           /\ HoldsValues(Node(v)) => Node(v).length = Node(v).cap
                           /\ Node(v).type = "object" => Node(v).used = Node(v).room
                           /\ Node(v).type = "string" => Node(v).length + 1 = Node(v).room

\* Memory is freed, and read by json_value_free_ex, while it is allocated.
FreesLive ==
  /\ (status = "release" /\ heap.alloc # 0) => <<"value", heap.alloc>> \in heap.live
  /\ (status = "free" /\ cur # 0) =>
       /\ <<"value", cur>> \in heap.live
       /\ Node(cur).data => <<"data", cur>> \in heap.live

\* Values the second pass has begun that the root does not lead to.
Lost == LET L[v \in 1 .. heap.top] ==
              /\ v # heap.root
              /\ \/ L[Node(v).parent]
                 \/ \A i \in DOMAIN Node(Node(v).parent).items : Node(Node(v).parent).items[i] # v
        IN  {v \in 1 .. heap.top : L[v]}

Blocks(vs) == ({"value"} \X vs) \cup ({"data"} \X {v \in vs : Node(v).data})

(***************************************************************************)
(* A call returns all its memory, or returns it with the tree: nothing is  *)
(* left after an error in the first pass, nor once the caller has freed    *)
(* the tree.  When memory runs out in the second pass, the arrays and      *)
(* objects that are not yet linked into what is around them stay behind    *)
(* with all they hold, and a root that got no array is taken for a full    *)
(* one, which crashes; nothing else is lost, and nothing else crashes.     *)
(***************************************************************************)
MemoryReturned ==
  /\ status = "done" => heap.live = Blocks(Nodes)
  /\ (status = "freed" \/ (status = "failed" /\ pass = 1)) => heap.live = {}
  /\ (status = "failed" /\ pass = 0) => heap.live = Blocks(Lost)
  /\ status = "crashed" => heap.top = heap.root /\ cause = "memory"

(* Together: each block of memory is freed once, at the right time. *)
MemorySound == TypeOK /\ FreesLive /\ MemoryReturned

(* Every call ends, and so does the call that frees its tree. *)
CallReturns == status \notin Ended ~> status \in Ended
=============================================================================
