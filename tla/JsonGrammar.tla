----------------------------- MODULE JsonGrammar -----------------------------
(***************************************************************************)
(* What json.c should do: the documents it accepts, the tree each stands   *)
(* for, and the memory a call leaves.  The grammar is that of JSON, except *)
(* that a comma may follow the last value of an array or object, that any  *)
(* byte may follow a \, that a number may be a minus without digits, and   *)
(* that one with more digits than an integer holds has no point.           *)
(***************************************************************************)
EXTENDS JsonParser, SequencesExt

Numeral(s) == FoldLeft(LAMBDA n, b : Longer(n, b), 0, s)
Words(A, B) == {a \o b : a \in A, b \in B}
Longest == Max({MaxLength[ls] : ls \in Alphabets})

-----------------------------------------------------------------------------
(* The documents written with the letters ls. *)

\* Text of n letters, with the bytes it stands for.
Texts(ls) ==
  LET special == DOMAIN Unicode \cup {"bad unicode", "cut literal"} \cup Literals
      Plain == {<<b>> : b \in ls \ (special \cup {"\"", "\\"})}
      Escapes == {<<"\\", b>> : b \in (ls \ special) \cup (ls \cap DOMAIN Unicode)}
      size(u) == IF Len(u) = 2 /\ u[2] \in DOMAIN Unicode THEN Unicode[u[2]] ELSE 1
      T[n \in 0 .. Longest] ==
        IF n = 0 THEN {<< <<>>, 0>>}
        ELSE {t \in {<<s[1] \o u, s[2] + size(u)>> : s \in T[n - 1], u \in Plain}
                \cup (IF n = 1 \/ "\\" \notin ls THEN {}
                      ELSE {<<s[1] \o u, s[2] + size(u)>> : s \in T[n - 2], u \in Escapes}) :
                t[2] <= UintMax}
  IN  T

StringsOf(ls) ==
  LET T == Texts(ls) IN
  [n \in 0 .. Longest |-> IF n < 2 \/ "\"" \notin ls THEN {}
                          ELSE {<<"\"">> \o t[1] \o <<"\"">> : t \in T[n - 2]}]

NumbersOf(ls) ==
  LET Run(n) == IF n = 0 THEN {} ELSE [1 .. n -> ls \cap Digits]
      Whole(n) == {r \in Run(n) : n = 1 \/ r[1] # "0"}
      Option(b) == IF b \in ls THEN {<<>>, <<b>>} ELSE {<<>>}
      Fraction(n) == IF "." \in ls /\ n > 1 THEN Words({<<".">>}, Run(n - 1)) ELSE {}
      Exponents(n) == IF n = 0 THEN {<<>>}
                     ELSE IF "e" \notin ls \/ n < 2 THEN {}
                     ELSE Words({<<"e">>}, Run(n - 1) \cup
                                  (IF n = 2 THEN {}
                                   ELSE Words({<<s>> : s \in ls \cap {"+", "-"}}, Run(n - 2))))
      Body(n) == Whole(n) \cup UNION {Words({w \in Whole(k) : Numeral(w) <= IntMax},
                                            Fraction(n - k)) : k \in 1 .. n}
      Unsigned(n) == UNION {Words(Body(k), Exponents(n - k)) : k \in 1 .. n}
      Signed(n) == IF "-" \notin ls \/ n = 0 THEN {}
                   ELSE Words({<<"-">>}, Unsigned(n - 1) \cup Exponents(n - 1))
  IN  [n \in 0 .. Longest |-> Unsigned(n) \cup Signed(n)]

\* By length: values, and lists of k values or of k pairs.
Grammar(ls) ==
  LET strings == StringsOf(ls)
      numbers == NumbersOf(ls)
      G[n \in 0 .. Longest] ==
        LET Inside(list, m) ==
              IF m < 0 THEN {}
              ELSE UNION {G[m][list][k] : k \in 0 .. UintMax}
                     \cup (IF m = 0 THEN {}
                           ELSE UNION {Words(G[m - 1][list][k], {<<",">>}) : k \in 1 .. UintMax})
            value == strings[n] \cup numbers[n]
                       \cup (IF n = 1 THEN {<<b>> : b \in ls \cap Literals} ELSE {})
                       \cup {w \in Words(Words({<<"[">>}, Inside("values", n - 2)), {<<"]">>})
                                    \cup Words(Words({<<"{">>}, Inside("pairs", n - 2)), {<<"}">>}) :
                               ToSet(w) \subseteq ls}
            pair == UNION {Words(Words(strings[k], {<<":">>}), G[n - 1 - k].value) :
                             k \in 2 .. n - 2}
            Lists(list, element) ==
              [k \in 0 .. UintMax |->
                 CASE k = 0 -> IF n = 0 THEN {<<>>} ELSE {}
                   [] k = 1 -> element
                   [] OTHER -> UNION {Words(Words(G[j][list][k - 1], {<<",">>}),
                                            G[n - 1 - j][IF list = "values" THEN "value" ELSE "pair"]) :
                                        j \in 1 .. n - 2}]
        IN  [value |-> value, pair |-> pair,
             values |-> Lists("values", value), pairs |-> Lists("pairs", pair)]
  IN  G

Documents == [ls \in Alphabets |->
                LET G == Grammar(ls) IN UNION {G[n].value : n \in 1 .. MaxLength[ls]}]

\* How a document, with its end, may begin.
Viable == [ls \in Alphabets |->
             UNION {{SubSeq(w, 1, n) : n \in 0 .. Len(w)} : w \in Words(Documents[ls], {<<"end">>})}]

Spaceless(s) == SelectSeq(s, LAMBDA b : b # " ")

(***************************************************************************)
(* json_parse takes the documents of the grammar and no others: it returns *)
(* a tree only for one of them, and gives up, except for memory, only      *)
(* where no document goes on.  Spaces are looked at only between values.   *)
(***************************************************************************)
AcceptsGrammar ==
  /\ status = "done" => Last(doc) = "end" /\ Spaceless(doc) \in Viable[letters]
  /\ cause \in {"syntax", "overflow"} => Spaceless(doc) \notin Viable[letters]

-----------------------------------------------------------------------------
(* The tree and the document. *)

\* The bytes between which no string is open, with strings and numbers as one each.
Token(kind, text) == [kind |-> kind, text |-> text]
Tokens(s) ==
  LET Grow(ts, b) == [ts EXCEPT ![Len(ts)].text = Append(@, b)]
      Read1(a, b) ==
        CASE a.in /\ ~a.escaped /\ b = "\"" -> [a EXCEPT !.in = FALSE]
          [] a.in /\ ~a.escaped /\ b = "\\" -> [a EXCEPT !.escaped = TRUE, !.tokens = Grow(@, b)]
          [] a.in /\ (a.escaped \/ b \notin {"\"", "\\"}) ->
               [a EXCEPT !.escaped = FALSE, !.tokens = Grow(@, b)]
          [] ~a.in /\ b = "\"" -> [a EXCEPT !.in = TRUE, !.tokens = Append(@, Token("string", <<>>))]
          [] ~a.in /\ b \in NumberBytes ->
               IF a.tokens # <<>> /\ Last(a.tokens).kind = "number"
                 THEN [a EXCEPT !.tokens = Grow(@, b)]
                 ELSE [a EXCEPT !.tokens = Append(@, Token("number", <<b>>))]
          [] ~a.in /\ b \in {"]", "}"} /\ Last(a.tokens).kind = "," ->
               [a EXCEPT !.tokens = Append(Front(@), Token(b, <<>>))]
          [] ~a.in /\ b \in {" ", "end"} -> a
          [] OTHER -> [a EXCEPT !.tokens = Append(@, Token(b, <<>>))]
  IN  FoldLeft(Read1, [in |-> FALSE, escaped |-> FALSE, tokens |-> <<>>], s).tokens

\* The tree below v as the document might have it, with numbers left out.
Written(v) ==
  LET Comma(a, b) == IF a = <<>> THEN b ELSE a \o <<Token(",", <<>>)>> \o b
      W[u \in Nodes] ==
        LET n == Node(u)
            value(k) == IF k \in DOMAIN n.items THEN W[n.items[k]] ELSE <<Token("none", <<>>)>>
            key(k) == IF k \in DOMAIN n.names THEN Token("string", n.names[k]) ELSE Token("none", <<>>)
            all == [i \in 1 .. n.length |->
                      IF n.type = "object"
                        THEN <<key(i - 1), Token(":", <<>>)>> \o value(i - 1) ELSE value(i - 1)]
            within(open, close) == <<Token(open, <<>>)>> \o FoldLeft(Comma, <<>>, all)
                                     \o <<Token(close, <<>>)>>
        IN  CASE n.type = "array" -> within("[", "]")
              [] n.type = "object" -> within("{", "}")
              [] n.type = "string" -> <<Token("string", n.text)>>
              [] n.type = "boolean" -> <<Token(IF n.bool THEN "true" ELSE "false", <<>>)>>
              [] n.type = "null" -> <<Token("null", <<>>)>>
              [] OTHER -> <<Token("number", <<>>)>>
  IN  W[v]

(***************************************************************************)
(* The tree says what the document says: the same values and keys, nested  *)
(* and ordered the same, with the same text.                               *)
(***************************************************************************)
TreeIsDocument ==
  status = "done" =>
    Written(heap.root) = [i \in DOMAIN Tokens(doc) |->
                            IF Tokens(doc)[i].kind = "number" THEN Token("number", <<>>)
                            ELSE Tokens(doc)[i]]

\* What a number, as written, is worth.
Denoted(s) ==
  LET At(bs) == {i \in DOMAIN s : s[i] \in bs}
      first == IF s[1] = "-" THEN 2 ELSE 1
      exponent == IF At({"e"}) = {} THEN Len(s) + 1 ELSE CHOOSE i \in At({"e"}) : TRUE
      point == IF At({"."}) = {} THEN exponent ELSE CHOOSE i \in At({"."}) : TRUE
      signed == exponent < Len(s) /\ s[exponent + 1] \in {"+", "-"}
      e == Numeral(SubSeq(s, exponent + (IF signed THEN 2 ELSE 1), Len(s)))
      frac == Numeral(SubSeq(s, point + 1, exponent - 1))
  IN  [whole |-> Numeral(SubSeq(s, first, point - 1)),
       frac |-> frac,
       places |-> IF frac = 0 THEN 0 ELSE exponent - 1 - point,
       exp |-> IF signed /\ s[exponent + 1] = "-" THEN -e ELSE e,
       neg |-> s[1] = "-"]

Worth(n) == IF n.frac = 0 THEN [n EXCEPT !.places = 0] ELSE n

(***************************************************************************)
(* The numbers of the tree have the values that the document gives them,   *)
(* except for one too large for an integer after one with a point: its     *)
(* last digits are taken for a fraction, since the flag of the point stays *)
(* when the next number begins.                                            *)
(***************************************************************************)
NumbersRight ==
  LET texts == SelectSeq(Tokens(doc), LAMBDA t : t.kind = "number")
      nodes == SelectSeq(heap.node, LAMBDA n : n.type \in {"integer", "double"})
      Spoiled(k) == /\ Denoted(texts[k].text).whole > IntMax
                    /\ \E j \in 1 .. (k - 1) : "." \in ToSet(texts[j].text)
  IN  status = "done" =>
        \A k \in DOMAIN texts : Spoiled(k) \/ Worth(nodes[k].num) = Denoted(texts[k].text)

(* Together: the tree is that of the document, numbers included. *)
TreeRight == TreeIsDocument /\ NumbersRight
=============================================================================
