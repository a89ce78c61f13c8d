------------------------------- MODULE MCJson --------------------------------
(* Alphabets for model-checking the parser, each with the length of documents. *)
EXTENDS JsonGrammar

Objects == {"{", "}", "\"", ":", ",", "null"}
Nested == {"{", "}", "[", "]", "\"", ":"}
Lists == {"[", "]", ",", "null"}
SignedLists == {"[", "]", ",", "1", "-"}
NumberLists == {"[", "]", ",", "1", "."}
Numerals == {"0", "1", "-", "+", ".", "e"}
Strings == {"\"", "\\", "a", "u2", "u4", "bad unicode"}
Spaced == {"[", "]", ",", " ", "true", "cut literal"}

Pairs == {"{", "}", "\"", ":", "false"}

AllAlphabets ==
  {Objects, Nested, Lists, NumberLists, SignedLists, Numerals, Strings, Spaced, Pairs}
Lengths == [ls \in AllAlphabets |->
              CASE ls = Objects -> 11
                [] ls = Nested -> 8
                [] ls \in {Lists, NumberLists} -> 8
                [] ls \in {Numerals, SignedLists, Pairs} -> 7
                [] ls = Strings -> 8
                [] ls = Spaced -> 6]

\* Two pairs fit an int, with EntrySize 2.  In a document of Pairs one does not: it has a
\* negative size, to which its key may add enough to make it 0.
IntLimits == [ls \in AllAlphabets |-> IF ls = Pairs THEN 2 ELSE 5]
=============================================================================
