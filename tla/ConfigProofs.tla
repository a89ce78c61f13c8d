---------------------------- MODULE ConfigProofs ----------------------------
(***************************************************************************)
(* What config.c has read when the program goes on, for any configuration  *)
(* files and file system: the sections and pairs behind sec and at were    *)
(* whole when the loops passed them, the calls of get_dir_content go down  *)
(* the tree of directories, and, where sections are named for one program  *)
(* and directories are flat (FlatUse), the rules loaded are those the file *)
(* asks for.                                                               *)
(***************************************************************************)
EXTENDS Access, SequenceTheorems, TLAPS

Whole(s) == Matches(s) => s.pairs # NULL /\ NULL \notin ToSet(s.pairs)

Running == pc \in {"section", "pair", "directory", "done"}

SectionsPassed ==
  /\ pc = "read" => sec = 1
  /\ Running => /\ config \in Configs \ {NULL}
                /\ sec \in 1 .. (Len(config) + 1)
                /\ \A n \in 1 .. (sec - 1) : Whole(config[n])
  /\ pc = "done" => sec = Len(config) + 1

PairsPassed ==
  pc \in {"pair", "directory"} =>
    /\ sec \in 1 .. Len(config) /\ Pairs # NULL
    /\ at \in 1 .. (Len(Pairs) + 1)
    /\ \A j \in 1 .. (at - 1) : Pairs[j] # NULL
    /\ pc = "directory" => at \in 1 .. Len(Pairs) /\ Pairs[at] # NULL

IInv == /\ pc \in {"read", "section", "pair", "directory", "done", "exited"}
        /\ SectionsPassed /\ PairsPassed

\* What a parsed file is.
LEMMA Parsed ==
  ASSUME NEW c \in Configs \ {NULL}
  PROVE /\ Len(c) \in Nat /\ DOMAIN c = 1 .. Len(c)
        /\ \A n \in DOMAIN c : c[n].pairs # NULL =>
             Len(c[n].pairs) \in Nat /\ DOMAIN c[n].pairs = 1 .. Len(c[n].pairs)
<1>1. \A s : IsSequence(s) => Len(s) \in Nat /\ DOMAIN s = 1 .. Len(s)
  BY DEF IsSequence
<1>2. QED BY <1>1, ConfigAssumption

\* A section is whole when its last pair is passed.
LEMMA SectionEnds ==
  ASSUME IInv, pc = "pair", at > Len(Pairs) PROVE Whole(config[sec])
<1>1. /\ Len(Pairs) \in Nat /\ DOMAIN Pairs = 1 .. Len(Pairs)
  BY Parsed DEF IInv, SectionsPassed, PairsPassed, Running, Pairs
<1>2. \A j \in DOMAIN Pairs : Pairs[j] # NULL
  BY <1>1 DEF IInv, PairsPassed
<1>3. QED BY <1>2 DEF Whole, ToSet, IInv, PairsPassed, Pairs

LEMMA LoadPasses == IInv /\ Load => IInv'
<1>. SUFFICES ASSUME IInv, Load PROVE IInv'
  OBVIOUS
<1>0. Running => /\ Len(config) \in Nat /\ DOMAIN config = 1 .. Len(config)
                 /\ sec \in DOMAIN config /\ Pairs # NULL => Len(Pairs) \in Nat
  BY Parsed DEF IInv, SectionsPassed, Running, Pairs
<1>. USE DEF IInv, SectionsPassed, PairsPassed, Running
<1>1. CASE ReadConfig
  <2>1. config' # NULL => Len(config') \in Nat
    BY <1>1, Parsed DEF ReadConfig
  <2>2. QED BY <1>1, <2>1 DEF ReadConfig
<1>2. CASE SkipSection
  <2>1. Whole(config[sec])
    BY <1>2 DEF SkipSection, Whole
  <2>2. QED BY <1>0, <1>2, <2>1 DEF SkipSection
<1>3. CASE EnterSection
  BY <1>0, <1>3 DEF EnterSection, Pairs
<1>4. CASE EndSections
  BY <1>0, <1>4 DEF EndSections
<1>5. CASE EndSection
  <2>1. Whole(config[sec])
    BY <1>5, SectionEnds DEF EndSection
  <2>2. QED BY <1>0, <1>5, <2>1 DEF EndSection
<1>6. CASE BadPair
  BY <1>6 DEF BadPair
<1>7. CASE FilePair
  BY <1>0, <1>7 DEF FilePair, Pair, Pairs
<1>8. CASE DirectoryPair
  BY <1>0, <1>8 DEF DirectoryPair, Pair, Pairs
<1>9. CASE EndPair
  BY <1>0, <1>9 DEF EndPair, Pairs
<1>10. CASE ReadFile \/ ReadDirectory \/ CloseDirectory
  BY <1>10 DEF ReadFile, ReadDirectory, CloseDirectory, Pairs
<1>11. QED BY <1>1, <1>2, <1>3, <1>4, <1>5, <1>6, <1>7, <1>8, <1>9, <1>10 DEF Load

LEMMA Invariance == AccessSpec => []IInv
<1>1. AccessInit => IInv
  BY DEF AccessInit, Init, IInv, SectionsPassed, PairsPassed, Running
<1>2. IInv /\ UNCHANGED vars => IInv'
  BY DEF vars, IInv, SectionsPassed, PairsPassed, Running, Pairs
<1>3. IInv /\ [AccessNext]_accessvars => IInv'
  BY <1>2, LoadPasses DEF AccessNext, FirstCall, SetUp, Chdir, Open, Quiet, accessvars
<1>4. QED BY <1>1, <1>3, PTL DEF AccessSpec

(***************************************************************************)
(* NothingSkipped, for any configuration files: a program that goes on has *)
(* read every pair of every section that names it; a section that is no    *)
(* array, or a pair that is no object, ended it in process_root or         *)
(* process_array.                                                          *)
(***************************************************************************)
THEOREM AllSectionsRead == AccessSpec => []NothingSkipped
<1>1. IInv => NothingSkipped
  <2>. SUFFICES ASSUME IInv, pc = "done" PROVE \A n \in DOMAIN config : Whole(config[n])
    BY DEF NothingSkipped, Whole
  <2>1. DOMAIN config = 1 .. (sec - 1)
    BY Parsed DEF IInv, SectionsPassed, Running
  <2>2. QED BY <2>1 DEF IInv, SectionsPassed, Running
<1>2. QED BY <1>1, Invariance, PTL

-----------------------------------------------------------------------------
\* After the set-up the rules and the saved directory stay.
Settled == /\ pc # "read" => cwd # NULL
           /\ last # NULL => pc = "done"
           /\ RightRuleInPlace

LEMMA SlashFirst == ASSUME NEW name \in Names, Head(name) = "/" PROVE ~Plain(name)
<1>1. 1 \in DOMAIN name /\ name[1] = "/"
  BY NamesAssumption
<1>2. QED BY <1>1 DEF Plain, ToSet

LEMMA OpensRule ==
  ASSUME NEW name \in Names, NEW from,
         Head(name) = "/" \/ (Plain(name) /\ from = cwd /\ cwd # Root)
  PROVE Buffer(name) = Opens(name, from)
BY SlashFirst DEF Buffer, Opens

LEMMA SettledNext == Settled /\ [AccessNext]_accessvars => Settled'
<1>. SUFFICES ASSUME Settled, [AccessNext]_accessvars PROVE Settled'
  OBVIOUS
<1>1. CASE FirstCall
  BY <1>1 DEF FirstCall, Settled, RightRuleInPlace, vars, outside
<1>2. CASE SetUp
  <2>1. pc # "done" /\ cwd # NULL /\ UNCHANGED <<last, cwd>>
    BY <1>2 DEF SetUp, Load, outside, ReadConfig, SkipSection, EnterSection, EndSections,
                EndSection, BadPair, FilePair, DirectoryPair, EndPair,
                ReadFile, ReadDirectory, CloseDirectory
  <2>2. QED BY <2>1 DEF Settled, RightRuleInPlace
<1>3. CASE Chdir
  BY <1>3 DEF Chdir, Settled, RightRuleInPlace, Rule, vars
<1>4. CASE UNCHANGED accessvars
  BY <1>4 DEF accessvars, outside, Settled, RightRuleInPlace, Rule, vars
<1>5. ASSUME NEW name \in Names, NEW base \in Bases, Open(name, base) PROVE Settled'
  <2>1. PICK from : last' = [name |-> name, from |-> from,
                             file |-> Opens(name, from), permission |-> Rule(Buffer(name))]
    BY <1>5 DEF Open
  <2>2. pc = "done" /\ UNCHANGED <<pc, map, cwd>>
    BY <1>5 DEF Open, vars
  <2>3. /\ last'.name = name /\ last'.from = from
        /\ last'.file = Opens(name, from) /\ last'.permission = Rule(Buffer(name))
    BY <2>1
  <2>4. Head(name) = "/" \/ (Plain(name) /\ from = cwd /\ cwd # Root)
          => last'.permission = Rule(last'.file)
    BY <2>3, OpensRule
  <2>5. RightRuleInPlace'
    BY <2>2, <2>3, <2>4 DEF RightRuleInPlace, Rule
  <2>6. QED BY <2>2, <2>5 DEF Settled
<1>6. QED BY <1>1, <1>2, <1>3, <1>4, <1>5 DEF AccessNext, Quiet

(***************************************************************************)
(* RightRuleInPlace, for any names, directories and rules: an absolute     *)
(* name, or a single one in the directory of the first call, is decided by *)
(* the rule of the file that the system opens (check_permission).          *)
(***************************************************************************)
THEOREM RuleOfFile == AccessSpec => []RightRuleInPlace
<1>1. AccessInit => Settled
  BY DEF AccessInit, Init, Settled, RightRuleInPlace
<1>2. QED BY <1>1, SettledNext, PTL DEF AccessSpec, Settled

-----------------------------------------------------------------------------
(* The calls of get_dir_content. *)

\* The calls in s, each in a directory below that of the next.
Descends(s) ==
  /\ s \in Seq([path : Seq(STRING), left : SUBSET Seq(STRING)])
  /\ \A k \in 1 .. Len(s) : /\ Opened(s[k].path) \in Directories
                            /\ s[k].left \subseteq Listing(Opened(s[k].path))
  /\ \A k \in 1 .. (Len(s) - 1) : IsStrictPrefix(Opened(s[k + 1].path), Opened(s[k].path))

\* What is appended to a sequence is longer, and begins with it.
LEMMA Longer ==
  ASSUME NEW s \in Seq(STRING), NEW t \in Seq(STRING), t # <<>>
  PROVE /\ s \o t \in Seq(STRING) /\ Last(s \o t) = Last(t) /\ s \o t # <<>>
        /\ IsStrictPrefix(s, s \o t)
<1>1. Len(s) \in Nat /\ Len(t) \in Nat \ {0}
  BY EmptySeq, LenProperties
<1>2. /\ s \o t \in Seq(STRING) /\ Len(s \o t) = Len(s) + Len(t)
      /\ \A k \in 1 .. Len(s) + Len(t) : (s \o t)[k] = IF k <= Len(s) THEN s[k] ELSE t[k - Len(s)]
  BY ConcatProperties
<1>3. Last(s \o t) = Last(t)
  BY <1>1, <1>2 DEF Last
<1>4. SubSeq(s \o t, 1, Len(s)) = s
  <2>1. CASE Len(s) = 0
    <3>1. s = <<>>
      BY <2>1, EmptySeq
    <3>2. SubSeq(s \o t, 1, 0) = <<>>
      BY SubSeqEmpty
    <3>. QED BY <2>1, <3>1, <3>2
  <2>2. CASE Len(s) # 0
    <3>1. SubSeq(s \o t, 1, Len(s)) = SubSeq(s, 1, Len(s))
      <4>1. 1 \in 1 .. Len(s) /\ Len(s) \in 1 .. Len(s)
        BY <1>1, <2>2
      <4>. QED BY <4>1, SubSeqOfConcat1
    <3>. QED BY <3>1, SubSeqFull
  <2>. QED BY <2>1, <2>2
<1>5. SubSeq(s, 1, Len(s)) = s
  BY SubSeqFull
<1>6. s # s \o t /\ s \o t # <<>> /\ Len(s) <= Len(s \o t)
  BY <1>1, <1>2, EmptySeq
<1>. QED BY <1>2, <1>3, <1>4, <1>5, <1>6 DEF IsStrictPrefix, IsPrefix

\* A name without its last piece.
LEMMA FrontIs ==
  ASSUME NEW s \in Seq(STRING), s # <<>>
  PROVE /\ Front(s) \in Seq(STRING) /\ s = Front(s) \o <<Last(s)>> /\ <<Last(s)>> \in Seq(STRING)
<1>1. Len(s) \in Nat \ {0} /\ \A k \in 1 .. Len(s) : s[k] \in STRING
  BY EmptySeq, LenProperties, ElementOfSeq
<1>2. Front(s) \in Seq(STRING) /\ Len(Front(s)) = Len(s) - 1
      /\ \A k \in 1 .. Len(s) - 1 : Front(s)[k] = s[k]
  <2>1. PICK n \in Nat : Len(s) - 1 = n
    BY <1>1
  <2>2. \A k \in 1 .. n : s[k] \in STRING
    BY <1>1, <2>1
  <2>3. /\ SubSeq(s, 1, n) \in Seq(STRING)
        /\ Len(SubSeq(s, 1, n)) = IF 1 <= n THEN n - 1 + 1 ELSE 0
        /\ \A k \in 1 .. n - 1 + 1 : SubSeq(s, 1, n)[k] = s[1 + k - 1]
    BY <2>2, SubSeqProperties
  <2>4. Len(SubSeq(s, 1, n)) = n
    BY <2>3
  <2>5. \A k \in 1 .. n : SubSeq(s, 1, n)[k] = s[k]
    BY <2>3
  <2>. QED BY <2>1, <2>3, <2>4, <2>5 DEF Front
<1>3. <<Last(s)>> \in Seq(STRING) /\ Len(<<Last(s)>>) = 1 /\ <<Last(s)>>[1] = Last(s)
  BY <1>1 DEF Last
<1>4. /\ Front(s) \o <<Last(s)>> \in Seq(STRING) /\ Len(Front(s) \o <<Last(s)>>) = (Len(s) - 1) + 1
      /\ \A k \in 1 .. (Len(s) - 1) + 1 : (Front(s) \o <<Last(s)>>)[k] =
            IF k <= Len(s) - 1 THEN Front(s)[k] ELSE <<Last(s)>>[k - (Len(s) - 1)]
  BY <1>2, <1>3, ConcatProperties
<1>5. \A k \in 1 .. Len(s) : (Front(s) \o <<Last(s)>>)[k] = s[k]
  BY <1>1, <1>2, <1>3, <1>4 DEF Last
<1>6. Len(Front(s) \o <<Last(s)>>) = Len(s)
  BY <1>1, <1>4
<1>. QED BY <1>2, <1>3, <1>4, <1>5, <1>6, SeqEqual

\* What readdir gives.
LEMMA ListingIs ==
  ASSUME NEW dd \in Directories, NEW name \in Listing(dd)
  PROVE name \in Seq(STRING) /\ name # <<>> /\ Plain(name)
<1>1. PICK file \in Files \cup Directories : name = SubSeq(file, Len(dd) + 2, Len(file))
  BY DEF Listing
<1>2. file \in Seq(STRING) /\ dd \in Seq(STRING) /\ Len(dd) \in Nat /\ Len(file) \in Nat
  BY TreeAssumption, LenProperties
<1>3. \A k \in (Len(dd) + 2) .. Len(file) : file[k] \in STRING
  BY <1>2, ElementOfSeq
<1>4. name \in Seq(STRING)
  BY <1>1, <1>2, <1>3, SubSeqProperties
<1>. QED BY <1>4 DEF Listing

\* The name of an entry is no directory's with "/", and is below the directory.
LEMMA Below ==
  ASSUME NEW path \in Seq(STRING), Opened(path) \in Directories, NEW name \in Listing(Opened(path))
  PROVE /\ path \o name \in Seq(STRING) /\ Opened(path \o name) = path \o name
        /\ IsStrictPrefix(Opened(path), path \o name)
<1>1. name \in Seq(STRING) /\ name # <<>> /\ Plain(name)
  BY ListingIs
<1>2. /\ path \o name \in Seq(STRING) /\ Last(path \o name) = Last(name) /\ path \o name # <<>>
      /\ IsStrictPrefix(path, path \o name)
  BY <1>1, Longer
<1>3. Last(name) # "/"
  <2>1. Len(name) \in DOMAIN name
    BY <1>1, EmptySeq, LenProperties
  <2>. QED BY <1>1, <2>1 DEF Plain, ToSet, Last
<1>4. Opened(path \o name) = path \o name
  BY <1>2, <1>3 DEF Opened, NamesDirectory
<1>5. CASE ~NamesDirectory(path)
  BY <1>2, <1>4, <1>5 DEF Opened
<1>6. CASE NamesDirectory(path)
  <2>1. path # <<>> /\ Opened(path) = Front(path)
    BY <1>6 DEF NamesDirectory, Opened
  <2>2. /\ Front(path) \in Seq(STRING) /\ path = Front(path) \o <<Last(path)>>
        /\ <<Last(path)>> \in Seq(STRING)
    BY <2>1, FrontIs
  <2>4. path \o name = Front(path) \o (<<Last(path)>> \o name)
    <3>1. (Front(path) \o <<Last(path)>>) \o name = Front(path) \o (<<Last(path)>> \o name)
      BY <1>1, <2>2, ConcatAssociative
    <3>. QED BY <2>2, <3>1
  <2>5. <<Last(path)>> \o name \in Seq(STRING) /\ <<Last(path)>> \o name # <<>>
    BY <1>1, <2>2, Longer
  <2>6. IsStrictPrefix(Front(path), Front(path) \o (<<Last(path)>> \o name))
    BY <2>2, <2>5, Longer
  <2>. QED BY <1>2, <1>4, <2>1, <2>4, <2>6
<1>. QED BY <1>2, <1>4, <1>5, <1>6

\* A call on top of the others.
LEMMA Deeper ==
  ASSUME NEW s, Descends(s), NEW path \in Seq(STRING), NEW left \in SUBSET Listing(Opened(path)),
         Opened(path) \in Directories, s # <<>> => IsStrictPrefix(Opened(s[1].path), Opened(path))
  PROVE Descends(<<[path |-> path, left |-> left]>> \o s)
<1>. DEFINE e == [path |-> path, left |-> left]
            T == [path : Seq(STRING), left : SUBSET Seq(STRING)]
            u == <<e>> \o s
<1>1. left \subseteq Seq(STRING)
  BY ListingIs
<1>2. e \in T /\ e.path = path /\ e.left = left
  BY <1>1
<1>. HIDE DEF e
<1>3. s \in Seq(T) /\ Len(s) \in Nat /\ <<e>> \in Seq(T) /\ Len(<<e>>) = 1 /\ <<e>>[1] = e
  BY <1>2, LenProperties DEF Descends
<1>4. /\ u \in Seq(T) /\ Len(u) = 1 + Len(s)
      /\ \A k \in 1 .. 1 + Len(s) : u[k] = IF k <= 1 THEN <<e>>[k] ELSE s[k - 1]
  BY <1>3, ConcatProperties
<1>. HIDE DEF u, T
<1>5. u[1] = e /\ \A k \in 2 .. 1 + Len(s) : k - 1 \in 1 .. Len(s) /\ u[k] = s[k - 1]
  BY <1>3, <1>4
<1>6. \A k \in 1 .. Len(u) : Opened(u[k].path) \in Directories /\ u[k].left \subseteq Listing(Opened(u[k].path))
  <2>1. \A k \in 2 .. 1 + Len(s) :
          Opened(u[k].path) \in Directories /\ u[k].left \subseteq Listing(Opened(u[k].path))
    BY <1>5 DEF Descends
  <2>2. Opened(u[1].path) \in Directories /\ u[1].left \subseteq Listing(Opened(u[1].path))
    BY <1>2, <1>5
  <2>3. \A k \in 1 .. Len(u) : k = 1 \/ k \in 2 .. 1 + Len(s)
    BY <1>3, <1>4
  <2>. QED BY <2>1, <2>2, <2>3
<1>7. \A k \in 1 .. (Len(u) - 1) : IsStrictPrefix(Opened(u[k + 1].path), Opened(u[k].path))
  <2>. SUFFICES ASSUME NEW k \in 1 .. (Len(u) - 1)
                PROVE IsStrictPrefix(Opened(u[k + 1].path), Opened(u[k].path))
    OBVIOUS
  <2>1. k + 1 \in 2 .. 1 + Len(s) /\ (k + 1) - 1 = k /\ k \in 1 .. Len(s)
    BY <1>3, <1>4
  <2>2. u[k + 1] = s[k]
    BY <1>5, <2>1
  <2>3. CASE k = 1
    BY <1>2, <1>3, <1>5, <2>1, <2>2, <2>3, EmptySeq
  <2>4. CASE k # 1
    <3>1. k \in 2 .. 1 + Len(s) /\ k - 1 \in 1 .. (Len(s) - 1) /\ (k - 1) + 1 = k
      BY <1>3, <2>1, <2>4
    <3>2. u[k] = s[k - 1]
      BY <1>5, <3>1
    <3>. QED BY <2>2, <3>1, <3>2 DEF Descends
  <2>. QED BY <2>3, <2>4
<1>8. Descends(u)
  BY <1>4, <1>6, <1>7 DEF Descends, T
<1>. QED BY <1>8 DEF u, e

\* The call that is at the top, and those below it.
LEMMA Topmost ==
  ASSUME Descends(stack), stack # <<>>
  PROVE /\ Call = stack[1] /\ Call.path \in Seq(STRING) /\ Call.left \subseteq Listing(Opened(Call.path))
        /\ Opened(Call.path) \in Directories
        /\ Descends(Tail(stack))
        /\ Tail(stack) # <<>> => IsStrictPrefix(Opened(Tail(stack)[1].path), Opened(Call.path))
<1>. DEFINE T == [path : Seq(STRING), left : SUBSET Seq(STRING)]
<1>1. stack \in Seq(T) /\ Len(stack) \in Nat \ {0}
  BY EmptySeq DEF Descends
<1>. HIDE DEF T
<1>2. Call = stack[1]
  BY <1>1 DEF Call
<1>3. stack[1] \in T /\ 1 \in 1 .. Len(stack)
  BY <1>1, ElementOfSeq
<1>4. /\ Tail(stack) \in Seq(T) /\ Len(Tail(stack)) = Len(stack) - 1
      /\ \A k \in 1 .. Len(Tail(stack)) : Tail(stack)[k] = stack[k + 1]
  BY <1>1, HeadTailProperties
<1>5. \A k \in 1 .. (Len(stack) - 1) : k + 1 \in 1 .. Len(stack) /\ Tail(stack)[k] = stack[k + 1]
  BY <1>1, <1>4
<1>6. Descends(Tail(stack))
  <2>1. \A k \in 1 .. Len(Tail(stack)) :
          /\ Opened(Tail(stack)[k].path) \in Directories
          /\ Tail(stack)[k].left \subseteq Listing(Opened(Tail(stack)[k].path))
    BY <1>4, <1>5 DEF Descends
  <2>2. \A k \in 1 .. (Len(Tail(stack)) - 1) :
          IsStrictPrefix(Opened(Tail(stack)[k + 1].path), Opened(Tail(stack)[k].path))
    <3>. SUFFICES ASSUME NEW k \in 1 .. (Len(Tail(stack)) - 1)
                  PROVE IsStrictPrefix(Opened(Tail(stack)[k + 1].path), Opened(Tail(stack)[k].path))
      OBVIOUS
    <3>1. k \in 1 .. (Len(stack) - 1) /\ k + 1 \in 1 .. (Len(stack) - 1)
      BY <1>1, <1>4
    <3>2. Tail(stack)[k] = stack[k + 1] /\ Tail(stack)[k + 1] = stack[(k + 1) + 1]
      BY <1>5, <3>1
    <3>. QED BY <3>1, <3>2 DEF Descends
  <2>. QED BY <1>4, <2>1, <2>2 DEF Descends, T
<1>7. ASSUME Tail(stack) # <<>> PROVE IsStrictPrefix(Opened(Tail(stack)[1].path), Opened(Call.path))
  <2>1. Len(Tail(stack)) \in Nat \ {0}
    BY <1>4, <1>7, EmptySeq
  <2>2. 1 \in 1 .. (Len(stack) - 1)
    BY <1>1, <1>4, <2>1
  <2>3. Tail(stack)[1] = stack[1 + 1]
    BY <1>5, <2>2
  <2>. QED BY <1>2, <2>2, <2>3 DEF Descends
<1>. QED BY <1>2, <1>3, <1>6, <1>7 DEF Descends, T

\* The call at the top has read an entry.
LEMMA OneRead ==
  ASSUME Descends(stack), stack # <<>>, NEW name
  PROVE /\ Descends(Without(name)) /\ Without(name) # <<>>
        /\ Without(name)[1].path = Call.path
<1>1. /\ Call.path \in Seq(STRING) /\ Call.left \subseteq Listing(Opened(Call.path))
      /\ Opened(Call.path) \in Directories /\ Descends(Tail(stack)) /\ Call = stack[1]
      /\ Tail(stack) # <<>> => IsStrictPrefix(Opened(Tail(stack)[1].path), Opened(Call.path))
  BY Topmost
<1>. DEFINE left == Call.left \ {name}
            e == [path |-> Call.path, left |-> left]
<1>2. [Call EXCEPT !.left = @ \ {name}] = e
  <2>1. 1 \in 1 .. Len(stack)
    BY EmptySeq DEF Descends
  <2>2. Call \in [path : Seq(STRING), left : SUBSET Seq(STRING)]
    BY <1>1, <2>1, ElementOfSeq DEF Descends
  <2>3. \A c \in [path : Seq(STRING), left : SUBSET Seq(STRING)] :
          \A l : [c EXCEPT !.left = l] = [path |-> c.path, left |-> l]
    OBVIOUS
  <2>. QED BY <2>2, <2>3
<1>3. Descends(<<e>> \o Tail(stack))
  <2>1. left \in SUBSET Listing(Opened(Call.path))
    BY <1>1
  <2>. HIDE DEF left
  <2>. QED BY <1>1, <2>1, Deeper
<1>4. Without(name) = <<e>> \o Tail(stack)
  BY <1>2 DEF Without
<1>5. (<<e>> \o Tail(stack)) # <<>> /\ (<<e>> \o Tail(stack))[1] = e
  <2>1. e.path = Call.path
    OBVIOUS
  <2>. HIDE DEF e
  <2>2. Tail(stack) \in Seq([path : Seq(STRING), left : SUBSET Seq(STRING)])
    BY <1>1 DEF Descends
  <2>. QED BY <2>2
<1>. QED BY <1>3, <1>4, <1>5

\* get_dir_content begins.
LEMMA EnterDescends ==
  ASSUME NEW s, Descends(s), NEW path \in Seq(STRING),
         s # <<>> => IsStrictPrefix(Opened(s[1].path), Opened(path))
  PROVE Descends(Enter(path, s))
<1>1. CASE Opened(path) \in Directories
  BY <1>1, Deeper DEF Enter
<1>2. CASE Opened(path) \notin Directories
  BY <1>2 DEF Enter
<1>. QED BY <1>1, <1>2

Typed == /\ config \in Configs \cup {NULL}
         /\ Descends(stack)
         /\ \A p \in DOMAIN map : map[p] \in SUBSET DOMAIN Bits

LEMMA StoreTyped ==
  ASSUME NEW path, Store(path), \A p \in DOMAIN map : map[p] \in SUBSET DOMAIN Bits
  PROVE \A p \in DOMAIN map' : map'[p] \in SUBSET DOMAIN Bits
<1>1. ModeValue(Pair.letters) \in SUBSET DOMAIN Bits
  BY DEF ModeValue
<1>. QED BY <1>1 DEF Store

LEMMA TypedNext == IInv /\ Typed /\ Load => Typed'
<1>. SUFFICES ASSUME IInv, Typed, Load PROVE Typed'
  OBVIOUS
<1>1. CASE ReadConfig
  BY <1>1 DEF ReadConfig, Typed
<1>2. CASE SkipSection \/ EnterSection \/ EndSections \/ EndSection \/ BadPair \/ EndPair
  BY <1>2 DEF SkipSection, EnterSection, EndSections, EndSection, BadPair, EndPair, Typed
<1>3. CASE FilePair
  <2>1. UNCHANGED <<config, stack>> /\ Store(Pair.path)
    BY <1>3 DEF FilePair
  <2>. QED BY <2>1, StoreTyped DEF Typed
<1>4. CASE DirectoryPair
  <2>1. UNCHANGED <<config, map>> /\ stack' = Enter(Pair.path, <<>>)
    BY <1>4 DEF DirectoryPair
  <2>2. Pair.path \in Seq(STRING)
    <3>1. config \in Configs \ {NULL} /\ Pairs # NULL /\ sec \in 1 .. Len(config)
      BY <1>4 DEF DirectoryPair, IInv, SectionsPassed, PairsPassed, Running
    <3>2. sec \in DOMAIN config /\ Len(Pairs) \in Nat /\ DOMAIN Pairs = 1 .. Len(Pairs)
      BY <3>1, Parsed DEF Pairs
    <3>3. at \in DOMAIN Pairs /\ Pair # NULL
      BY <1>4, <3>2 DEF DirectoryPair, IInv, PairsPassed
    <3>4. IsPair(Pair)
      BY <3>1, <3>2, <3>3, ConfigAssumption DEF Pairs, Pair
    <3>. QED BY <3>3, <3>4 DEF IsPair
  <2>3. Descends(<<>>)
    BY DEF Descends
  <2>4. Descends(stack')
    BY <2>1, <2>2, <2>3, EnterDescends
  <2>. QED BY <2>1, <2>4 DEF Typed
<1>5. CASE ReadFile
  <2>1. PICK name \in Call.left : Store(Call.path \o name) /\ stack' = Without(name)
    BY <1>5 DEF ReadFile
  <2>2. Descends(stack')
    BY <1>5, <2>1, OneRead DEF ReadFile, Typed
  <2>3. \A p \in DOMAIN map' : map'[p] \in SUBSET DOMAIN Bits
    BY <2>1, StoreTyped DEF Typed
  <2>. QED BY <1>5, <2>2, <2>3 DEF ReadFile, Typed
<1>6. CASE ReadDirectory
  <2>1. PICK name \in Call.left : stack' = Enter(Call.path \o name, Without(name))
    BY <1>6 DEF ReadDirectory
  <2>2. stack # <<>> /\ UNCHANGED <<config, map>> /\ Descends(stack)
    BY <1>6 DEF ReadDirectory, Typed
  <2>3. /\ Call.path \o name \in Seq(STRING) /\ Opened(Call.path \o name) = Call.path \o name
        /\ IsStrictPrefix(Opened(Call.path), Call.path \o name)
    <3>1. /\ Call.path \in Seq(STRING) /\ Opened(Call.path) \in Directories
          /\ name \in Listing(Opened(Call.path))
      BY <2>1, <2>2, Topmost
    <3>. QED BY <3>1, Below
  <2>4. /\ Descends(Without(name)) /\ Without(name) # <<>> /\ Without(name)[1].path = Call.path
    BY <2>2, OneRead
  <2>5. Descends(Enter(Call.path \o name, Without(name)))
    BY <2>3, <2>4, EnterDescends
  <2>. QED BY <2>1, <2>2, <2>5 DEF Typed
<1>7. CASE CloseDirectory
  BY <1>7, Topmost DEF CloseDirectory, Typed
<1>. QED BY <1>1, <1>2, <1>3, <1>4, <1>5, <1>6, <1>7 DEF Load

(***************************************************************************)
(* TypeOK, for any file system and configuration files: the loops of       *)
(* process_root and process_array stay inside the file, and the calls of   *)
(* get_dir_content go down the tree, each in a directory strictly below    *)
(* that of its caller, so that the recursion is no deeper than the tree.   *)
(***************************************************************************)
THEOREM SearchDescends == AccessSpec => []TypeOK
<1>1. AccessInit => IInv /\ Typed
  BY DEF AccessInit, Init, IInv, SectionsPassed, PairsPassed, Running, Typed, Descends
<1>2. IInv /\ Typed /\ [AccessNext]_accessvars => Typed'
  BY TypedNext DEF AccessNext, FirstCall, SetUp, Chdir, Open, Quiet, accessvars, vars, Typed
<1>3. IInv /\ Typed => TypeOK
  <2>. SUFFICES ASSUME IInv, Typed PROVE TypeOK
    OBVIOUS
  <2>1. Len(stack) \in Nat /\ DOMAIN stack = 1 .. Len(stack)
    BY LenProperties DEF Typed, Descends
  <2>2. \A c \in ToSet(stack) : Opened(c.path) \in Directories /\ c.left \subseteq Listing(Opened(c.path))
    BY <2>1 DEF Typed, Descends, ToSet
  <2>3. \A k \in 1 .. (Len(stack) - 1) : IsStrictPrefix(Opened(stack[k + 1].path), Opened(stack[k].path))
    BY DEF Typed, Descends
  <2>4. /\ pc \notin {"read", "exited"} => config # NULL /\ sec \in 1 .. (Len(config) + 1)
        /\ pc \in {"pair", "directory"} => at \in 1 .. (Len(Pairs) + 1)
        /\ pc \in {"read", "section", "pair", "directory", "done", "exited"}
    BY DEF IInv, SectionsPassed, PairsPassed, Running
  <2>. QED BY <2>2, <2>3, <2>4 DEF TypeOK, Typed
<1>. QED BY <1>1, <1>2, <1>3, Invariance, PTL DEF AccessSpec

-----------------------------------------------------------------------------
(* The rules that are loaded, and those the file asks for. *)

(***************************************************************************)
(* Where the code does what README.md says: no other program's name is in  *)
(* that of a section for this one, nor the other way round; and a directory*)
(* that a pair names exists if it has files, and has none in directories   *)
(* below it, whose names get_dir_content makes without a slash.            *)
(***************************************************************************)
FlatUse ==
  /\ Files \cap Directories = {} /\ <<>> \notin Files \cup Directories
  /\ \A c \in Configs \ {NULL} : \A i \in DOMAIN c :
       /\ Matches(c[i]) <=> c[i].name = Program
       /\ c[i].pairs # NULL =>
            \A j \in DOMAIN c[i].pairs : c[i].pairs[j] # NULL =>
              LET path == c[i].pairs[j].path
              IN  NamesDirectory(path) =>
                    \A rest \in Seq(STRING) : path \o rest \in Files =>
                      Opened(path) \in Directories /\ rest # <<>> /\ Plain(rest)

\* A pair asks for a permission of the file f.
Covers(path, f) == path = f \/ (NamesDirectory(path) /\ IsPrefix(path, f))

\* The places of the pairs that ask, and of those before pair j of section i.
AskingIn(c, f) ==
  {x \in Nat \X Nat : /\ x[1] \in DOMAIN c /\ c[x[1]].name = Program /\ c[x[1]].pairs # NULL
                      /\ x[2] \in DOMAIN c[x[1]].pairs
                      /\ Covers(c[x[1]].pairs[x[2]].path, f)}
Before(c, f, i, j) == {x \in AskingIn(c, f) : x[1] < i \/ (x[1] = i /\ x[2] < j)}

\* The last of some places.
Latest(D) == CHOOSE x \in D : \A y \in D : y[1] < x[1] \/ (y[1] = x[1] /\ y[2] <= x[2])

\* The permission asked for there, and by the pairs before pair j of section i.
ValueOf(c, D) == IF D = {} THEN NULL
                 ELSE ModeValue(c[Latest(D)[1]].pairs[Latest(D)[2]].letters)
Holds(c, f, i, j) == ValueOf(c, Before(c, f, i, j))

\* Asked of RulesAsAsked, in the terms of Holds.
LEMMA AskedIs ==
  ASSUME config \in Configs \ {NULL}, NEW f PROVE Asked(f) = ValueOf(config, AskingIn(config, f))
<1>1. AskingIn(config, f) = Asking(f)
  <2>1. DOMAIN config \subseteq Nat /\ \A n \in DOMAIN config : config[n].pairs # NULL =>
          DOMAIN config[n].pairs \subseteq Nat
    BY Parsed
  <2>2. ASSUME NEW x \in Asking(f) PROVE x \in AskingIn(config, f)
    <3>0. PICK i \in OwnSections : \E j \in DOMAIN config[i].pairs :
            x = <<i, j>> /\ Covers(config[i].pairs[j].path, f)
      BY <2>2 DEF Asking, Covers
    <3>1. PICK j \in DOMAIN config[i].pairs :
            x = <<i, j>> /\ Covers(config[i].pairs[j].path, f)
      BY <3>0
    <3>. QED BY <2>1, <3>1 DEF AskingIn, OwnSections
  <2>3. ASSUME NEW x \in AskingIn(config, f) PROVE x \in Asking(f)
    <3>1. x = <<x[1], x[2]>> /\ x[1] \in OwnSections /\ x[2] \in DOMAIN config[x[1]].pairs
          /\ Covers(config[x[1]].pairs[x[2]].path, f)
      BY <2>3 DEF AskingIn, OwnSections
    <3>. QED BY <3>1 DEF Asking, Covers
  <2>. QED BY <2>2, <2>3
<1>. QED BY <1>1 DEF Asked, ValueOf, Latest

\* Before the first pair nothing is asked for.
LEMMA HoldsNothing ==
  ASSUME NEW c \in Configs \ {NULL}, NEW f PROVE Holds(c, f, 1, 1) = NULL
<1>1. \A x \in AskingIn(c, f) : x[1] >= 1 /\ x[2] >= 1
  BY Parsed DEF AskingIn
<1>2. \A x \in AskingIn(c, f) : x[1] \in Nat /\ x[2] \in Nat
  BY DEF AskingIn
<1>3. Before(c, f, 1, 1) = {}
  BY <1>1, <1>2 DEF Before
<1>. QED BY <1>3 DEF Holds, ValueOf

\* Behind the last section everything is.
LEMMA HoldsAll ==
  ASSUME NEW c \in Configs \ {NULL}, NEW f
  PROVE Holds(c, f, Len(c) + 1, 1) = ValueOf(c, AskingIn(c, f))
<1>1. \A x \in AskingIn(c, f) : x[1] < Len(c) + 1
  BY Parsed DEF AskingIn
<1>2. Before(c, f, Len(c) + 1, 1) = AskingIn(c, f)
  BY <1>1 DEF Before
<1>. QED BY <1>2 DEF Holds

\* A section of another program asks for nothing.
LEMMA HoldsSkipped ==
  ASSUME NEW c \in Configs \ {NULL}, NEW f, NEW i \in DOMAIN c, c[i].name # Program
  PROVE Holds(c, f, i + 1, 1) = Holds(c, f, i, 1)
<1>1. i \in Nat
  BY Parsed
<1>2. \A x \in AskingIn(c, f) : x[1] \in Nat /\ x[2] \in Nat /\ x[1] # i /\ x[2] >= 1
  BY Parsed DEF AskingIn
<1>3. Before(c, f, i + 1, 1) = Before(c, f, i, 1)
  BY <1>1, <1>2 DEF Before
<1>. QED BY <1>3 DEF Holds

\* After the last pair of a section comes the next section.
LEMMA HoldsSection ==
  ASSUME NEW c \in Configs \ {NULL}, NEW f, NEW i \in DOMAIN c, c[i].pairs # NULL
  PROVE Holds(c, f, i + 1, 1) = Holds(c, f, i, Len(c[i].pairs) + 1)
<1>1. i \in Nat /\ Len(c[i].pairs) \in Nat /\ DOMAIN c[i].pairs = 1 .. Len(c[i].pairs)
  BY Parsed
<1>2. \A x \in AskingIn(c, f) : x[1] \in Nat /\ x[2] \in Nat /\ x[2] >= 1
  BY Parsed DEF AskingIn
<1>3. \A x \in AskingIn(c, f) : x[1] = i => x[2] < Len(c[i].pairs) + 1
  BY <1>1 DEF AskingIn
<1>4. \A x \in AskingIn(c, f) :
        (x[1] < i + 1 \/ (x[1] = i + 1 /\ x[2] < 1))
          <=> (x[1] < i \/ (x[1] = i /\ x[2] < Len(c[i].pairs) + 1))
  BY <1>1, <1>2, <1>3
<1>5. Before(c, f, i + 1, 1) = Before(c, f, i, Len(c[i].pairs) + 1)
  BY <1>4 DEF Before
<1>. QED BY <1>5 DEF Holds

\* The last place of a set.
LEMMA LatestIs ==
  ASSUME NEW D \in SUBSET (Nat \X Nat), NEW i \in Nat, NEW j \in Nat,
         \A y \in D : y[1] < i \/ (y[1] = i /\ y[2] < j)
  PROVE Latest(D \cup {<<i, j>>}) = <<i, j>>
<1>. DEFINE E == D \cup {<<i, j>>}
            Top(x) == \A y \in E : y[1] < x[1] \/ (y[1] = x[1] /\ y[2] <= x[2])
<1>0. \A y \in D : y[1] \in Nat /\ y[2] \in Nat
  OBVIOUS
<1>1. <<i, j>> \in E /\ Top(<<i, j>>)
  BY DEF Top
<1>2. ASSUME NEW x \in E, Top(x) PROVE x = <<i, j>>
  <2>1. CASE x \in D
    <3>1. x[1] \in Nat /\ x[2] \in Nat
      BY <2>1
    <3>2. i < x[1] \/ (i = x[1] /\ j <= x[2])
      <4>1. <<i, j>>[1] = i /\ <<i, j>>[2] = j
        OBVIOUS
      <4>. QED BY <1>2, <4>1
    <3>. QED BY <1>0, <2>1, <3>1, <3>2
  <2>. QED BY <1>2, <2>1
<1>3. Latest(E) = CHOOSE x \in E : Top(x)
  BY DEF Latest
<1>. HIDE DEF E, Top
<1>4. (CHOOSE x \in E : Top(x)) \in E /\ Top(CHOOSE x \in E : Top(x))
  BY <1>1
<1>5. Latest(E) = <<i, j>>
  BY <1>2, <1>3, <1>4
<1>. QED BY <1>5 DEF E

\* One pair more.
LEMMA HoldsPair ==
  ASSUME NEW c \in Configs \ {NULL}, NEW f, NEW i \in DOMAIN c, c[i].name = Program,
         c[i].pairs # NULL, NEW j \in DOMAIN c[i].pairs
  PROVE Holds(c, f, i, j + 1) = IF Covers(c[i].pairs[j].path, f)
                                  THEN ModeValue(c[i].pairs[j].letters) ELSE Holds(c, f, i, j)
<1>1. i \in Nat /\ j \in Nat
  BY Parsed
<1>2. \A x \in AskingIn(c, f) : x[1] \in Nat /\ x[2] \in Nat /\ x = <<x[1], x[2]>>
  BY DEF AskingIn
<1>3. CASE Covers(c[i].pairs[j].path, f)
  <2>1. <<i, j>> \in AskingIn(c, f)
    BY <1>1, <1>3 DEF AskingIn
  <2>2. Before(c, f, i, j + 1) = Before(c, f, i, j) \cup {<<i, j>>}
    <3>1. \A x \in AskingIn(c, f) :
            (x[1] < i \/ (x[1] = i /\ x[2] < j + 1))
              <=> ((x[1] < i \/ (x[1] = i /\ x[2] < j)) \/ (x[1] = i /\ x[2] = j))
      BY <1>1, <1>2
    <3>2. \A x \in AskingIn(c, f) : (x[1] = i /\ x[2] = j) <=> x = <<i, j>>
      BY <1>2
    <3>. QED BY <2>1, <3>1, <3>2 DEF Before
  <2>3. Before(c, f, i, j) \in SUBSET (Nat \X Nat)
    BY DEF Before, AskingIn
  <2>4. \A y \in Before(c, f, i, j) : y[1] < i \/ (y[1] = i /\ y[2] < j)
    BY DEF Before
  <2>5. Latest(Before(c, f, i, j) \cup {<<i, j>>}) = <<i, j>>
    BY <1>1, <2>3, <2>4, LatestIs
  <2>. QED BY <1>3, <2>2, <2>5 DEF Holds, ValueOf
<1>4. CASE ~ Covers(c[i].pairs[j].path, f)
  <2>1. <<i, j>> \notin AskingIn(c, f)
    BY <1>4 DEF AskingIn
  <2>2. \A x \in AskingIn(c, f) : ~ (x[1] = i /\ x[2] = j)
    BY <1>2, <2>1
  <2>3. Before(c, f, i, j + 1) = Before(c, f, i, j)
    BY <1>1, <1>2, <2>2 DEF Before
  <2>. QED BY <1>4, <2>3 DEF Holds
<1>. QED BY <1>3, <1>4

-----------------------------------------------------------------------------
\* A name that begins with another.
LEMMA PrefixIs ==
  ASSUME NEW p \in Seq(STRING), NEW f \in Seq(STRING), IsPrefix(p, f)
  PROVE \E rest \in Seq(STRING) : f = p \o rest
<1>1. /\ Len(p) \in Nat /\ Len(f) \in Nat /\ Len(p) <= Len(f)
      /\ SubSeq(p, 1, Len(p)) = SubSeq(f, 1, Len(p))
  BY LenProperties DEF IsPrefix
<1>2. PICK l \in Nat : l = Len(p)
  BY <1>1
<1>3. PICK k \in Nat : Len(f) = l + k
  <2>1. Len(f) - l \in Nat /\ Len(f) = l + (Len(f) - l)
    BY <1>1, <1>2
  <2>. QED BY <2>1
<1>. DEFINE rest == [n \in 1 .. k |-> f[l + n]]
<1>4. \A n \in 1 .. (l + k) : f[n] \in STRING
  BY <1>3, ElementOfSeq
<1>5. rest \in Seq(STRING) /\ Len(rest) = k /\ \A n \in 1 .. k : rest[n] = f[l + n]
  <2>1. \A n \in 1 .. k : l + n \in 1 .. (l + k)
    BY <1>2
  <2>. QED BY <1>4, <2>1
<1>. HIDE DEF rest
<1>6. \A n \in 1 .. l : p[n] = f[n]
  <2>1. SubSeq(p, 1, l) = p
    BY <1>2, SubSeqFull
  <2>2. \A n \in 1 .. l : f[n] \in STRING
    BY <1>4
  <2>3. \A n \in 1 .. l - 1 + 1 : SubSeq(f, 1, l)[n] = f[1 + n - 1]
    BY <2>2, SubSeqProperties
  <2>4. \A n \in 1 .. l : n \in 1 .. l - 1 + 1 /\ 1 + n - 1 = n
    OBVIOUS
  <2>. QED BY <1>1, <1>2, <2>1, <2>3, <2>4
<1>7. /\ p \o rest \in Seq(STRING) /\ Len(p \o rest) = l + k
      /\ \A n \in 1 .. (l + k) : (p \o rest)[n] = IF n <= l THEN p[n] ELSE rest[n - l]
  <2>1. /\ p \o rest \in Seq(STRING) /\ Len(p \o rest) = Len(p) + Len(rest)
        /\ \A n \in 1 .. (Len(p) + Len(rest)) :
             (p \o rest)[n] = IF n <= Len(p) THEN p[n] ELSE rest[n - Len(p)]
    BY <1>5, ConcatProperties
  <2>. QED BY <1>2, <1>5, <2>1
<1>8. \A n \in 1 .. (l + k) : (p \o rest)[n] = f[n]
  <2>. SUFFICES ASSUME NEW n \in 1 .. (l + k) PROVE (p \o rest)[n] = f[n]
    OBVIOUS
  <2>1. CASE n <= l
    BY <1>6, <1>7, <2>1
  <2>2. CASE ~ (n <= l)
    <3>1. n - l \in 1 .. k /\ l + (n - l) = n
      BY <2>2
    <3>. QED BY <1>5, <1>7, <2>2, <3>1
  <2>. QED BY <2>1, <2>2
<1>9. f = p \o rest
  BY <1>3, <1>7, <1>8, SeqEqual
<1>. QED BY <1>5, <1>9

\* A name begins with what it was made from.
LEMMA PrefixOf ==
  ASSUME NEW p \in Seq(STRING), NEW rest \in Seq(STRING) PROVE IsPrefix(p, p \o rest)
<1>1. CASE rest = <<>>
  <2>1. p \o rest = p /\ Len(p) \in Nat
    BY <1>1, ConcatEmptySeq, LenProperties
  <2>. QED BY <2>1 DEF IsPrefix
<1>2. CASE rest # <<>>
  BY <1>2, Longer DEF IsStrictPrefix
<1>. QED BY <1>1, <1>2

\* What is behind the same name is the same.
LEMMA Cancel ==
  ASSUME NEW p \in Seq(STRING), NEW a \in Seq(STRING), NEW b \in Seq(STRING), p \o a = p \o b
  PROVE a = b
<1>1. PICK l \in Nat : l = Len(p)
  BY LenProperties
<1>2. PICK m \in Nat : m = Len(a)
  BY LenProperties
<1>3. PICK n \in Nat : n = Len(b)
  BY LenProperties
<1>4. /\ Len(p \o a) = l + m
      /\ \A k \in 1 .. (l + m) : (p \o a)[k] = IF k <= l THEN p[k] ELSE a[k - l]
  BY <1>1, <1>2, ConcatProperties
<1>5. /\ Len(p \o b) = l + n
      /\ \A k \in 1 .. (l + n) : (p \o b)[k] = IF k <= l THEN p[k] ELSE b[k - l]
  BY <1>1, <1>3, ConcatProperties
<1>6. m = n
  BY <1>4, <1>5
<1>7. ASSUME NEW k \in 1 .. m PROVE a[k] = b[k]
  <2>1. l + k \in 1 .. (l + m) /\ ~ (l + k <= l) /\ (l + k) - l = k
    OBVIOUS
  <2>. QED BY <1>4, <1>5, <1>6, <2>1
<1>. QED BY <1>2, <1>3, <1>6, <1>7, SeqEqual

\* The slash, as a sequence of pieces.
LEMMA SlashIs ==
  ASSUME NEW path \in Seq(STRING), NamesDirectory(path)
  PROVE Slash \in Seq(STRING) /\ Len(Slash) = 1 /\ Slash[1] = "/"
<1>1. path # <<>> /\ Last(path) = "/"
  BY DEF NamesDirectory
<1>2. <<Last(path)>> \in Seq(STRING)
  BY <1>1, FrontIs
<1>3. Slash = <<Last(path)>>
  BY <1>1 DEF Slash
<1>. QED BY <1>2, <1>3 DEF Slash

\* A name with a slash in it.
LEMMA SlashIn ==
  ASSUME Slash \in Seq(STRING), NEW a \in Seq(STRING), NEW b \in Seq(STRING)
  PROVE (a \o Slash) \o b \in Seq(STRING) /\ ~ Plain((a \o Slash) \o b)
<1>1. Slash \in Seq(STRING) /\ Len(Slash) = 1 /\ Slash[1] = "/"
  BY DEF Slash
<1>2. PICK l \in Nat : l = Len(a)
  BY LenProperties
<1>3. PICK k \in Nat : k = Len(b)
  BY LenProperties
<1>4. /\ a \o Slash \in Seq(STRING) /\ Len(a \o Slash) = l + 1
      /\ \A n \in 1 .. (l + 1) : (a \o Slash)[n] = IF n <= l THEN a[n] ELSE Slash[n - l]
  <2>1. /\ a \o Slash \in Seq(STRING) /\ Len(a \o Slash) = Len(a) + Len(Slash)
        /\ \A n \in 1 .. (Len(a) + Len(Slash)) :
             (a \o Slash)[n] = IF n <= Len(a) THEN a[n] ELSE Slash[n - Len(a)]
    BY <1>1, ConcatProperties
  <2>. QED BY <1>1, <1>2, <2>1
<1>5. (a \o Slash)[l + 1] = "/"
  <2>1. l + 1 \in 1 .. (l + 1) /\ ~ (l + 1 <= l) /\ (l + 1) - l = 1
    OBVIOUS
  <2>. QED BY <1>1, <1>4, <2>1
<1>. DEFINE s == a \o Slash
<1>. HIDE DEF s
<1>6. /\ s \o b \in Seq(STRING) /\ Len(s \o b) = (l + 1) + k
      /\ \A n \in 1 .. ((l + 1) + k) : (s \o b)[n] = IF n <= l + 1 THEN s[n] ELSE b[n - (l + 1)]
  <2>1. s \in Seq(STRING) /\ Len(s) = l + 1
    BY <1>4 DEF s
  <2>2. /\ s \o b \in Seq(STRING) /\ Len(s \o b) = Len(s) + Len(b)
        /\ \A n \in 1 .. (Len(s) + Len(b)) :
             (s \o b)[n] = IF n <= Len(s) THEN s[n] ELSE b[n - Len(s)]
    BY <2>1, ConcatProperties
  <2>. QED BY <1>3, <2>1, <2>2
<1>7. l + 1 \in DOMAIN (s \o b) /\ (s \o b)[l + 1] = "/"
  <2>1. l + 1 \in 1 .. ((l + 1) + k)
    OBVIOUS
  <2>2. DOMAIN (s \o b) = 1 .. ((l + 1) + k)
    BY <1>6, LenProperties
  <2>3. l + 1 <= l + 1
    OBVIOUS
  <2>4. s[l + 1] = "/"
    BY <1>5 DEF s
  <2>. QED BY <1>6, <2>1, <2>2, <2>3, <2>4
<1>. QED BY <1>6, <1>7 DEF Plain, ToSet, s

\* The name of a directory is that without its slash, and the slash.
LEMMA OpenedIs ==
  ASSUME NEW path \in Seq(STRING), NamesDirectory(path)
  PROVE Opened(path) \in Seq(STRING) /\ Opened(path) \o Slash = path
<1>1. path # <<>> /\ Last(path) = "/" /\ Opened(path) = Front(path)
  BY DEF NamesDirectory, Opened
<1>. QED BY <1>1, FrontIs DEF Slash

\* A file in a directory is an entry of it.
LEMMA Listed ==
  ASSUME NEW path \in Seq(STRING), NamesDirectory(path), Opened(path) \in Directories,
         NEW name \in Seq(STRING), name # <<>>, Plain(name), path \o name \in Files
  PROVE name \in Listing(Opened(path))
<1>. DEFINE dd == Opened(path)
            f == path \o name
<1>1. dd \in Seq(STRING) /\ dd \o Slash = path
  BY OpenedIs
<1>2. PICK l \in Nat : l = Len(dd)
  BY <1>1, LenProperties
<1>3. PICK k \in Nat \ {0} : k = Len(name)
  BY EmptySeq, LenProperties
<1>4. Len(path) = l + 1
  <2>1. Slash \in Seq(STRING) /\ Len(Slash) = 1
    BY SlashIs
  <2>. HIDE DEF dd
  <2>2. Len(dd \o Slash) = Len(dd) + Len(Slash)
    BY <1>1, <2>1, ConcatProperties
  <2>. QED BY <1>1, <1>2, <2>1, <2>2
<1>5. /\ f \in Seq(STRING) /\ Len(f) = (l + 1) + k
      /\ \A n \in 1 .. ((l + 1) + k) : f[n] = IF n <= l + 1 THEN path[n] ELSE name[n - (l + 1)]
  <2>1. /\ path \o name \in Seq(STRING) /\ Len(path \o name) = Len(path) + Len(name)
        /\ \A n \in 1 .. (Len(path) + Len(name)) :
             (path \o name)[n] = IF n <= Len(path) THEN path[n] ELSE name[n - Len(path)]
    BY ConcatProperties
  <2>. QED BY <1>3, <1>4, <2>1
<1>. HIDE DEF f, dd
<1>6. SubSeq(f, l + 2, (l + 1) + k) = name
  <2>1. \A n \in (l + 2) .. ((l + 1) + k) : f[n] \in STRING
    BY <1>5, ElementOfSeq
  <2>2. /\ SubSeq(f, l + 2, (l + 1) + k) \in Seq(STRING)
        /\ Len(SubSeq(f, l + 2, (l + 1) + k)) =
             IF l + 2 <= (l + 1) + k THEN ((l + 1) + k) - (l + 2) + 1 ELSE 0
        /\ \A n \in 1 .. ((l + 1) + k) - (l + 2) + 1 :
             SubSeq(f, l + 2, (l + 1) + k)[n] = f[(l + 2) + n - 1]
    BY <2>1, SubSeqProperties
  <2>3. Len(SubSeq(f, l + 2, (l + 1) + k)) = k
    BY <2>2
  <2>4. ASSUME NEW n \in 1 .. k PROVE SubSeq(f, l + 2, (l + 1) + k)[n] = name[n]
    <3>1. n \in 1 .. ((l + 1) + k) - (l + 2) + 1 /\ (l + 2) + n - 1 = (l + 1) + n
      OBVIOUS
    <3>2. /\ (l + 1) + n \in 1 .. ((l + 1) + k) /\ ~ ((l + 1) + n <= l + 1)
          /\ ((l + 1) + n) - (l + 1) = n
      OBVIOUS
    <3>. QED BY <1>5, <2>2, <3>1, <3>2
  <2>. QED BY <1>3, <2>2, <2>3, <2>4, SeqEqual
<1>7. f \in Files /\ dd \o Slash \o name = f
  BY <1>1 DEF f, dd
<1>8. name = SubSeq(f, Len(dd) + 2, Len(f))
  BY <1>2, <1>5, <1>6
<1>. QED BY <1>7, <1>8 DEF Listing, dd

-----------------------------------------------------------------------------
\* The calls of get_dir_content for one pair: the last in s is that for the directory the
\* pair names, the others are for directories below it.
Calls == Seq([path : Seq(STRING), left : SUBSET Seq(STRING)])
IsBelow(path, p) ==
  Opened(path) = path /\ \E rest \in Seq(STRING) : rest # <<>> /\ path = p \o rest
Chain(s, p) ==
  s # <<>> => Last(s).path = p /\ \A k \in 1 .. (Len(s) - 1) : IsBelow(s[k].path, p)

\* What putting a call on the stack gives.
LEMMA PushIs ==
  ASSUME NEW s \in Calls, NEW e \in [path : Seq(STRING), left : SUBSET Seq(STRING)]
  PROVE /\ <<e>> \o s # <<>> /\ Len(<<e>> \o s) = Len(s) + 1 /\ Len(s) \in Nat
        /\ (<<e>> \o s)[1] = e /\ \A k \in 1 .. Len(s) : (<<e>> \o s)[k + 1] = s[k]
        /\ Last(<<e>> \o s) = IF s = <<>> THEN e ELSE Last(s)
<1>. DEFINE T == [path : Seq(STRING), left : SUBSET Seq(STRING)]
<1>1. s \in Seq(T) /\ e \in T
  BY DEF Calls
<1>. HIDE DEF T
<1>2. PICK l \in Nat : l = Len(s)
  BY <1>1, LenProperties
<1>3. <<e>> \in Seq(T) /\ Len(<<e>>) = 1 /\ <<e>>[1] = e
  BY <1>1
<1>4. /\ Len(<<e>> \o s) = 1 + l /\ <<e>> \o s \in Seq(T)
      /\ \A k \in 1 .. (1 + l) : (<<e>> \o s)[k] = IF k <= 1 THEN <<e>>[k] ELSE s[k - 1]
  BY <1>1, <1>2, <1>3, ConcatProperties
<1>5. (<<e>> \o s)[1] = e
  BY <1>3, <1>4
<1>6. ASSUME NEW k \in 1 .. l PROVE (<<e>> \o s)[k + 1] = s[k]
  <2>1. k + 1 \in 1 .. (1 + l) /\ ~ (k + 1 <= 1) /\ (k + 1) - 1 = k
    OBVIOUS
  <2>. QED BY <1>4, <2>1
<1>7. Last(<<e>> \o s) = (<<e>> \o s)[l + 1]
  BY <1>4 DEF Last
<1>8. CASE s = <<>>
  BY <1>2, <1>4, <1>5, <1>6, <1>7, <1>8, EmptySeq
<1>9. CASE s # <<>>
  <2>1. l \in 1 .. l /\ Last(s) = s[l]
    BY <1>1, <1>2, <1>9, EmptySeq DEF Last
  <2>. QED BY <1>2, <1>4, <1>5, <1>6, <1>7, <1>9, <2>1, EmptySeq
<1>. QED BY <1>8, <1>9

\* A call of a directory below that of the pair goes on the stack, or the first call.
LEMMA ChainPush ==
  ASSUME NEW s \in Calls, NEW e \in [path : Seq(STRING), left : SUBSET Seq(STRING)], NEW p,
         Chain(s, p), IF s = <<>> THEN e.path = p ELSE IsBelow(e.path, p)
  PROVE Chain(<<e>> \o s, p)
<1>. DEFINE u == <<e>> \o s
<1>1. /\ u # <<>> /\ Len(u) = Len(s) + 1 /\ Len(s) \in Nat
      /\ u[1] = e /\ \A k \in 1 .. Len(s) : u[k + 1] = s[k]
      /\ Last(u) = IF s = <<>> THEN e ELSE Last(s)
  BY PushIs
<1>. HIDE DEF u
<1>2. Last(u).path = p
  BY <1>1 DEF Chain
<1>3. ASSUME NEW k \in 1 .. (Len(u) - 1) PROVE IsBelow(u[k].path, p)
  <2>1. k \in 1 .. Len(s) /\ s # <<>>
    BY <1>1, EmptySeq
  <2>2. CASE k = 1
    BY <1>1, <2>1, <2>2
  <2>3. CASE k # 1
    <3>1. k - 1 \in 1 .. Len(s) /\ (k - 1) + 1 = k /\ k - 1 \in 1 .. (Len(s) - 1)
      BY <1>1, <2>1, <2>3
    <3>2. u[k] = s[k - 1]
      BY <1>1, <3>1
    <3>. QED BY <2>1, <3>1, <3>2 DEF Chain
  <2>. QED BY <2>2, <2>3
<1>. QED BY <1>2, <1>3 DEF Chain, u

\* The call at the top returns.
LEMMA ChainTail ==
  ASSUME NEW s \in Calls, s # <<>>, NEW p, Chain(s, p)
  PROVE /\ Tail(s) \in Calls /\ Chain(Tail(s), p)
        /\ IF Tail(s) = <<>> THEN Last(s) = Head(s) /\ Head(s).path = p
                             ELSE Last(Tail(s)) = Last(s) /\ IsBelow(Head(s).path, p)
<1>. DEFINE T == [path : Seq(STRING), left : SUBSET Seq(STRING)]
            t == Tail(s)
<1>1. s \in Seq(T)
  BY DEF Calls
<1>. HIDE DEF T
<1>2. PICK l \in Nat \ {0} : l = Len(s)
  BY <1>1, EmptySeq
<1>3. /\ Head(s) = s[1] /\ t \in Seq(T) /\ Len(t) = l - 1
      /\ \A k \in 1 .. (l - 1) : t[k] = s[k + 1]
  BY <1>1, <1>2, HeadTailProperties
<1>. HIDE DEF t
<1>4. Last(s) = s[l] /\ Last(t) = t[l - 1]
  BY <1>2, <1>3 DEF Last
<1>5. CASE l = 1
  <2>1. t = <<>>
    BY <1>3, <1>5, EmptySeq
  <2>. QED BY <1>3, <1>4, <1>5, <2>1 DEF Chain, Calls, T, t
<1>6. CASE l # 1
  <2>1. t # <<>> /\ 1 \in 1 .. (l - 1) /\ l - 1 \in 1 .. (l - 1) /\ (l - 1) + 1 = l
    BY <1>2, <1>3, <1>6, EmptySeq
  <2>2. Last(t) = Last(s)
    BY <1>3, <1>4, <2>1
  <2>3. ASSUME NEW k \in 1 .. (Len(t) - 1) PROVE IsBelow(t[k].path, p)
    <3>1. k \in 1 .. (l - 1) /\ k + 1 \in 1 .. (l - 1)
      BY <1>2, <1>3
    <3>. QED BY <1>2, <1>3, <3>1 DEF Chain
  <2>4. IsBelow(Head(s).path, p)
    BY <1>2, <1>3, <2>1 DEF Chain
  <2>5. Chain(t, p)
    BY <2>2, <2>3 DEF Chain
  <2>. QED BY <1>3, <2>1, <2>2, <2>4, <2>5 DEF Calls, T, t
<1>. QED BY <1>5, <1>6

-----------------------------------------------------------------------------
\* The entries of the named directory that are still to be read.
Waiting(f) == stack # <<>> /\ \E name \in Last(stack).left : Pair.path \o name = f

\* The inner loop is at this pair, or will begin with the first.
Place == IF pc \in {"pair", "directory"} THEN at ELSE 1

\* The rules so far are those of the pairs so far, but for the files of the directory
\* that is being read: they have that of its pair once they are read.
RulesNow ==
  /\ pc = "read" => map = <<>>
  /\ pc \in {"pair", "directory"} => Matches(config[sec])
  /\ pc = "directory" => /\ Chain(stack, Pair.path)
                         /\ Pair.path = <<>> \/ NamesDirectory(Pair.path)
  /\ Running => \A f \in Files \ lost :
       Rule(f) = IF pc = "directory" /\ Covers(Pair.path, f) /\ ~ Waiting(f)
                   THEN ModeValue(Pair.letters) ELSE Holds(config, f, sec, Place)

\* Where the loops are.
LEMMA InSection ==
  ASSUME FlatUse, IInv, RulesNow, pc \in {"pair", "directory"}
  PROVE /\ config \in Configs \ {NULL} /\ sec \in DOMAIN config /\ sec \in Nat
        /\ config[sec].name = Program /\ config[sec].pairs = Pairs /\ Pairs # NULL
        /\ Len(Pairs) \in Nat /\ DOMAIN Pairs = 1 .. Len(Pairs) /\ at \in 1 .. (Len(Pairs) + 1)
<1>1. config \in Configs \ {NULL} /\ sec \in 1 .. Len(config) /\ Pairs # NULL
      /\ at \in 1 .. (Len(Pairs) + 1)
  BY DEF IInv, SectionsPassed, PairsPassed, Running
<1>2. sec \in DOMAIN config /\ Len(config) \in Nat
  BY <1>1, Parsed
<1>3. Len(Pairs) \in Nat /\ DOMAIN Pairs = 1 .. Len(Pairs)
  BY <1>1, <1>2, Parsed DEF Pairs
<1>4. Matches(config[sec])
  BY DEF RulesNow
<1>5. config[sec].name = Program
  BY <1>1, <1>2, <1>4 DEF FlatUse
<1>. QED BY <1>1, <1>2, <1>3, <1>5 DEF Pairs

\* The pair the inner loop is at.
LEMMA AtPair ==
  ASSUME FlatUse, IInv, RulesNow,
         pc = "directory" \/ (pc = "pair" /\ at <= Len(Pairs) /\ Pair # NULL)
  PROVE /\ at \in DOMAIN config[sec].pairs /\ at \in Nat /\ Pair = config[sec].pairs[at]
        /\ Pair # NULL /\ Pair.path \in Seq(STRING)
<1>1. /\ config \in Configs \ {NULL} /\ sec \in DOMAIN config /\ config[sec].pairs = Pairs
      /\ Pairs # NULL /\ Len(Pairs) \in Nat /\ DOMAIN Pairs = 1 .. Len(Pairs)
      /\ at \in 1 .. (Len(Pairs) + 1)
  BY InSection
<1>2. at \in DOMAIN Pairs /\ Pair # NULL
  BY <1>1 DEF IInv, PairsPassed, Pair
<1>3. IsPair(Pair)
  BY <1>1, <1>2, ConfigAssumption DEF Pair, Pairs
<1>. QED BY <1>1, <1>2, <1>3 DEF IsPair, Pair

\* What FlatUse says of the pair the loop is at.
LEMMA FlatPair ==
  ASSUME FlatUse, IInv, RulesNow,
         pc = "directory" \/ (pc = "pair" /\ at <= Len(Pairs) /\ Pair # NULL),
         NamesDirectory(Pair.path), NEW rest \in Seq(STRING), Pair.path \o rest \in Files
  PROVE Opened(Pair.path) \in Directories /\ rest # <<>> /\ Plain(rest)
<1>1. /\ config \in Configs \ {NULL} /\ sec \in DOMAIN config /\ config[sec].pairs # NULL
  BY InSection
<1>2. at \in DOMAIN config[sec].pairs /\ Pair = config[sec].pairs[at] /\ Pair # NULL
  BY AtPair
<1>. QED BY <1>1, <1>2 DEF FlatUse

\* The files a pair for a directory asks for are the entries of the directory.
LEMMA CoveredIs ==
  ASSUME FlatUse, IInv, RulesNow,
         pc = "directory" \/ (pc = "pair" /\ at <= Len(Pairs) /\ Pair # NULL),
         NamesDirectory(Pair.path), NEW f \in Files, Covers(Pair.path, f)
  PROVE /\ Opened(Pair.path) \in Directories
        /\ \E name \in Listing(Opened(Pair.path)) : f = Pair.path \o name
<1>1. Pair.path \in Seq(STRING) /\ f \in Seq(STRING)
  BY AtPair, TreeAssumption
<1>2. \E rest \in Seq(STRING) : f = Pair.path \o rest
  <2>1. CASE Pair.path = f
    <3>1. f = f \o <<>> /\ <<>> \in Seq(STRING)
      BY <1>1, ConcatEmptySeq
    <3>. QED BY <2>1, <3>1
  <2>2. CASE IsPrefix(Pair.path, f)
    BY <1>1, <2>2, PrefixIs
  <2>. QED BY <2>1, <2>2 DEF Covers
<1>3. PICK rest \in Seq(STRING) : f = Pair.path \o rest
  BY <1>2
<1>4. Opened(Pair.path) \in Directories /\ rest # <<>> /\ Plain(rest)
  BY <1>3, FlatPair
<1>5. rest \in Listing(Opened(Pair.path))
  BY <1>1, <1>3, <1>4, Listed
<1>. QED BY <1>3, <1>4, <1>5

\* hashmap_set changes the rule of its path and of no other file, or loses it.
LEMMA StoreRule ==
  ASSUME NEW path, Store(path), NEW f \in Files \ lost'
  PROVE IF f = path THEN Rule(f)' = ModeValue(Pair.letters)
                    ELSE f \notin lost /\ Rule(f)' = Rule(f)
BY DEF Store, Rule

\* A name of three parts.
LEMMA Joined ==
  \A a \in Seq(STRING), b \in Seq(STRING), c \in Seq(STRING) : (a \o b) \o c = a \o (b \o c)
BY ConcatAssociative

\* A step in the search of a directory: what is waited for, and what is stored.
LEMMA SearchStep ==
  ASSUME RulesNow, pc = "directory", UNCHANGED <<pc, config, sec, at>>,
         Chain(stack', Pair.path),
         \A f \in Files \ lost' :
           \/ f \notin lost /\ Rule(f)' = Rule(f)
              /\ (Covers(Pair.path, f) => Waiting(f)' = Waiting(f))
           \/ Covers(Pair.path, f) /\ ~ Waiting(f)' /\ Rule(f)' = ModeValue(Pair.letters)
  PROVE RulesNow'
<1>1. Pair' = Pair /\ Place' = Place /\ Running'
  BY DEF Pair, Pairs, Place, Running
<1>2. ASSUME NEW f \in Files \ lost'
      PROVE Rule(f)' = IF Covers(Pair.path, f) /\ ~ Waiting(f)'
                         THEN ModeValue(Pair.letters) ELSE Holds(config, f, sec, Place)
  <2>1. f \notin lost => Rule(f) = IF Covers(Pair.path, f) /\ ~ Waiting(f)
                                     THEN ModeValue(Pair.letters) ELSE Holds(config, f, sec, Place)
    BY DEF RulesNow, Running
  <2>. QED BY <2>1
<1>. QED BY <1>1, <1>2 DEF RulesNow

\* The call at the top of the stack, at an entry.
LEMMA AtEntry ==
  ASSUME FlatUse, IInv, Typed, RulesNow, pc = "directory", stack # <<>>
  PROVE /\ stack \in Calls /\ NamesDirectory(Pair.path) /\ Pair.path \in Seq(STRING)
        /\ Call \in [path : Seq(STRING), left : SUBSET Seq(STRING)]
        /\ Opened(Call.path) \in Directories /\ Call.left \subseteq Listing(Opened(Call.path))
        /\ \A name : [Call EXCEPT !.left = @ \ {name}]
                     = [path |-> Call.path, left |-> Call.left \ {name}]
<1>1. stack \in Calls /\ Chain(stack, Pair.path) /\ Pair.path \in Seq(STRING)
      /\ (Pair.path = <<>> \/ NamesDirectory(Pair.path))
  BY AtPair DEF RulesNow, Typed, Descends, Calls
<1>2. /\ Call = stack[1] /\ Opened(Call.path) \in Directories
      /\ Call.left \subseteq Listing(Opened(Call.path))
  BY Topmost DEF Typed
<1>. DEFINE T == [path : Seq(STRING), left : SUBSET Seq(STRING)]
<1>3. PICK l \in Nat \ {0} : l = Len(stack)
  BY <1>1, EmptySeq DEF Calls
<1>4. \A k \in 1 .. l : stack[k] \in T /\ Opened(stack[k].path) \in Directories
  BY <1>1, <1>3, ElementOfSeq DEF Typed, Descends, Calls
<1>5. 1 \in 1 .. l /\ l \in 1 .. l
  BY <1>3
<1>6. Call \in T
  BY <1>2, <1>4, <1>5
<1>7. Pair.path # <<>>
  <2>1. Last(stack).path = Pair.path /\ Last(stack) = stack[l]
    BY <1>1, <1>3 DEF Chain, Last
  <2>2. Opened(<<>>) = <<>>
    BY DEF Opened, NamesDirectory
  <2>. QED BY <1>4, <1>5, <2>1, <2>2 DEF FlatUse
<1>8. \A c \in T : \A left : [c EXCEPT !.left = left] = [path |-> c.path, left |-> left]
  OBVIOUS
<1>. QED BY <1>1, <1>2, <1>6, <1>7, <1>8 DEF T

\* The stack when the top has read the entry name.
LEMMA WithoutIs ==
  ASSUME FlatUse, IInv, Typed, RulesNow, pc = "directory", stack # <<>>, NEW name
  PROVE /\ Without(name) \in Calls /\ Without(name) # <<>> /\ Chain(Without(name), Pair.path)
        /\ IF Tail(stack) = <<>>
             THEN /\ Last(stack) = Call /\ Call.path = Pair.path
                  /\ Last(Without(name)).left = Call.left \ {name}
             ELSE Last(Without(name)) = Last(stack) /\ IsBelow(Call.path, Pair.path)
<1>. DEFINE e == [path |-> Call.path, left |-> Call.left \ {name}]
            t == Tail(stack)
<1>1. /\ stack \in Calls /\ Call \in [path : Seq(STRING), left : SUBSET Seq(STRING)]
      /\ [Call EXCEPT !.left = @ \ {name}] = e
  BY AtEntry
<1>2. e \in [path : Seq(STRING), left : SUBSET Seq(STRING)] /\ e.path = Call.path
      /\ e.left = Call.left \ {name}
  BY <1>1
<1>3. /\ t \in Calls /\ Chain(t, Pair.path)
      /\ IF t = <<>> THEN Last(stack) = Call /\ Call.path = Pair.path
                     ELSE Last(t) = Last(stack) /\ IsBelow(Call.path, Pair.path)
  <2>1. Chain(stack, Pair.path)
    BY DEF RulesNow
  <2>. QED BY <1>1, <2>1, ChainTail DEF Call
<1>4. Without(name) = <<e>> \o t
  BY <1>1 DEF Without
<1>. HIDE DEF e, t
<1>5. Chain(<<e>> \o t, Pair.path)
  BY <1>2, <1>3, ChainPush
<1>6. <<e>> \o t # <<>> /\ Last(<<e>> \o t) = IF t = <<>> THEN e ELSE Last(t)
  BY <1>2, <1>3, PushIs
<1>7. <<e>> \o t \in Calls
  BY <1>2, <1>3, ConcatProperties DEF Calls
<1>. QED BY <1>2, <1>3, <1>4, <1>5, <1>6, <1>7 DEF t

\* get_dir_content reads a file: the first call one of the named directory, others none.
LEMMA ReadFileRules ==
  ASSUME FlatUse, IInv, Typed, RulesNow, ReadFile PROVE RulesNow'
<1>1. pc = "directory" /\ stack # <<>> /\ UNCHANGED <<pc, config, sec, at>>
  BY DEF ReadFile
<1>2. PICK name \in Call.left :
        /\ Opened(Call.path) \o Slash \o name \in Files
        /\ Store(Call.path \o name) /\ stack' = Without(name)
  BY DEF ReadFile
<1>3. /\ NamesDirectory(Pair.path) /\ Pair.path \in Seq(STRING)
      /\ Call.path \in Seq(STRING) /\ Opened(Call.path) \in Directories
      /\ Call.left \subseteq Listing(Opened(Call.path))
  BY <1>1, AtEntry
<1>4. name \in Seq(STRING) /\ name # <<>> /\ Plain(name)
  BY <1>2, <1>3, ListingIs
<1>5. /\ Without(name) # <<>> /\ Chain(Without(name), Pair.path)
      /\ IF Tail(stack) = <<>>
           THEN /\ Last(stack) = Call /\ Call.path = Pair.path
                /\ Last(Without(name)).left = Call.left \ {name}
           ELSE IsBelow(Call.path, Pair.path)
  BY <1>1, WithoutIs
<1>6. Tail(stack) = <<>>
  <2>. SUFFICES ASSUME IsBelow(Call.path, Pair.path) PROVE FALSE
    BY <1>5
  <2>1. PICK rest \in Seq(STRING) : Call.path = Pair.path \o rest
    BY DEF IsBelow
  <2>2. Slash \in Seq(STRING)
    BY <1>3, SlashIs
  <2>3. (rest \o Slash) \o name \in Seq(STRING) /\ ~ Plain((rest \o Slash) \o name)
    BY <1>4, <2>2, SlashIn
  <2>4. Opened(Call.path) \o Slash \o name = Pair.path \o ((rest \o Slash) \o name)
    <3>1. Opened(Call.path) = Pair.path \o rest
      BY <2>1 DEF IsBelow
    <3>2. (Pair.path \o rest) \o Slash = Pair.path \o (rest \o Slash)
      BY <1>3, <2>2, Joined, ZenonT(30)
    <3>3. rest \o Slash \in Seq(STRING)
      BY <2>2, ConcatProperties
    <3>4. (Pair.path \o (rest \o Slash)) \o name = Pair.path \o ((rest \o Slash) \o name)
      BY <1>3, <1>4, <3>3, Joined, ZenonT(30)
    <3>. QED BY <3>1, <3>2, <3>4
  <2>. QED BY <1>1, <1>2, <1>3, <2>3, <2>4, FlatPair
<1>7. Call.path = Pair.path /\ Last(stack) = Call /\ Last(stack').left = Call.left \ {name}
      /\ stack' # <<>> /\ Chain(stack', Pair.path)
  BY <1>2, <1>5, <1>6
<1>8. Pair' = Pair
  BY <1>1 DEF Pair, Pairs
<1>9. ASSUME NEW f \in Files \ lost', f = Pair.path \o name
      PROVE Covers(Pair.path, f) /\ ~ Waiting(f)' /\ Rule(f)' = ModeValue(Pair.letters)
  <2>1. Rule(f)' = ModeValue(Pair.letters)
    BY <1>2, <1>7, <1>9, StoreRule
  <2>2. Covers(Pair.path, f)
    BY <1>3, <1>4, <1>9, PrefixOf DEF Covers
  <2>3. \A other \in Call.left \ {name} : Pair.path \o other # f
    <3>1. \A other \in Call.left : other \in Seq(STRING)
      BY <1>3, ListingIs
    <3>. QED BY <1>3, <1>4, <1>9, <3>1, Cancel
  <2>4. ~ Waiting(f)'
    BY <1>7, <1>8, <2>3 DEF Waiting
  <2>. QED BY <2>1, <2>2, <2>4
<1>10. ASSUME NEW f \in Files \ lost', f # Pair.path \o name
       PROVE f \notin lost /\ Rule(f)' = Rule(f) /\ Waiting(f)' = Waiting(f)
  <2>1. f \notin lost /\ Rule(f)' = Rule(f)
    BY <1>2, <1>7, <1>10, StoreRule
  <2>2. Waiting(f)' <=> Waiting(f)
    BY <1>1, <1>7, <1>8, <1>10 DEF Waiting
  <2>. QED BY <2>1, <2>2 DEF Waiting
<1>. QED BY <1>1, <1>7, <1>9, <1>10, SearchStep

\* get_dir_content reads a directory: no file waits for it.
LEMMA ReadDirectoryRules ==
  ASSUME FlatUse, IInv, Typed, RulesNow, ReadDirectory PROVE RulesNow'
<1>1. pc = "directory" /\ stack # <<>> /\ UNCHANGED <<pc, config, sec, at, map, lost>>
  BY DEF ReadDirectory
<1>2. PICK name \in Call.left :
        /\ Opened(Call.path) \o Slash \o name \in Directories
        /\ stack' = Enter(Call.path \o name, Without(name))
  BY DEF ReadDirectory
<1>3. /\ NamesDirectory(Pair.path) /\ Pair.path \in Seq(STRING)
      /\ Call.path \in Seq(STRING) /\ Opened(Call.path) \in Directories
      /\ Call.left \subseteq Listing(Opened(Call.path))
  BY <1>1, AtEntry
<1>4. name \in Seq(STRING) /\ name # <<>> /\ Plain(name) /\ name \in Listing(Opened(Call.path))
  BY <1>2, <1>3, ListingIs
<1>5. /\ Without(name) \in Calls /\ Without(name) # <<>> /\ Chain(Without(name), Pair.path)
      /\ IF Tail(stack) = <<>>
           THEN /\ Last(stack) = Call /\ Call.path = Pair.path
                /\ Last(Without(name)).left = Call.left \ {name}
           ELSE Last(Without(name)) = Last(stack) /\ IsBelow(Call.path, Pair.path)
  BY <1>1, WithoutIs
<1>6. Call.path \o name \in Seq(STRING) /\ IsBelow(Call.path \o name, Pair.path)
  <2>1. Call.path \o name \in Seq(STRING) /\ Opened(Call.path \o name) = Call.path \o name
    BY <1>3, <1>4, Below
  <2>2. CASE Call.path = Pair.path
    BY <1>4, <2>1, <2>2 DEF IsBelow
  <2>3. CASE IsBelow(Call.path, Pair.path)
    <3>1. PICK rest \in Seq(STRING) : rest # <<>> /\ Call.path = Pair.path \o rest
      BY <2>3 DEF IsBelow
    <3>2. Call.path \o name = Pair.path \o (rest \o name)
      <4>1. (Pair.path \o rest) \o name = Pair.path \o (rest \o name)
        BY <1>3, <1>4, Joined
      <4>. QED BY <3>1, <4>1
    <3>3. rest \o name \in Seq(STRING) /\ rest \o name # <<>>
      BY <1>4, Longer
    <3>. QED BY <2>1, <3>2, <3>3 DEF IsBelow
  <2>. QED BY <1>5, <2>2, <2>3
<1>7. stack' # <<>> /\ Chain(stack', Pair.path) /\ Last(stack') = Last(Without(name))
  <2>1. CASE Opened(Call.path \o name) \notin Directories
    BY <1>2, <1>5, <2>1 DEF Enter
  <2>2. CASE Opened(Call.path \o name) \in Directories
    <3>. DEFINE e == [path |-> Call.path \o name, left |-> Listing(Opened(Call.path \o name))]
    <3>1. stack' = <<e>> \o Without(name)
      BY <1>2, <2>2 DEF Enter
    <3>2. Listing(Opened(Call.path \o name)) \in SUBSET Seq(STRING)
      BY <2>2, ListingIs
    <3>3. e \in [path : Seq(STRING), left : SUBSET Seq(STRING)] /\ e.path = Call.path \o name
      BY <1>6, <3>2
    <3>. HIDE DEF e
    <3>4. Chain(<<e>> \o Without(name), Pair.path)
      BY <1>5, <1>6, <3>3, ChainPush
    <3>5. <<e>> \o Without(name) # <<>> /\ Last(<<e>> \o Without(name)) = Last(Without(name))
      BY <1>5, <3>3, PushIs
    <3>. QED BY <3>1, <3>4, <3>5
  <2>. QED BY <2>1, <2>2
<1>8. Pair' = Pair
  BY <1>1 DEF Pair, Pairs
<1>9. ASSUME NEW f \in Files PROVE Waiting(f)' = Waiting(f)
  <2>1. CASE Tail(stack) # <<>>
    BY <1>1, <1>5, <1>7, <1>8, <2>1 DEF Waiting
  <2>2. CASE Tail(stack) = <<>>
    <3>1. Pair.path \o name # f
      <4>1. Opened(Pair.path) \o Slash = Pair.path
        BY <1>3, OpenedIs
      <4>2. Pair.path \o name \in Directories
        BY <1>2, <1>5, <2>2, <4>1
      <4>. QED BY <4>2 DEF FlatUse
    <3>2. Last(stack').left = Last(stack).left \ {name}
      BY <1>5, <1>7, <2>2
    <3>. QED BY <1>1, <1>7, <1>8, <3>1, <3>2 DEF Waiting
  <2>. QED BY <2>1, <2>2
<1>10. \A f : Rule(f)' = Rule(f)
  BY <1>1 DEF Rule
<1>. QED BY <1>1, <1>7, <1>9, <1>10, SearchStep

\* A call of get_dir_content returns: it has read all it had to.
LEMMA CloseDirectoryRules ==
  ASSUME FlatUse, IInv, Typed, RulesNow, CloseDirectory PROVE RulesNow'
<1>1. pc = "directory" /\ stack # <<>> /\ Call.left = {} /\ stack' = Tail(stack)
      /\ UNCHANGED <<pc, config, sec, at, map, lost>>
  BY DEF CloseDirectory
<1>2. /\ Chain(Tail(stack), Pair.path)
      /\ IF Tail(stack) = <<>> THEN Last(stack) = Call ELSE Last(Tail(stack)) = Last(stack)
  <2>1. stack \in Calls /\ Chain(stack, Pair.path)
    BY <1>1, AtEntry DEF RulesNow
  <2>. QED BY <1>1, <2>1, ChainTail DEF Call
<1>3. Pair' = Pair
  BY <1>1 DEF Pair, Pairs
<1>4. ASSUME NEW f \in Files PROVE Waiting(f)' = Waiting(f)
  <2>1. CASE Tail(stack) = <<>>
    BY <1>1, <1>2, <2>1 DEF Waiting
  <2>2. CASE Tail(stack) # <<>>
    BY <1>1, <1>2, <1>3, <2>2 DEF Waiting
  <2>. QED BY <2>1, <2>2
<1>5. \A f : Rule(f)' = Rule(f)
  BY <1>1 DEF Rule
<1>. QED BY <1>1, <1>2, <1>4, <1>5, SearchStep

\* A pair for a file.
LEMMA FilePairRules ==
  ASSUME FlatUse, IInv, Typed, RulesNow, FilePair PROVE RulesNow'
<1>1. /\ pc = "pair" /\ at <= Len(Pairs) /\ Pair # NULL /\ ~ NamesDirectory(Pair.path)
      /\ Store(Pair.path) /\ at' = at + 1 /\ UNCHANGED <<pc, config, sec, stack>>
  BY DEF FilePair
<1>2. /\ config \in Configs \ {NULL} /\ sec \in DOMAIN config
      /\ config[sec].name = Program /\ config[sec].pairs # NULL
  BY <1>1, InSection
<1>3. at \in DOMAIN config[sec].pairs /\ Pair = config[sec].pairs[at]
  BY <1>1, AtPair
<1>4. ASSUME NEW f \in Files \ lost' PROVE Rule(f)' = Holds(config, f, sec, at + 1)
  <2>1. Holds(config, f, sec, at + 1) = IF Covers(Pair.path, f) THEN ModeValue(Pair.letters)
                                                                ELSE Holds(config, f, sec, at)
    BY <1>2, <1>3, HoldsPair
  <2>2. Covers(Pair.path, f) <=> f = Pair.path
    BY <1>1 DEF Covers
  <2>3. IF f = Pair.path THEN Rule(f)' = ModeValue(Pair.letters)
                         ELSE f \notin lost /\ Rule(f)' = Rule(f)
    BY <1>1, StoreRule
  <2>4. f \notin lost => Rule(f) = Holds(config, f, sec, at)
    BY <1>1 DEF RulesNow, Running, Place
  <2>. QED BY <2>1, <2>2, <2>3, <2>4
<1>. QED BY <1>1, <1>4 DEF RulesNow, Running, Place

\* A pair for a directory: all its files wait to be read.
LEMMA DirectoryPairRules ==
  ASSUME FlatUse, IInv, Typed, RulesNow, DirectoryPair PROVE RulesNow'
<1>1. /\ pc = "pair" /\ at <= Len(Pairs) /\ Pair # NULL
      /\ Pair.path = <<>> \/ NamesDirectory(Pair.path)
      /\ stack' = Enter(Pair.path, <<>>) /\ pc' = "directory"
      /\ UNCHANGED <<config, sec, at, map, lost>>
  BY DEF DirectoryPair
<1>2. Pair.path \in Seq(STRING) /\ Pair' = Pair
  BY <1>1, AtPair DEF Pair, Pairs
<1>. DEFINE e == [path |-> Pair.path, left |-> Listing(Opened(Pair.path))]
<1>3. CASE Opened(Pair.path) \notin Directories
  <2>1. stack' = <<>>
    BY <1>1, <1>3 DEF Enter
  <2>2. ASSUME NEW f \in Files PROVE ~ Covers(Pair.path, f)
    <3>1. CASE NamesDirectory(Pair.path)
      BY <1>1, <1>3, <3>1, CoveredIs
    <3>2. CASE ~ NamesDirectory(Pair.path)
      BY <1>1, <3>2 DEF Covers, FlatUse
    <3>. QED BY <3>1, <3>2
  <2>. QED BY <1>1, <1>2, <2>1, <2>2 DEF RulesNow, Running, Place, Chain, Rule
<1>4. CASE Opened(Pair.path) \in Directories
  <2>1. NamesDirectory(Pair.path)
    <3>1. Opened(<<>>) = <<>>
      BY DEF Opened, NamesDirectory
    <3>. QED BY <1>1, <1>4, <3>1 DEF FlatUse
  <2>2. stack' = <<e>> \o <<>>
    BY <1>1, <1>4 DEF Enter
  <2>3. e \in [path : Seq(STRING), left : SUBSET Seq(STRING)] /\ e.path = Pair.path
        /\ e.left = Listing(Opened(Pair.path))
    <3>1. Listing(Opened(Pair.path)) \in SUBSET Seq(STRING)
      BY <1>4, ListingIs
    <3>. QED BY <1>2, <3>1
  <2>. HIDE DEF e
  <2>4. <<>> \in Calls /\ Chain(<<>>, Pair.path)
    BY DEF Calls, Chain
  <2>5. stack' # <<>> /\ Last(stack') = e /\ Chain(stack', Pair.path)
    BY <2>2, <2>3, <2>4, PushIs, ChainPush
  <2>6. ASSUME NEW f \in Files, Covers(Pair.path, f) PROVE Waiting(f)'
    <3>1. \E name \in Listing(Opened(Pair.path)) : f = Pair.path \o name
      BY <1>1, <2>1, <2>6, CoveredIs
    <3>. QED BY <1>2, <2>3, <2>5, <3>1 DEF Waiting
  <2>. QED BY <1>1, <1>2, <2>5, <2>6 DEF RulesNow, Running, Place, Rule
<1>. QED BY <1>3, <1>4

\* The directory of a pair is read: all its files have the permission of the pair.
LEMMA EndPairRules ==
  ASSUME FlatUse, IInv, Typed, RulesNow, EndPair PROVE RulesNow'
<1>1. /\ pc = "directory" /\ stack = <<>> /\ at' = at + 1 /\ pc' = "pair"
      /\ UNCHANGED <<config, sec, stack, map, lost>>
  BY DEF EndPair
<1>2. /\ config \in Configs \ {NULL} /\ sec \in DOMAIN config
      /\ config[sec].name = Program /\ config[sec].pairs # NULL
  BY <1>1, InSection
<1>3. at \in DOMAIN config[sec].pairs /\ Pair = config[sec].pairs[at]
  BY <1>1, AtPair
<1>4. ASSUME NEW f \in Files \ lost PROVE Rule(f) = Holds(config, f, sec, at + 1)
  <2>1. Holds(config, f, sec, at + 1) = IF Covers(Pair.path, f) THEN ModeValue(Pair.letters)
                                                                ELSE Holds(config, f, sec, at)
    BY <1>2, <1>3, HoldsPair
  <2>2. ~ Waiting(f)
    BY <1>1 DEF Waiting
  <2>. QED BY <1>1, <2>1, <2>2 DEF RulesNow, Running, Place
<1>. QED BY <1>1, <1>4 DEF RulesNow, Running, Place, Rule

\* Every step of process_root.
LEMMA RulesNext ==
  ASSUME FlatUse, IInv, Typed, RulesNow, Load PROVE RulesNow'
<1>1. CASE ReadConfig
  <2>1. pc = "read" /\ sec = 1 /\ map = <<>> /\ UNCHANGED <<sec, map, lost>> /\ config' \in Configs
        /\ pc' = IF config' = NULL THEN "exited" ELSE "section"
    BY <1>1 DEF ReadConfig, IInv, SectionsPassed, RulesNow
  <2>2. CASE config' = NULL
    BY <2>1, <2>2 DEF RulesNow, Running
  <2>3. CASE config' # NULL
    <3>1. ASSUME NEW f PROVE Rule(f)' = NULL /\ Holds(config', f, 1, 1) = NULL
      <4>1. Rule(f)' = NULL
        BY <2>1 DEF Rule
      <4>. QED BY <2>1, <2>3, <4>1, HoldsNothing
    <3>. QED BY <2>1, <2>3, <3>1 DEF RulesNow, Running, Place
  <2>. QED BY <2>2, <2>3
<1>2. CASE SkipSection
  <2>1. /\ pc = "section" /\ sec <= Len(config) /\ ~ Matches(config[sec]) /\ sec' = sec + 1
        /\ UNCHANGED <<pc, config, map, lost>>
    BY <1>2 DEF SkipSection
  <2>2. config \in Configs \ {NULL} /\ sec \in DOMAIN config
    BY <2>1, Parsed DEF IInv, SectionsPassed, Running
  <2>3. config[sec].name # Program
    BY <2>1, <2>2 DEF FlatUse
  <2>4. \A f : Holds(config, f, sec + 1, 1) = Holds(config, f, sec, 1)
    BY <2>2, <2>3, HoldsSkipped
  <2>. QED BY <2>1, <2>4 DEF RulesNow, Running, Place, Rule
<1>3. CASE EnterSection
  BY <1>3 DEF EnterSection, RulesNow, Running, Place, Rule
<1>4. CASE EndSections
  BY <1>4 DEF EndSections, RulesNow, Running, Place, Rule
<1>5. CASE EndSection
  <2>1. /\ pc = "pair" /\ at > Len(Pairs) /\ sec' = sec + 1 /\ pc' = "section"
        /\ UNCHANGED <<config, map, lost>>
    BY <1>5 DEF EndSection
  <2>2. /\ config \in Configs \ {NULL} /\ sec \in DOMAIN config /\ config[sec].pairs # NULL
        /\ at = Len(config[sec].pairs) + 1
    BY <2>1, InSection
  <2>3. \A f : Holds(config, f, sec + 1, 1) = Holds(config, f, sec, at)
    BY <2>2, HoldsSection
  <2>. QED BY <2>1, <2>3 DEF RulesNow, Running, Place, Rule
<1>6. CASE BadPair
  BY <1>6 DEF BadPair, RulesNow, Running
<1>. QED BY <1>1, <1>2, <1>3, <1>4, <1>5, <1>6, FilePairRules, DirectoryPairRules, EndPairRules,
            ReadFileRules, ReadDirectoryRules, CloseDirectoryRules DEF Load

(***************************************************************************)
(* RulesAsAsked, for any configuration files and file system that are used *)
(* as FlatUse says: after process_root each file has the permission of the *)
(* last pair that names it or its directory, in any order that readdir     *)
(* gives the entries, except where hashmap_set failed last.                *)
(***************************************************************************)
THEOREM FlatRulesLoaded == ASSUME FlatUse PROVE AccessSpec => []RulesAsAsked
<1>1. AccessInit => IInv /\ Typed /\ RulesNow
  BY DEF AccessInit, Init, IInv, SectionsPassed, PairsPassed, Running, Typed, Descends, RulesNow
<1>2. IInv /\ Typed /\ RulesNow /\ [AccessNext]_accessvars => (Typed /\ RulesNow)'
  <2>. SUFFICES ASSUME IInv, Typed, RulesNow, [AccessNext]_accessvars PROVE Typed' /\ RulesNow'
    OBVIOUS
  <2>1. CASE Load
    BY <2>1, TypedNext, RulesNext
  <2>2. CASE UNCHANGED vars
    BY <2>2 DEF vars, Typed, RulesNow, Running, Rule, Place, Waiting, Pair, Pairs
  <2>. QED BY <2>1, <2>2 DEF AccessNext, FirstCall, SetUp, Chdir, Open, Quiet, accessvars
<1>3. IInv /\ RulesNow => RulesAsAsked
  <2>. SUFFICES ASSUME IInv, RulesNow, pc = "done", NEW f \in Files \ lost PROVE Rule(f) = Asked(f)
    BY DEF RulesAsAsked
  <2>1. config \in Configs \ {NULL} /\ sec = Len(config) + 1
    BY DEF IInv, SectionsPassed, Running
  <2>2. Rule(f) = Holds(config, f, Len(config) + 1, 1)
    BY <2>1 DEF RulesNow, Running, Place
  <2>. QED BY <2>1, <2>2, HoldsAll, AskedIs
<1>. QED BY <1>1, <1>2, <1>3, Invariance, PTL DEF AccessSpec
=====
