------------------------------- MODULE NlUser --------------------------------
(***************************************************************************)
(* kernel_module/nluser.c: the rules that a run of nluser finds in         *)
(* config.json for the program it is called for.  Nothing but the run      *)
(* itself sees how it finds them; what it sends is what counts, and the    *)
(* order.  KernelModule sends them.                                        *)
(*                                                                         *)
(* A file is NULL if it cannot be read or parsed, or is no object; another *)
(* is a sequence of sections.  A section has a name, and pairs, or NULL if *)
(* that is no array.  A pair is NULL if it is no object; it has a path,    *)
(* and letters, or NULL without an AUTHORITY.                              *)
(***************************************************************************)
EXTENDS Naturals, SequencesExt

CONSTANTS Comm,      \* names of programs
          Path,      \* path names
          Slashed,   \* those that end with "/"
          SectionOf, \* the pairs <<name, comm>> of a section and a program it is for
          Entries,   \* readdir: what a directory has, as "file" and as the name made of it
          NULL

Letter == {"R", "r", "W", "w", "F", "f"}
Permissions == SUBSET {"R", "W", "F"}

\* No directory is met twice, as d_type of a link is not DT_DIR.  "%s%s" makes "path" of
\* the name of the directory and of that in it: what is meant if the first ends with "/".
Entry == [path : Path, file : Path, directory : BOOLEAN]
ASSUME EntriesAssumption ==
  /\ Slashed \subseteq Path /\ DOMAIN Entries \subseteq Path
  /\ \A d \in DOMAIN Entries : /\ Entries[d] \in Seq(Entry)
                               /\ d \in Slashed => \A i \in DOMAIN Entries[d] :
                                                    Entries[d][i].path = Entries[d][i].file

Bits == [R |-> {"R", "r"}, W |-> {"W", "w"}, F |-> {"F", "f"}]

\* get_mode_value
ModeValue(letters) == {b \in DOMAIN Bits : letters \cap Bits[b] # {}}

\* get_dir_content: the files below d, by the names that are sent.
FilesBelow[d \in Path] ==
  IF d \notin DOMAIN Entries THEN <<>>
  ELSE FlattenSeq([i \in DOMAIN Entries[d] |->
                     IF Entries[d][i].directory THEN FilesBelow[Entries[d][i].path]
                                                ELSE <<Entries[d][i].path>>])

\* The paths that a pair is for.
Named(path) == IF path \in Slashed THEN FilesBelow[path] ELSE <<path>>

\* Where the search is: user_t.permission, what it has sent, and whether nluser exits.
Run(permission, rules, exited) == [permission |-> permission, rules |-> rules, exited |-> exited]

Rule(path, permission) == [path |-> path, permission |-> permission]

\* Faulty variant of ProcessPair: adds the letters to the permission before.
ProcessPairAdds(run, pair) ==
  IF run.exited \/ pair = NULL THEN [run EXCEPT !.exited = TRUE]
  ELSE LET permission == run.permission \cup
                           (IF pair.letters = NULL THEN {} ELSE ModeValue(pair.letters))
           paths == Named(pair.path)
       IN  Run(permission, run.rules \o [i \in DOMAIN paths |-> Rule(paths[i], permission)], FALSE)

\* user_t.permission stays when there is no AUTHORITY.
ProcessPair(run, pair) ==
  IF run.exited \/ pair = NULL THEN [run EXCEPT !.exited = TRUE]
  ELSE LET permission == IF pair.letters = NULL THEN run.permission ELSE ModeValue(pair.letters)
           paths == Named(pair.path)
       IN  Run(permission, run.rules \o [i \in DOMAIN paths |-> Rule(paths[i], permission)], FALSE)

ProcessArray(run, section) ==
  IF run.exited \/ section.pairs = NULL THEN [run EXCEPT !.exited = TRUE]
  ELSE FoldLeft(LAMBDA r, pair : ProcessPair(r, pair), run, section.pairs)

\* json_process: every section whose name has that of the program in it.
ProcessSection(run, section, comm) ==
  IF <<section.name, comm>> \in SectionOf THEN ProcessArray(run, section) ELSE run

JsonProcess(file, comm) ==
  IF file = NULL THEN Run({}, <<>>, TRUE)
  ELSE FoldLeft(LAMBDA r, section : ProcessSection(r, section, comm), Run({}, <<>>, FALSE), file)

-----------------------------------------------------------------------------
(* What the file asks for, as RulesAsAsked of KernelModule reads it.  It   *)
(* is told by the files themselves, not by the names that are sent.        *)

\* The pairs for the program that come before the first that is malformed.
PairsFor(file, comm) ==
  LET PairsOf(section) == IF <<section.name, comm>> \notin SectionOf THEN <<>>
                          ELSE IF section.pairs = NULL THEN <<NULL>> ELSE section.pairs
      all == FlattenSeq([i \in DOMAIN file |-> PairsOf(file[i])])
      bad == {i \in DOMAIN all : all[i] = NULL}
  IN  IF file = NULL THEN <<>>
      ELSE IF bad = {} THEN all
      ELSE SubSeq(all, 1, (CHOOSE i \in bad : \A j \in bad : i <= j) - 1)

\* The real files below d, at any depth.
Members(d) == IF d \in DOMAIN Entries THEN ToSet(Entries[d]) ELSE {}
FilesIn[d \in Path] ==
  UNION {IF x.directory THEN FilesIn[x.file] ELSE {x.file} : x \in Members(d)}

\* A pair covers the path it names, or the files that are directly in the directory.
Covers(path, p) ==
  IF path \in Slashed THEN \E x \in Members(path) : ~ x.directory /\ x.file = p ELSE path = p

\* What is deeper in the directory: the files there, and the names that are made for them.
Deep(path) ==
  IF path \in Slashed
  THEN UNION {FilesIn[x.file] \cup ToSet(FilesBelow[x.path]) : x \in {x \in Members(path) : x.directory}}
  ELSE {}

\* The permission that a path should have, by the last pair that has to do with it; NULL is
\* for no claim: no pair has, or the last one has no AUTHORITY, or concerns it only as Deep.
Asked(file, comm) ==
  LET pairs == PairsFor(file, comm)
      About(p) == {i \in DOMAIN pairs : Covers(pairs[i].path, p) \/ p \in Deep(pairs[i].path)}
      Final(p) == pairs[CHOOSE i \in About(p) : \A j \in About(p) : j <= i]
  IN  [p \in Path |->
         IF About(p) # {} /\ Covers(Final(p).path, p) /\ Final(p).letters # NULL
         THEN ModeValue(Final(p).letters) ELSE NULL]
=============================================================================
