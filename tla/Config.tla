------------------------------- MODULE Config -------------------------------
(***************************************************************************)
(* ns_agent/config.c.  config_init reads config.json and fills the map of  *)
(* rules: one for each file that a section of the program names, or that   *)
(* the search of a named directory meets.                                  *)
(*                                                                         *)
(* A string is a sequence of pieces, "/" among them, and sprintf with      *)
(* "%s%s" concatenates: two pieces side by side make one name, which may   *)
(* be that of another file.  Paths fit into MAX_PATH.                      *)
(*                                                                         *)
(* Reading the file is one step, since nothing in it is shared; then a     *)
(* step is one round of a loop.  get_dir_content calls itself: stack holds *)
(* its calls, the innermost first.  Access starts the loader and uses what *)
(* it has loaded.                                                          *)
(***************************************************************************)
EXTENDS Naturals, SequencesExt

CONSTANTS Files, Directories,   \* of the file system, by their absolute names
          Configs,              \* what config.json may hold
          Program,              \* program_invocation_short_name
          NULL

\* A file that cannot be read or parsed is NULL; another is a sequence of sections.
\* A section has a name and pairs, a sequence or, if that is no array, NULL.  A pair
\* is NULL if it is no object; its path is <<>> without a PATH, and its letters are
\* none without an AUTHORITY.
Letter == {"R", "r", "W", "w", "F", "f"}
IsPair(p) == p = NULL \/ (p.path \in Seq(STRING) /\ p.letters \subseteq Letter)
IsSequence(s) == s \in Seq(ToSet(s))
ASSUME TreeAssumption == Files \cup Directories \subseteq Seq(STRING)
ASSUME ConfigAssumption ==
  \A c \in Configs \ {NULL} :
    /\ IsSequence(c)
    /\ \A i \in DOMAIN c : c[i].pairs # NULL =>
         /\ IsSequence(c[i].pairs)
         /\ \A j \in DOMAIN c[i].pairs : IsPair(c[i].pairs[j])

VARIABLES pc,       \* the loop config_init is in, or "done", or "exited"
          config,   \* the file, parsed
          sec, at,  \* i of process_root and i of process_array
          stack,    \* the calls of get_dir_content: path, and the entries to read
          map,      \* the rules
          lost      \* history: rules for which hashmap_set got no memory

vars == <<pc, config, sec, at, stack, map, lost>>

Slash == <<"/">>
Plain(name) == "/" \notin ToSet(name)
NamesDirectory(path) == path # <<>> /\ Last(path) = "/"

\* readdir of the directory d, without "." and "..".
Listing(d) ==
  {name \in {SubSeq(f, Len(d) + 2, Len(f)) : f \in Files \cup Directories} :
     name # <<>> /\ Plain(name) /\ d \o Slash \o name \in Files \cup Directories}

Init ==
  /\ pc = "read" /\ config = NULL
  /\ sec = 1 /\ at = 1 /\ stack = <<>>
  /\ map = <<>> /\ lost = {}

ReadConfig ==
  /\ pc = "read"
  /\ config' \in Configs
  /\ pc' = IF config' = NULL THEN "exited" ELSE "section"
  /\ UNCHANGED <<sec, at, stack, map, lost>>

-----------------------------------------------------------------------------
(* process_root, process_array and process_pair. *)

Bits == [R |-> {"R", "r"}, W |-> {"W", "w"}, F |-> {"F", "f"}]

\* get_mode_value
ModeValue(letters) == {b \in DOMAIN Bits : letters \cap Bits[b] # {}}

\* strstr(name, program_invocation_short_name)
Matches(s) == Program \in SubSeqs(s.name)

SkipSection ==
  /\ pc = "section" /\ sec <= Len(config) /\ ~Matches(config[sec])
  /\ sec' = sec + 1
  /\ UNCHANGED <<pc, config, at, stack, map, lost>>

\* exit(-1) if the section is no array.
EnterSection ==
  /\ pc = "section" /\ sec <= Len(config) /\ Matches(config[sec])
  /\ pc' = IF config[sec].pairs = NULL THEN "exited" ELSE "pair"
  /\ at' = 1
  /\ UNCHANGED <<config, sec, stack, map, lost>>

EndSections ==
  /\ pc = "section" /\ sec > Len(config)
  /\ pc' = "done"
  /\ UNCHANGED <<config, sec, at, stack, map, lost>>

Pairs == config[sec].pairs
Pair == Pairs[at]

\* Faulty variant of EndSection: goes through the same section again.
EndSectionStuck ==
  /\ pc = "pair" /\ at > Len(Pairs)
  /\ pc' = "section"
  /\ UNCHANGED <<config, sec, at, stack, map, lost>>

EndSection ==
  /\ pc = "pair" /\ at > Len(Pairs)
  /\ sec' = sec + 1
  /\ pc' = "section"
  /\ UNCHANGED <<config, at, stack, map, lost>>

\* Faulty variant of BadPair: goes on with the next.
BadPairSkipped ==
  /\ pc = "pair" /\ at <= Len(Pairs) /\ Pair = NULL
  /\ at' = at + 1
  /\ UNCHANGED <<pc, config, sec, stack, map, lost>>

\* A pair that is no object: exit(-1).
BadPair ==
  /\ pc = "pair" /\ at <= Len(Pairs) /\ Pair = NULL
  /\ pc' = "exited"
  /\ UNCHANGED <<config, sec, at, stack, map, lost>>

\* hashmap_set, whose failure nobody looks at.
Store(path) ==
  \/ /\ map' = [p \in DOMAIN map \cup {path} |->
                  IF p = path THEN ModeValue(Pair.letters) ELSE map[p]]
     /\ lost' = lost \ {path}
  \/ /\ lost' = lost \cup {path}
     /\ UNCHANGED map

\* A path without "/" at its end.
FilePair ==
  /\ pc = "pair" /\ at <= Len(Pairs) /\ Pair # NULL
  /\ ~NamesDirectory(Pair.path)
  /\ Store(Pair.path)
  /\ at' = at + 1
  /\ UNCHANGED <<pc, config, sec, stack>>

\* A directory that opendir finds, by its name with or without "/" at the end.
Opened(path) == IF NamesDirectory(path) THEN Front(path) ELSE path

\* get_dir_content(path) begins, on top of the calls in s.
Enter(path, s) ==
  IF Opened(path) \in Directories
    THEN <<[path |-> path, left |-> Listing(Opened(path))]>> \o s
    ELSE s

\* A path with "/" at its end.  Without a PATH the code looks at the byte before the
\* empty string, which may be a "/", and opendir("") fails.
DirectoryPair ==
  /\ pc = "pair" /\ at <= Len(Pairs) /\ Pair # NULL
  /\ Pair.path = <<>> \/ NamesDirectory(Pair.path)
  /\ stack' = Enter(Pair.path, <<>>)
  /\ pc' = "directory"
  /\ UNCHANGED <<config, sec, at, map, lost>>

\* Faulty variant of EndPair: passes by the next pair, too.
EndPairTwice ==
  /\ pc = "directory" /\ stack = <<>>
  /\ at' = at + 2
  /\ pc' = "pair"
  /\ UNCHANGED <<config, sec, stack, map, lost>>

EndPair ==
  /\ pc = "directory" /\ stack = <<>>
  /\ at' = at + 1
  /\ pc' = "pair"
  /\ UNCHANGED <<config, sec, stack, map, lost>>

-----------------------------------------------------------------------------
(* get_dir_content: the directory stream gives its entries in any order. *)

Call == Head(stack)
Without(name) == <<[Call EXCEPT !.left = @ \ {name}]>> \o Tail(stack)

\* Faulty variant of ReadFile: the name of the file without its directory.
ReadFileBare ==
  /\ pc = "directory" /\ stack # <<>>
  /\ \E name \in Call.left :
       /\ Opened(Call.path) \o Slash \o name \in Files
       /\ Store(name)
       /\ stack' = Without(name)
  /\ UNCHANGED <<pc, config, sec, at>>

ReadFile ==
  /\ pc = "directory" /\ stack # <<>>
  /\ \E name \in Call.left :
       /\ Opened(Call.path) \o Slash \o name \in Files
       /\ Store(Call.path \o name)
       /\ stack' = Without(name)
  /\ UNCHANGED <<pc, config, sec, at>>

ReadDirectory ==
  /\ pc = "directory" /\ stack # <<>>
  /\ \E name \in Call.left :
       /\ Opened(Call.path) \o Slash \o name \in Directories
       /\ stack' = Enter(Call.path \o name, Without(name))
  /\ UNCHANGED <<pc, config, sec, at, map, lost>>

CloseDirectory ==
  /\ pc = "directory" /\ stack # <<>> /\ Call.left = {}
  /\ stack' = Tail(stack)
  /\ UNCHANGED <<pc, config, sec, at, map, lost>>

-----------------------------------------------------------------------------
Load == \/ ReadConfig
        \/ SkipSection \/ EnterSection \/ EndSections
        \/ EndSection \/ BadPair \/ FilePair \/ DirectoryPair \/ EndPair
        \/ ReadFile \/ ReadDirectory \/ CloseDirectory
-----------------------------------------------------------------------------
(***************************************************************************)
(* Type invariant: the loops are inside the file, and the calls of         *)
(* get_dir_content go down the tree, each in a directory below the last.   *)
(***************************************************************************)
TypeOK ==
  /\ pc \in {"read", "section", "pair", "directory", "done", "exited"}
  /\ config \in Configs \cup {NULL}
  /\ pc \notin {"read", "exited"} => config # NULL /\ sec \in 1 .. (Len(config) + 1)
  /\ pc \in {"pair", "directory"} => at \in 1 .. (Len(Pairs) + 1)
  /\ \A c \in ToSet(stack) : /\ Opened(c.path) \in Directories
                             /\ c.left \subseteq Listing(Opened(c.path))
  /\ \A i \in 1 .. (Len(stack) - 1) :
       IsStrictPrefix(Opened(stack[i + 1].path), Opened(stack[i].path))
  /\ \A p \in DOMAIN map : map[p] \in SUBSET DOMAIN Bits

\* The pairs that ask for a permission of the file f, as the README has it: those of
\* the program's sections that name it, or a directory that it is in, with "/".
OwnSections == {i \in DOMAIN config : config[i].name = Program /\ config[i].pairs # NULL}
Asking(f) ==
  UNION {{<<i, j>> : j \in {j \in DOMAIN config[i].pairs :
                              LET path == config[i].pairs[j].path
                              IN  path = f \/ (NamesDirectory(path) /\ IsPrefix(path, f))}}
           : i \in OwnSections}

\* The permission asked for last, or NULL.
Asked(f) ==
  IF Asking(f) = {} THEN NULL
  ELSE LET x == CHOOSE x \in Asking(f) :
                  \A y \in Asking(f) : y[1] < x[1] \/ (y[1] = x[1] /\ y[2] <= x[2])
       IN  ModeValue(config[x[1]].pairs[x[2]].letters)

Rule(path) == IF path \in DOMAIN map THEN map[path] ELSE NULL

(***************************************************************************)
(* "files and directories are restricted in config.json (a directory ends  *)
(* with a slash)" (README.md:49), "a configuration file can hold the       *)
(* permissions of several programs" (README.md:53): when it is loaded,     *)
(* each file has the permission asked for last by the program's own        *)
(* sections, and none if they do not ask, unless memory ran out for it.    *)
(***************************************************************************)
RulesAsAsked == pc = "done" => \A f \in Files \ lost : Rule(f) = Asked(f)

(***************************************************************************)
(* The program never runs on a part of its rules: one of its sections that *)
(* is no array, or has a pair that is no object, ends it.                  *)
(***************************************************************************)
NothingSkipped ==
  pc = "done" => \A i \in DOMAIN config :
    Matches(config[i]) => config[i].pairs # NULL /\ NULL \notin ToSet(config[i].pairs)

(* config_init returns or exits: the recursion ends, and every loop moves on. *)
Loads == pc # "read" ~> pc \in {"done", "exited"}
=============================================================================
