------------------------------- MODULE Access -------------------------------
(***************************************************************************)
(* The program around the rules: from its working directory when the first *)
(* intercepted call sets the agent up (agent.c), through the loading of    *)
(* the rules (Config), to the names it opens (the start of                 *)
(* check_permission in check.c).  What the permission then allows is in    *)
(* Agent.                                                                  *)
(***************************************************************************)
EXTENDS Config

CONSTANTS Names,        \* the names that the program opens
          Bases,        \* the directories of openat, or AT_FDCWD
          AT_FDCWD

ASSUME NamesAssumption == \A name \in Names : name \in Seq(STRING) \ {<<>>}

VARIABLES dir,       \* the working directory of the program
          cwd,       \* the one that init_preload saved
          last       \* the last call: its name and the directory it was relative to,
                     \* the file opened and the permission found

Root == Slash
Workdirs == Directories \cup {Root}

outside == <<dir, last>>
accessvars == <<vars, outside, cwd>>

AccessInit ==
  /\ Init
  /\ dir \in Workdirs /\ cwd = NULL
  /\ last = NULL

\* The first intercepted call: init_preload saves getcwd, then loads the rules.
FirstCall ==
  /\ cwd = NULL
  /\ cwd' = dir
  /\ UNCHANGED <<vars, outside>>

SetUp == cwd # NULL /\ Load /\ UNCHANGED <<outside, cwd>>

\* chdir, before the first call or after the set-up.
Chdir ==
  /\ cwd = NULL \/ pc = "done"
  /\ dir' \in Workdirs
  /\ UNCHANGED <<vars, cwd, last>>

\* Faulty variant of Buffer: forgets the slash.
BufferJoined(name) == IF Plain(name) THEN cwd \o name ELSE name

\* What check_permission looks up.
Buffer(name) == IF Plain(name) THEN cwd \o Slash \o name ELSE name

\* What the system opens: a name relative to the directory base.
Opens(name, base) ==
  IF Head(name) = "/" THEN name
  ELSE (IF base = Root THEN Root ELSE base \o Slash) \o name

\* An intercepted call, once the agent is set up.
Open(name, base) ==
  /\ pc = "done"
  /\ LET from == IF base = AT_FDCWD THEN dir ELSE base IN
       last' = [name |-> name, from |-> from,
                file |-> Opens(name, from), permission |-> Rule(Buffer(name))]
  /\ UNCHANGED <<vars, cwd, dir>>

\* The program has exited in the set-up, or does nothing.
Quiet == pc \in {"done", "exited"} /\ UNCHANGED accessvars

AccessNext == \/ FirstCall \/ SetUp
              \/ Chdir \/ Quiet
              \/ \E name \in Names, base \in Bases : Open(name, base)

\* The loading goes on once it has begun; the program need not do anything.
AccessSpec == AccessInit /\ [][AccessNext]_accessvars /\ WF_accessvars(SetUp)
-----------------------------------------------------------------------------
(***************************************************************************)
(* "files and directories are restricted in config.json" (README.md:49):   *)
(* the permission that decides a call is that of the file it opens, if the *)
(* name is absolute, or is a single name relative to the directory that    *)
(* the program was in at its first call and that is not the root.  Of      *)
(* other names the code does not find the rule: it completes a single name *)
(* with that directory, whatever openat or chdir say, and no other.        *)
(***************************************************************************)
RightRuleInPlace ==
  last # NULL /\ \/ Head(last.name) = "/"
                 \/ Plain(last.name) /\ last.from = cwd /\ cwd # Root
    => last.permission = Rule(last.file)
=============================================================================
