---------------------------- MODULE KernelModule ----------------------------
(***************************************************************************)
(* kernel_module: cnpv.c and check.c in the kernel, nluser.c outside.      *)
(* While the module is loaded, open and openat of the system call table    *)
(* lead to my_open and my_openat, which ask the rules when the program is  *)
(* the target.  nluser sends the rules, one netlink message each, and the  *)
(* commands that clear them or set the target; the handler of a message    *)
(* runs in the system call of its sender.                                  *)
(*                                                                         *)
(* Nothing is locked: processes in a hook, handlers and the loading and    *)
(* unloading of the module interleave.  A lookup that overlaps an update   *)
(* of the map, or a comparison that overlaps a strcpy to target, may have  *)
(* any result.  As in the kernel, an open netlink socket of a sender keeps *)
(* the module loaded, and there is none without it; a process in a hook    *)
(* does not keep it loaded.                                                *)
(***************************************************************************)
EXTENDS NlUser

CONSTANTS Process, Sender,   \* programs that open files; runs of nluser
          CommOf,            \* the name of the program of each process
          Absolute,          \* path names that begin with a slash
          Request,           \* calls: function, path and access mode
          Options,           \* argument lists of nluser: "-r", or a name for "-t"
          Files,             \* what config.json may hold
          DefaultTarget,     \* "mytest" of cnpv.c
          DefaultSection     \* "a.out" of nluser.c

Function == {"open", "openat"}
Mode == {"rdonly", "wronly", "rdwr", "accmode3"}

ASSUME CommAssumption == /\ CommOf \in [Process -> Comm]
                         /\ DefaultTarget \in Comm /\ DefaultSection \in Comm
ASSUME RequestAssumption ==
  Request \subseteq [fn : Function, path : Path, mode : Mode] /\ Absolute \subseteq Path
ASSUME OptionsAssumption == Options \subseteq Seq(Comm \cup {"-r"})
ASSUME FilesAssumption ==
  \A file \in Files \ {NULL} :
    /\ file \in Seq(Range(file))
    /\ \A i \in DOMAIN file :
         \/ file[i].pairs = NULL
         \/ file[i].pairs \in Seq({NULL} \cup [path : Path, letters : {NULL} \cup SUBSET Letter])
ASSUME NullAssumption ==
  /\ NULL \notin Comm \cup Path \cup Sender /\ NULL # "map"
  /\ NULL \notin [fn : Function, path : Path, mode : Mode, real : {NULL, "real", "hook"}]

VARIABLES phase,      \* of the module: "out", a step of cnpv_init, "live", of cnpv_exit
          hooking,    \* the entry that hook_init or hook_reset is at
          table,      \* the two entries: "real" or "hook"
          saved,      \* sys_open_ptr and sys_openat_ptr
          writable,   \* the page of the table
          map, target, mapuser_t,    \* globals of cnpv.c; map is NULL or "map"
          rules,      \* what the map holds: a permission or NULL for each path
          user_t,     \* the run of nluser whose message it points to
          pc, call,   \* of each process
          at, queue,  \* of each run of nluser: where, and the messages to send
          copying,    \* of each run: the name that strcpy copies to target
          sent,       \* history: the permissions last sent and stored
          asked,      \* history: those the file asks the run of nluser for
          created,    \* history: there was a map since the module was loaded
          fault       \* history: why the kernel killed a process, if it did

hooks == <<phase, hooking, table, saved, writable>>
globals == <<map, rules, target, user_t, mapuser_t>>
calls == <<pc, call, fault>>
senders == <<at, queue, copying>>
history == <<sent, asked, created>>
vars == <<hooks, globals, calls, senders, history>>

NoRules == [p \in Path |-> NULL]
Nothing == [path |-> NULL, permission |-> {}]

Init ==
  /\ phase = "out" /\ hooking = "open" /\ writable = FALSE
  /\ table = [f \in Function |-> "real"] /\ saved = [f \in Function |-> NULL]
  /\ map = NULL /\ rules = NoRules /\ target = DefaultTarget /\ user_t = NULL /\ mapuser_t = Nothing
  /\ pc = [p \in Process |-> "idle"] /\ call = [p \in Process |-> NULL]
  /\ at = [s \in Sender |-> "none"] /\ queue = [s \in Sender |-> <<>>]
  /\ copying = [s \in Sender |-> NULL]
  /\ sent = NoRules /\ asked = NoRules /\ created = FALSE
  /\ fault = [p \in Process |-> "none"]

-----------------------------------------------------------------------------
(* cnpv_init and cnpv_exit. *)

\* The module is loaded, with its variables as in the file, and listens.
Load ==
  /\ phase = "out"
  /\ phase' = "init"
  /\ map' = NULL /\ rules' = NoRules /\ target' = DefaultTarget /\ user_t' = NULL /\ mapuser_t' = Nothing
  /\ saved' = [f \in Function |-> NULL]
  /\ sent' = NoRules /\ asked' = NoRules /\ created' = FALSE
  /\ UNCHANGED <<hooking, table, writable, calls, senders>>

\* set_addr_rw
Unprotect ==
  /\ phase \in {"init", "exit"}
  /\ phase' = IF phase = "init" THEN "store" ELSE "recover"
  /\ writable' = TRUE
  /\ hooking' = "open"
  /\ UNCHANGED <<table, saved, globals, calls, senders, history>>

\* STORE_SYSCALLPTR
Store ==
  /\ phase = "store"
  /\ saved' = [saved EXCEPT ![hooking] = table[hooking]]
  /\ phase' = "replace"
  /\ UNCHANGED <<hooking, table, writable, globals, calls, senders, history>>

\* After the first entry the second, after that the end.
NextEntry(again, end) == IF hooking = "open" THEN hooking' = "openat" /\ phase' = again
                                             ELSE phase' = end /\ UNCHANGED hooking

\* REPLACE_SYSCALL
Replace ==
  /\ phase = "replace"
  /\ table' = [table EXCEPT ![hooking] = "hook"]
  /\ NextEntry("store", "protect_in")
  /\ UNCHANGED <<saved, writable, globals, calls, senders, history>>

\* rmmod, while nobody has a netlink socket of the module.
Unload ==
  /\ phase = "live" /\ \A s \in Sender : at[s] = "none"
  /\ phase' = "exit"
  /\ UNCHANGED <<hooking, table, saved, writable, globals, calls, senders, history>>

\* Faulty variant of Recover: only the first entry.
RecoverFirst ==
  /\ phase = "recover"
  /\ table' = [table EXCEPT !["open"] = saved["open"]]
  /\ phase' = "protect_out"
  /\ UNCHANGED <<hooking, saved, writable, globals, calls, senders, history>>

\* RECOVER_SYSCALLPTR
Recover ==
  /\ phase = "recover"
  /\ table' = [table EXCEPT ![hooking] = saved[hooking]]
  /\ NextEntry("recover", "protect_out")
  /\ UNCHANGED <<saved, writable, globals, calls, senders, history>>

InHook(p) == pc[p] \in {"entered", "check", "pass", "refuse"}

\* set_addr_ro; then the module is live, or its code is gone, also under a process.
Protect ==
  /\ phase \in {"protect_in", "protect_out"}
  /\ writable' = FALSE
  /\ phase' = IF phase = "protect_in" THEN "live" ELSE "out"
  /\ LET lost == {p \in Process : phase = "protect_out" /\ InHook(p)} IN
       /\ pc' = [p \in Process |-> IF p \in lost THEN "dead" ELSE pc[p]]
       /\ fault' = [p \in Process |-> IF p \in lost THEN "module gone" ELSE fault[p]]
       /\ call' = [p \in Process |-> IF p \in lost THEN NULL ELSE call[p]]
  /\ UNCHANGED <<hooking, table, saved, globals, senders, history>>

-----------------------------------------------------------------------------
(* my_open and my_openat, with check_permission. *)

Go(p, label) == pc' = [pc EXCEPT ![p] = label]
Leave(p, label) == Go(p, label) /\ call' = [call EXCEPT ![p] = NULL]
Die(p, why) == Leave(p, "dead") /\ fault' = [fault EXCEPT ![p] = why]

\* A call that the table leads to a hook, which reads the saved pointer first.
Enter(p) ==
  /\ pc[p] = "idle"
  /\ \E r \in Request :
       /\ table[r.fn] = "hook"
       /\ call' = [call EXCEPT ![p] = [fn |-> r.fn, path |-> r.path, mode |-> r.mode,
                                       real |-> saved[r.fn]]]
  /\ Go(p, "entered")
  /\ UNCHANGED <<hooks, globals, fault, senders, history>>

\* my_openat looks at absolute names only.
Watches(r) == r.fn = "open" \/ r.path \in Absolute

\* strcmp(current->comm, target)
Compare(p) ==
  /\ pc[p] = "entered"
  /\ \/ Watches(call[p]) /\ target \in {CommOf[p], NULL} /\ Go(p, "check")
     \/ ~(Watches(call[p]) /\ target = CommOf[p]) /\ Go(p, "pass")
  /\ UNCHANGED <<hooks, globals, call, fault, senders, history>>

Needs == [m \in {"rdonly", "wronly", "rdwr"} |->
            CASE m = "rdonly" -> {"R"}
              [] m = "wronly" -> {"W"}
              [] m = "rdwr"   -> {"R", "W"}]

\* check_permission: unlike in ns_agent, the fourth mode is allowed.
Allowed(permission, mode) ==
  \/ permission = NULL
  \/ "F" \notin permission /\ (mode \in DOMAIN Needs => Needs[mode] \subseteq permission)

\* A handler is in the middle of hashmap_set or hashmap_clear.
Updating == \E s \in Sender : at[s] \in {"setting", "clearing"}

\* hashmap_get without a map reads at address 0.
Check(p) ==
  /\ pc[p] = "check"
  /\ IF map = NULL
       THEN Die(p, IF created THEN "rules gone" ELSE "no rules yet")
       ELSE /\ \E permission \in Permissions \cup {NULL} :
                 /\ Updating \/ permission = rules[call[p].path]
                 /\ Go(p, IF Allowed(permission, call[p].mode) THEN "pass" ELSE "refuse")
            /\ UNCHANGED <<call, fault>>
  /\ UNCHANGED <<hooks, globals, senders, history>>

\* The saved function, or -1.
Return(p) ==
  /\ pc[p] \in {"pass", "refuse"}
  /\ IF pc[p] = "pass" /\ call[p].real # "real"
       THEN Die(p, "no function")
       ELSE Leave(p, "idle") /\ UNCHANGED fault
  /\ UNCHANGED <<hooks, globals, senders, history>>

-----------------------------------------------------------------------------
(* main of nluser.c: "-t" sends a command and names the section, "-r"      *)
(* sends one and ends; then the pairs of the section are sent.             *)

Message(type, comm, path, permission) ==
  [type |-> type, comm |-> comm, path |-> path, permission |-> permission]
Clear == Message("clear", NULL, NULL, {})
SetTarget(comm) == Message("target", comm, NULL, {})

\* The commands up to the first "-r", then the pairs unless there is one.
Resets(options) == {i \in DOMAIN options : options[i] = "-r"}
Section(options) == IF options = <<>> THEN DefaultSection ELSE Last(options)

Messages(options, file) ==
  LET resets == Resets(options)
      last == IF resets = {} THEN Len(options) ELSE CHOOSE i \in resets : \A j \in resets : i <= j
      found == JsonProcess(file, Section(options)).rules
  IN  [i \in 1 .. last |-> IF options[i] = "-r" THEN Clear ELSE SetTarget(options[i])]
        \o IF resets # {} THEN <<>>
           ELSE [i \in DOMAIN found |-> Message("rule", NULL, found[i].path, found[i].permission)]

Move(s, label) == at' = [at EXCEPT ![s] = label]

\* netlink_init finds the module, and keeps it loaded.
Start(s) ==
  /\ at[s] = "none" /\ phase \notin {"out", "exit", "recover", "protect_out"}
  /\ \E options \in Options, file \in Files :
       /\ queue' = [queue EXCEPT ![s] = Messages(options, file)]
       /\ asked' = IF Resets(options) # {} THEN NoRules ELSE Asked(file, Section(options))
  /\ Move(s, "ready")
  /\ UNCHANGED <<hooks, globals, calls, copying, sent, created>>

\* No message is left, or nluser stops early: the file is wrong, or it is killed.
Stop(s) ==
  /\ at[s] = "ready"
  /\ Move(s, "none")
  /\ queue' = [queue EXCEPT ![s] = <<>>]
  /\ asked' = NoRules
  /\ UNCHANGED <<hooks, globals, calls, copying, sent, created>>

-----------------------------------------------------------------------------
(* sendmsg calls hello_nl_recv_msg. *)

Handling(s) == at[s] \notin {"none", "ready"}
Own(s) == Head(queue[s])

\* *user_t: once its handler has returned, the message is freed and may be any.
Pointed == IF Handling(user_t) THEN {Own(user_t)}
                               ELSE UNION {Range(Messages(options, file)) : options \in Options, file \in Files}

Send(s) ==
  /\ at[s] = "ready" /\ queue[s] # <<>>
  /\ user_t' = s
  /\ Move(s, "test")
  /\ UNCHANGED <<hooks, map, rules, target, mapuser_t, calls, queue, copying, history>>

\* if (map == NULL)
TestMap(s) ==
  /\ at[s] = "test"
  /\ Move(s, IF map = NULL THEN "create" ELSE "switch")
  /\ UNCHANGED <<hooks, globals, calls, queue, copying, history>>

\* hashmap_new, with memory for a map or without.
CreateMap(s) ==
  /\ at[s] = "create"
  /\ \/ map' = "map" /\ rules' = NoRules /\ created' = TRUE /\ sent' = NoRules
     \/ map' = NULL /\ UNCHANGED <<rules, created, sent>>
  /\ Move(s, "switch")
  /\ UNCHANGED <<hooks, target, user_t, mapuser_t, calls, queue, copying, asked>>

\* Faulty variant of Switch: what is not "clear" sets the target.
SwitchUntested(s) ==
  /\ at[s] = "switch"
  /\ \E m \in Pointed :
       \/ m.type = "clear" /\ Move(s, "clearing") /\ UNCHANGED <<target, copying>>
       \/ /\ m.type # "clear" /\ Move(s, "targeting")
          /\ target' = NULL /\ copying' = [copying EXCEPT ![s] = m.comm]
  /\ UNCHANGED <<hooks, map, rules, user_t, mapuser_t, calls, queue, history>>

\* switch (user_t->type); the target is being overwritten from now on.
Switch(s) ==
  /\ at[s] = "switch"
  /\ \E m \in Pointed :
       \/ m.type = "rule" /\ Move(s, "path") /\ UNCHANGED <<target, copying>>
       \/ m.type = "clear" /\ Move(s, "clearing") /\ UNCHANGED <<target, copying>>
       \/ /\ m.type = "target" /\ Move(s, "targeting")
          /\ target' = NULL /\ copying' = [copying EXCEPT ![s] = m.comm]
  /\ UNCHANGED <<hooks, map, rules, user_t, mapuser_t, calls, queue, history>>

CopyPath(s) ==
  /\ at[s] = "path"
  /\ \E m \in Pointed : mapuser_t' = [mapuser_t EXCEPT !.path = m.path]
  /\ Move(s, "permission")
  /\ UNCHANGED <<hooks, map, rules, target, user_t, calls, queue, copying, history>>

\* Faulty variant of CopyPermission: adds to the permission of the last rule.
CopyPermissionOr(s) ==
  /\ at[s] = "permission"
  /\ \E m \in Pointed :
       mapuser_t' = [mapuser_t EXCEPT !.permission = @ \cup m.permission]
  /\ Move(s, "setting")
  /\ UNCHANGED <<hooks, map, rules, target, user_t, calls, queue, copying, history>>

CopyPermission(s) ==
  /\ at[s] = "permission"
  /\ \E m \in Pointed : mapuser_t' = [mapuser_t EXCEPT !.permission = m.permission]
  /\ Move(s, "setting")
  /\ UNCHANGED <<hooks, map, rules, target, user_t, calls, queue, copying, history>>

\* Faulty variant of Handled: sends the message again.
HandledAgain(s) == Move(s, "ready") /\ UNCHANGED queue

\* The handler returns, whether its reply is sent or not.
Handled(s) == /\ Move(s, "ready")
              /\ queue' = [queue EXCEPT ![s] = Tail(@)]

\* hashmap_set and hashmap_clear without a map: the kernel kills nluser.
Killed(s) == map = NULL /\ Move(s, "none") /\ queue' = [queue EXCEPT ![s] = <<>>]

\* hashmap_set returns, with the rule stored or without memory for it.
SetRule(s) ==
  /\ at[s] = "setting"
  /\ \/ Killed(s) /\ UNCHANGED <<rules, sent, asked>>
     \/ /\ map # NULL /\ Handled(s)
        /\ rules' = [rules EXCEPT ![mapuser_t.path] = mapuser_t.permission]
        /\ sent' = [sent EXCEPT ![Own(s).path] = Own(s).permission]
        /\ UNCHANGED asked
     \/ /\ map # NULL /\ Handled(s)
        /\ asked' = [asked EXCEPT ![Own(s).path] = NULL]
        /\ UNCHANGED <<rules, sent>>
  /\ UNCHANGED <<hooks, map, target, user_t, mapuser_t, calls, copying, created>>

\* Faulty variant of ClearRules: frees the map.
ClearFreed(s) ==
  /\ at[s] = "clearing"
  /\ \/ Killed(s) /\ UNCHANGED <<map, rules, sent>>
     \/ map # NULL /\ Handled(s) /\ map' = NULL /\ rules' = NoRules /\ sent' = NoRules
  /\ UNCHANGED <<hooks, target, user_t, mapuser_t, calls, copying, asked, created>>

\* hashmap_clear returns.
ClearRules(s) ==
  /\ at[s] = "clearing"
  /\ \/ Killed(s) /\ UNCHANGED <<rules, sent>>
     \/ map # NULL /\ Handled(s) /\ rules' = NoRules /\ sent' = NoRules
  /\ UNCHANGED <<hooks, map, target, user_t, mapuser_t, calls, copying, asked, created>>

\* strcpy returns.
Retarget(s) ==
  /\ at[s] = "targeting"
  /\ target' = copying[s] /\ copying' = [copying EXCEPT ![s] = NULL]
  /\ Handled(s)
  /\ UNCHANGED <<hooks, map, rules, user_t, mapuser_t, calls, history>>

-----------------------------------------------------------------------------
Hooking == Unprotect \/ Store \/ Replace \/ Recover \/ Protect
Hooked(p) == Compare(p) \/ Check(p) \/ Return(p)
Handle(s) == \/ Send(s) \/ TestMap(s) \/ CreateMap(s) \/ Switch(s)
             \/ CopyPath(s) \/ CopyPermission(s)
             \/ SetRule(s) \/ ClearRules(s) \/ Retarget(s)

Next == \/ Load \/ Unload \/ Hooking
        \/ \E p \in Process : Enter(p) \/ Hooked(p)
        \/ \E s \in Sender : Start(s) \/ Stop(s) \/ Handle(s)

\* What has begun goes on; calls, nluser and rmmod need not happen.
Fairness == /\ WF_vars(Hooking)
            /\ \A p \in Process : WF_vars(Hooked(p))
            /\ \A s \in Sender : WF_vars(Handle(s)) /\ WF_vars(Stop(s) /\ queue[s] = <<>>)
Spec == Init /\ [][Next]_vars /\ Fairness
-----------------------------------------------------------------------------
Phase == {"out", "init", "store", "replace", "protect_in", "live", "exit", "recover",
          "protect_out"}

(* Type invariant; a process is dead exactly if the kernel killed it. *)
TypeOK ==
  /\ phase \in Phase /\ hooking \in Function /\ writable \in BOOLEAN
  /\ table \in [Function -> {"real", "hook"}]
  /\ saved \in [Function -> {NULL, "real", "hook"}]
  /\ map \in {NULL, "map"}
  /\ target \in Comm \cup {NULL} /\ user_t \in Sender \cup {NULL}
  /\ mapuser_t.path \in Path \cup {NULL} /\ mapuser_t.permission \in Permissions
  /\ \A p \in Process : /\ pc[p] \in {"idle", "dead"} \/ InHook(p)
                        /\ pc[p] = "dead" <=> fault[p] # "none"
                        /\ call[p] # NULL <=> InHook(p)
  /\ \A s \in Sender : /\ Handling(s) => queue[s] # <<>>
                       /\ at[s] = "targeting" <=> copying[s] # NULL
  /\ {rules, sent, asked} \subseteq [Path -> Permissions \cup {NULL}] /\ created \in BOOLEAN

(***************************************************************************)
(* At every step of loading and unloading, and after any number of them, a *)
(* hook in the table has the real function saved behind it; when the       *)
(* module is live both calls are hooked, when it is out none is, and       *)
(* either way the table is write-protected.                                *)
(***************************************************************************)
HooksPaired ==
  /\ \A f \in Function : table[f] = "hook" => saved[f] = "real"
  /\ phase = "live" => table = [f \in Function |-> "hook"]
  /\ phase = "out" => table = [f \in Function |-> "real"]
  /\ phase \in {"live", "out"} => ~writable

(***************************************************************************)
(* A process in a hook is killed for two reasons only: it is checked       *)
(* before there was a map, or the module is unloaded under it.  Neither    *)
(* clearing the rules nor a new target nor a call that began while the     *)
(* table was being changed kills it.                                       *)
(***************************************************************************)
FaultsKnown ==
  \A p \in Process : fault[p] \in {"none", "no rules yet", "module gone"}

(***************************************************************************)
(* "files and directories are restricted in config.json" (README.md:49):   *)
(* the rules in the kernel are what was sent since the last "-r", except   *)
(* for what there was no memory for, each path with its own permission.    *)
(***************************************************************************)
RulesAsSent == map # NULL => rules = sent

(***************************************************************************)
(* When a run of nluser has sent everything, the rules of the kernel are   *)
(* those the file asks for: each file has the permission of the last pair  *)
(* that names it, or the directory, with its slash, that it is directly in *)
(* (README.md:49).  Nothing is claimed of a file below a subdirectory, for *)
(* which another name is sent (nluser.c:85, 94), nor of that name, nor by  *)
(* a pair without an AUTHORITY, which sends the permission of the pair     *)
(* before (nluser.c:118), until a later pair covers the path.  A path for  *)
(* which there was no memory is left out, and what comes after a malformed *)
(* section or pair.                                                        *)
(***************************************************************************)
RulesAsAsked ==
  \A s \in Sender : (at[s] = "ready" /\ queue[s] = <<>> /\ map # NULL) =>
                     \A p \in Path : asked[p] \in {NULL, rules[p]}

(* nluser ends: every message it sends is handled, and none is sent for ever. *)
NluserEnds == \A s \in Sender : at[s] # "none" ~> at[s] = "none"
=============================================================================
