---------------------------- MODULE KernelProofs -----------------------------
(***************************************************************************)
(* The safety of the kernel module for any number of processes, any names, *)
(* calls and files.  What it does with the table is safe whoever sends     *)
(* rules.  The rules and the reasons of a fault are right only if one run  *)
(* of nluser goes on at a time: Alone.  That the rules are those the file  *)
(* asks for needs what the search in the file computes: the two FoldLefts  *)
(* of NlUser are unfolded into steps, and each step keeps that the rules   *)
(* found so far follow from the pairs looked at so far (Follows), by the   *)
(* names that are sent; what the file asks for, by the files there are, is *)
(* compared with that in ClaimIsSent.  The files below a directory are     *)
(* found if the tree is no deeper than some bound: Shallow.                *)
(***************************************************************************)
EXTENDS KernelModule, SequenceTheorems, WellFoundedInduction, TLAPS

\* One run of nluser goes on at a time.
Alone == \A s, t \in Sender : s = t

\* The table at each point of cnpv_init and cnpv_exit.
TableSteps ==
  /\ phase \in Phase /\ hooking \in Function
  /\ table \in [Function -> {"real", "hook"}]
  /\ saved \in [Function -> {NULL, "real", "hook"}]
  /\ phase \in {"out", "init", "protect_out"} => \A f \in Function : table[f] = "real"
  /\ phase \in {"out", "live"} => ~writable
  /\ phase \in {"store", "replace"} =>
       /\ table["openat"] = "real"
       /\ IF hooking = "open" THEN table["open"] = "real"
                              ELSE table["open"] = "hook" /\ saved["open"] = "real"
  /\ phase = "replace" => saved[hooking] = "real"
  /\ phase \in {"protect_in", "live", "exit"} => \A f \in Function : table[f] = "hook"
  /\ phase = "recover" => /\ table["openat"] = "hook"
                          /\ table["open"] = IF hooking = "open" THEN "hook" ELSE "real"
  /\ phase \in {"protect_in", "live", "exit", "recover"} => \A f \in Function : saved[f] = "real"

LEMMA TableStepsInit == Init => TableSteps
BY DEF Init, TableSteps, Phase, Function

LEMMA TableStepsNext == TableSteps /\ [Next]_vars => TableSteps'
<1>. SUFFICES ASSUME TableSteps, [Next]_vars PROVE TableSteps'
  OBVIOUS
<1>. USE DEF TableSteps, Phase, Function
<1>1. CASE Load
  BY <1>1 DEF Load
<1>2. CASE Unload
  BY <1>2 DEF Unload
<1>3. CASE Unprotect
  BY <1>3 DEF Unprotect
<1>4. CASE Store
  BY <1>4 DEF Store
<1>5. CASE Replace
  BY <1>5 DEF Replace, NextEntry
<1>6. CASE Recover
  BY <1>6 DEF Recover, NextEntry
<1>7. CASE Protect
  BY <1>7 DEF Protect
<1>8. CASE UNCHANGED hooks
  BY <1>8 DEF hooks
<1>9. ASSUME NEW p \in Process, Enter(p) \/ Hooked(p) PROVE UNCHANGED hooks
  BY <1>9 DEF Enter, Hooked, Compare, Check, Return
<1>10. ASSUME NEW s \in Sender, Start(s) \/ Stop(s) \/ Handle(s) PROVE UNCHANGED hooks
  BY <1>10 DEF Start, Stop, Handle, Send, TestMap, CreateMap, Switch, CopyPath, CopyPermission,
               SetRule, ClearRules, Retarget
<1>11. UNCHANGED vars => UNCHANGED hooks
  BY DEF vars
<1>12. QED BY <1>1, <1>2, <1>3, <1>4, <1>5, <1>6, <1>7, <1>8, <1>9, <1>10, <1>11 DEF Next, Hooking

LEMMA TableStepsPaired == TableSteps => HooksPaired
BY DEF TableSteps, HooksPaired, Phase, Function

(***************************************************************************)
(* However often the module is loaded and unloaded, and whoever calls or   *)
(* sends meanwhile, an entry that leads to a hook has the real function    *)
(* saved behind it, and no entry leads into a module that is gone.         *)
(***************************************************************************)
THEOREM TableSafe == Spec => []HooksPaired
<1>1. Spec => []TableSteps
  BY TableStepsInit, TableStepsNext, PTL DEF Spec
<1>2. QED BY <1>1, TableStepsPaired, PTL

-----------------------------------------------------------------------------
\* A process in a hook has the real function, and was not killed for want of one.
CallsReal ==
  /\ pc = [p \in Process |-> pc[p]] /\ call = [p \in Process |-> call[p]]
  /\ fault = [p \in Process |-> fault[p]]
  /\ \A p \in Process : InHook(p) => call[p].real = "real"
  /\ FaultsKnown

\* What the handler of the one run of nluser has done at each point.
HandlerSteps ==
  /\ at = [s \in Sender |-> at[s]]
  /\ phase \in {"out", "exit", "recover", "protect_out"} => \A s \in Sender : at[s] = "none"
  /\ created => map # NULL
  /\ \A s \in Sender :
       /\ Handling(s) => user_t = s
       /\ at[s] = "create" => map = NULL
       /\ at[s] \in {"permission", "setting"} => mapuser_t.path = Own(s).path
       /\ at[s] = "setting" => mapuser_t.permission = Own(s).permission
  /\ mapuser_t = [path |-> mapuser_t.path, permission |-> mapuser_t.permission]

LEMMA HandlerInit == Init => HandlerSteps /\ RulesAsSent
BY DEF Init, HandlerSteps, RulesAsSent, Handling, Nothing

LEMMA HandlerNext ==
  ASSUME Alone, HandlerSteps, [Next]_vars
  PROVE  HandlerSteps'
<1>. USE DEF HandlerSteps, Handling, Own, Move
<1>1. CASE Load
  BY <1>1 DEF Load, senders, calls, Nothing
<1>2. CASE Unload
  BY <1>2 DEF Unload, globals, senders, history
<1>3. CASE Hooking
  <2>1. UNCHANGED <<globals, senders, history>>
    BY <1>3 DEF Hooking, Unprotect, Store, Replace, Recover, Protect
  <2>2. phase' \in {"out", "exit", "recover", "protect_out"}
          => phase \in {"out", "exit", "recover", "protect_out"}
    BY <1>3 DEF Hooking, Unprotect, Store, Replace, Recover, Protect, NextEntry
  <2>3. QED BY <2>1, <2>2 DEF globals, senders, history
<1>4. ASSUME NEW p \in Process, Enter(p) \/ Hooked(p) PROVE HandlerSteps'
  <2>1. UNCHANGED <<hooks, globals, senders, history>>
    BY <1>4 DEF Enter, Hooked, Compare, Check, Return
  <2>2. QED BY <2>1 DEF hooks, globals, senders, history
<1>5. ASSUME NEW s \in Sender, Start(s) PROVE HandlerSteps'
  BY <1>5 DEF Start, hooks, globals
<1>6. ASSUME NEW s \in Sender, Stop(s) PROVE HandlerSteps'
  BY <1>6 DEF Stop, hooks, globals
<1>7. ASSUME NEW s \in Sender, Handle(s) PROVE HandlerSteps'
  <2>1. CASE Send(s)
    BY <1>7, <2>1 DEF Alone, Send, hooks, history
  <2>2. CASE TestMap(s)
    BY <1>7, <2>2 DEF Alone, TestMap, hooks, globals, history
  <2>3. CASE CreateMap(s)
    BY <1>7, <2>3, NullAssumption DEF Alone, CreateMap, hooks
  <2>4. CASE Switch(s)
    BY <1>7, <2>4 DEF Alone, Switch, hooks, history
  <2>5. CASE CopyPath(s)
    BY <1>7, <2>5 DEF Alone, CopyPath, Pointed, hooks, history
  <2>6. CASE CopyPermission(s)
    BY <1>7, <2>6 DEF Alone, CopyPermission, Pointed, hooks, history
  <2>7. CASE SetRule(s)
    BY <1>7, <2>7 DEF Alone, SetRule, Killed, Handled, hooks
  <2>8. CASE ClearRules(s)
    BY <1>7, <2>8 DEF Alone, ClearRules, Killed, Handled, hooks
  <2>9. CASE Retarget(s)
    BY <1>7, <2>9 DEF Alone, Retarget, Handled, hooks, history
  <2>10. QED BY <1>7, <2>1, <2>2, <2>3, <2>4, <2>5, <2>6, <2>7, <2>8, <2>9 DEF Handle
<1>8. CASE UNCHANGED vars
  BY <1>8 DEF vars, hooks, globals, senders, history
<1>9. QED BY <1>1, <1>2, <1>3, <1>4, <1>5, <1>6, <1>7, <1>8 DEF Next

LEMMA RulesAsSentNext ==
  ASSUME HandlerSteps, RulesAsSent, [Next]_vars
  PROVE  RulesAsSent'
<1>. USE DEF RulesAsSent
<1>1. CASE Load
  BY <1>1 DEF Load
<1>2. CASE Unload \/ Hooking
  BY <1>2 DEF Unload, Hooking, Unprotect, Store, Replace, Recover, Protect, globals, history
<1>3. ASSUME NEW p \in Process, Enter(p) \/ Hooked(p) PROVE RulesAsSent'
  BY <1>3 DEF Enter, Hooked, Compare, Check, Return, globals, history
<1>4. ASSUME NEW s \in Sender, Start(s) \/ Stop(s) PROVE RulesAsSent'
  BY <1>4 DEF Start, Stop, globals
<1>5. ASSUME NEW s \in Sender, Handle(s) PROVE RulesAsSent'
  <2>1. CASE SetRule(s)
    BY <1>5, <2>1 DEF SetRule, Killed, HandlerSteps
  <2>2. CASE ClearRules(s)
    BY <1>5, <2>2 DEF ClearRules, Killed
  <2>3. CASE CreateMap(s)
    BY <1>5, <2>3 DEF CreateMap
  <2>4. CASE Send(s) \/ TestMap(s) \/ Switch(s) \/ CopyPath(s) \/ CopyPermission(s) \/ Retarget(s)
    BY <1>5, <2>4 DEF Send, TestMap, Switch, CopyPath, CopyPermission, Retarget, globals, history
  <2>5. QED BY <1>5, <2>1, <2>2, <2>3, <2>4 DEF Handle
<1>6. CASE UNCHANGED vars
  BY <1>6 DEF vars, globals, history
<1>7. QED BY <1>1, <1>2, <1>3, <1>4, <1>5, <1>6 DEF Next

(***************************************************************************)
(* As long as one run of nluser goes on at a time, the kernel has exactly  *)
(* the rules that were sent since it got a map or was cleared, each with   *)
(* its own permission: the message that the handler points to is its own,  *)
(* and the global it copies it to is not touched until the rule is stored. *)
(***************************************************************************)
THEOREM SentIsStored == ASSUME Alone PROVE Spec => []RulesAsSent
<1>1. Init => TableSteps /\ HandlerSteps /\ RulesAsSent
  BY TableStepsInit, HandlerInit
<1>2. TableSteps /\ HandlerSteps /\ RulesAsSent /\ [Next]_vars
        => (TableSteps /\ HandlerSteps /\ RulesAsSent)'
  BY TableStepsNext, HandlerNext, RulesAsSentNext
<1>3. QED BY <1>1, <1>2, PTL DEF Spec

LEMMA CallsRealNext ==
  ASSUME TableSteps, HandlerSteps, CallsReal, [Next]_vars
  PROVE  CallsReal'
<1>. USE DEF CallsReal, FaultsKnown, InHook
<1>1. CASE Load \/ Unload \/ Unprotect \/ Store \/ Replace \/ Recover
  BY <1>1 DEF Load, Unload, Unprotect, Store, Replace, Recover, calls
<1>2. CASE Protect
  BY <1>2 DEF Protect
<1>3. ASSUME NEW p \in Process, Enter(p) PROVE CallsReal'
  <2>1. PICK r \in Request :
          /\ table[r.fn] = "hook"
          /\ call' = [call EXCEPT ![p] = [fn |-> r.fn, path |-> r.path, mode |-> r.mode,
                                          real |-> saved[r.fn]]]
    BY <1>3 DEF Enter
  <2>2. r.fn \in Function
    BY RequestAssumption
  <2>3. saved[r.fn] = "real"
    BY <2>1, <2>2, TableStepsPaired DEF HooksPaired
  <2>4. QED BY <1>3, <2>1, <2>3 DEF Enter, Go
<1>4. ASSUME NEW p \in Process, Compare(p) PROVE CallsReal'
  BY <1>4 DEF Compare, Go
<1>5. ASSUME NEW p \in Process, Check(p) PROVE CallsReal'
  BY <1>5, ZenonT(30) DEF Check, Go, Die, Leave, HandlerSteps
<1>6. ASSUME NEW p \in Process, Return(p) PROVE CallsReal'
  BY <1>6 DEF Return, Go, Die, Leave
<1>7. ASSUME NEW s \in Sender, Start(s) \/ Stop(s) \/ Handle(s) PROVE CallsReal'
  BY <1>7 DEF Start, Stop, Handle, Send, TestMap, CreateMap, Switch, CopyPath, CopyPermission,
              SetRule, ClearRules, Retarget, calls
<1>8. CASE UNCHANGED vars
  BY <1>8 DEF vars, calls
<1>9. QED BY <1>1, <1>2, <1>3, <1>4, <1>5, <1>6, <1>7, <1>8 DEF Next, Hooking, Hooked

(***************************************************************************)
(* As long as one run of nluser goes on at a time, a process in a hook is  *)
(* killed for two reasons only: there is no map yet, or the module is gone.*)
(* A map that was there once does not go away, and what the hook returns   *)
(* to is never empty, also for a call that begins while the table changes. *)
(***************************************************************************)
THEOREM FaultsBounded == ASSUME Alone PROVE Spec => []FaultsKnown
<1>1. Init => TableSteps /\ HandlerSteps /\ CallsReal
  <2>1. Init => CallsReal
    BY DEF Init, CallsReal, FaultsKnown, InHook
  <2>2. QED BY <2>1, TableStepsInit, HandlerInit
<1>2. TableSteps /\ HandlerSteps /\ CallsReal /\ [Next]_vars
        => (TableSteps /\ HandlerSteps /\ CallsReal)'
  BY TableStepsNext, HandlerNext, CallsRealNext
<1>3. CallsReal => FaultsKnown
  BY DEF CallsReal
<1>4. QED BY <1>1, <1>2, <1>3, PTL DEF Spec

-----------------------------------------------------------------------------
\* A set of numbers has a least one: for inductions over a sequence.
LEMMA Least ==
  ASSUME NEW S \in SUBSET Nat, S # {}
  PROVE \E m \in S : \A n \in S : m <= n
<1>1. IsWellFoundedOn(OpToRel(<, Nat), Nat)
  BY NatLessThanWellFounded
<1>2. PICK m \in S : \A n \in S : <<n, m>> \notin OpToRel(<, Nat)
  BY <1>1, WFMin
<1>3. \A n \in S : ~ (n < m)
  BY <1>2 DEF OpToRel
<1>. QED BY <1>3

\* A set of numbers that goes on from 0 to L.
LEMMA Upward ==
  ASSUME NEW L \in Nat, NEW S, 0 \in S, \A n \in 0 .. (L - 1) : n \in S => n + 1 \in S
  PROVE \A n \in 0 .. L : n \in S
<1>. DEFINE Bad == {n \in 0 .. L : n \notin S}
<1>1. SUFFICES ASSUME Bad # {} PROVE FALSE
  OBVIOUS
<1>2. PICK m \in Bad : \A n \in Bad : m <= n
  <2>1. Bad \in SUBSET Nat
    OBVIOUS
  <2>. HIDE DEF Bad
  <2>. QED BY <1>1, <2>1, Least
<1>3. m # 0 /\ m - 1 \in 0 .. (L - 1) /\ m - 1 \in 0 .. L /\ (m - 1) + 1 = m
  OBVIOUS
<1>4. m - 1 \in S
  BY <1>2, <1>3
<1>. QED BY <1>3, <1>4

-----------------------------------------------------------------------------
\* The two loops: over the pairs of a section, and over the sections.
Step(loop, comm, run, x) ==
  IF loop = "pairs" THEN ProcessPair(run, x) ELSE ProcessSection(run, x, comm)

\* What FoldLeft computes: the run after the elements in S.
FoldEq(h, loop, comm, run, s, D) ==
  h = [S \in SUBSET D |-> IF S = {} THEN run
                          ELSE Step(loop, comm, h[S \ {Max(S)}], s[Max(S)])]

\* The greatest element of a set, as FoldLeft takes it.
LEMMA MaxIs ==
  ASSUME NEW n \in Nat, NEW S, n \in S, \A m \in S : m \in Nat /\ m <= n
  PROVE Max(S) = n
<1>1. \A y \in S : n >= y
  OBVIOUS
<1>2. \A x \in S : (\A y \in S : x >= y) => x = n
  OBVIOUS
<1>. QED BY <1>1, <1>2 DEF Max

\* There is a function as FoldLeft chooses one, whatever the steps are.
LEMMA FoldExists ==
  ASSUME NEW loop, NEW comm, NEW run, NEW s, NEW L \in Nat
  PROVE \E h : FoldEq(h, loop, comm, run, s, 1 .. L)
<1>. DEFINE Part(n) == \E h : FoldEq(h, loop, comm, run, s, 1 .. n)
            S == {n \in 0 .. L : Part(n)}
<1>1. Part(0)
  <2>. DEFINE h == [T \in SUBSET (1 .. 0) |-> run]
  <2>1. \A T \in SUBSET (1 .. 0) : T = {}
    OBVIOUS
  <2>2. FoldEq(h, loop, comm, run, s, 1 .. 0)
    BY <2>1 DEF FoldEq
  <2>. QED BY <2>2
<1>2. ASSUME NEW n \in Nat, Part(n) PROVE Part(n + 1)
  <2>1. PICK h : FoldEq(h, loop, comm, run, s, 1 .. n)
    BY <1>2
  <2>. DEFINE k == [T \in SUBSET (1 .. (n + 1)) |->
                      IF n + 1 \in T THEN Step(loop, comm, h[T \ {n + 1}], s[n + 1]) ELSE h[T]]
              K(T) == IF T = {} THEN run ELSE Step(loop, comm, k[T \ {Max(T)}], s[Max(T)])
  <2>2. \A T \in SUBSET (1 .. n) : k[T] = h[T]
    OBVIOUS
  <2>3. ASSUME NEW T \in SUBSET (1 .. (n + 1)) PROVE k[T] = K(T)
    <3>1. CASE n + 1 \in T
      <4>1. Max(T) = n + 1
        <5>1. n + 1 \in Nat /\ \A m \in T : m \in Nat /\ m <= n + 1
          OBVIOUS
        <5>. QED BY <3>1, <5>1, MaxIs
      <4>2. T \ {n + 1} \in SUBSET (1 .. n)
        OBVIOUS
      <4>3. k[T \ {n + 1}] = h[T \ {n + 1}]
        BY <2>2, <4>2
      <4>4. k[T] = Step(loop, comm, h[T \ {n + 1}], s[n + 1])
        BY <3>1
      <4>. HIDE DEF k
      <4>. QED BY <3>1, <4>1, <4>3, <4>4
    <3>2. CASE n + 1 \notin T
      <4>0. T \in SUBSET (1 .. n)
        BY <3>2
      <4>1. T \in SUBSET (1 .. n) /\ T \ {Max(T)} \in SUBSET (1 .. n)
        BY <4>0
      <4>2. k[T] = h[T] /\ k[T \ {Max(T)}] = h[T \ {Max(T)}]
        BY <2>2, <4>1
      <4>3. h[T] = IF T = {} THEN run ELSE Step(loop, comm, h[T \ {Max(T)}], s[Max(T)])
        BY <2>1, <4>1 DEF FoldEq
      <4>. HIDE DEF k
      <4>. QED BY <4>2, <4>3
    <3>. QED BY <3>1, <3>2
  <2>4. k = [T \in SUBSET (1 .. (n + 1)) |-> k[T]]
    OBVIOUS
  <2>. HIDE DEF k
  <2>5. FoldEq(k, loop, comm, run, s, 1 .. (n + 1))
    BY <2>3, <2>4 DEF FoldEq
  <2>. QED BY <2>5
<1>. HIDE DEF Part
<1>3. \A n \in 0 .. L : n \in S
  <2>1. 0 \in S /\ \A n \in 0 .. (L - 1) : n \in S => n + 1 \in S
    BY <1>1, <1>2
  <2>. HIDE DEF S
  <2>. QED BY <2>1, Upward
<1>. QED BY <1>3 DEF Part

\* The run after the first n elements.
LEMMA FoldSteps ==
  ASSUME NEW loop, NEW comm, NEW run, NEW s, NEW L \in Nat, NEW h,
         FoldEq(h, loop, comm, run, s, 1 .. L)
  PROVE \E g : /\ g[0] = run /\ \A n \in 1 .. L : g[n] = Step(loop, comm, g[n - 1], s[n])
               /\ g[L] = h[1 .. L]
<1>1. h[1 .. 0] = run
  <2>1. 1 .. 0 = {} /\ 1 .. 0 \in SUBSET (1 .. L)
    OBVIOUS
  <2>. QED BY <2>1 DEF FoldEq
<1>2. ASSUME NEW n \in 1 .. L PROVE h[1 .. n] = Step(loop, comm, h[1 .. (n - 1)], s[n])
  <2>1. Max(1 .. n) = n
    BY MaxIs
  <2>2. (1 .. n) \ {n} = 1 .. (n - 1) /\ 1 .. n # {} /\ 1 .. n \in SUBSET (1 .. L)
    OBVIOUS
  <2>. QED BY <2>1, <2>2 DEF FoldEq
<1>. DEFINE g == [n \in 0 .. L |-> h[1 .. n]]
<1>3. \A n \in 1 .. L : n \in 0 .. L /\ n - 1 \in 0 .. L
  OBVIOUS
<1>4. /\ g[0] = run /\ g[L] = h[1 .. L] /\ \A n \in 1 .. L : g[n] = Step(loop, comm, g[n - 1], s[n])
  BY <1>1, <1>2, <1>3
<1>. HIDE DEF g
<1>. QED BY <1>4

\* The loop over the pairs of a section, and that over the sections.
RunPairs(run, s) == FoldLeft(LAMBDA r, pair : ProcessPair(r, pair), run, s)
RunSections(run, s, comm) ==
  FoldLeft(LAMBDA r, section : ProcessSection(r, section, comm), run, s)

\* The loop over the pairs, step by step.
LEMMA PairsFold ==
  ASSUME NEW run, NEW s, NEW L \in Nat, DOMAIN s = 1 .. L
  PROVE \E g : /\ g[0] = run
               /\ \A n \in 1 .. L : g[n] = ProcessPair(g[n - 1], s[n])
               /\ RunPairs(run, s) = g[L]
<1>. DEFINE Eq(h) == h = [S \in SUBSET DOMAIN s |->
                            IF S = {} THEN run ELSE ProcessPair(h[S \ {Max(S)}], s[Max(S)])]
            w == CHOOSE h : Eq(h)
<1>1. \A h : Eq(h) <=> FoldEq(h, "pairs", NULL, run, s, 1 .. L)
  BY DEF FoldEq, Step
<1>2. Eq(w)
  BY <1>1, FoldExists
<1>3. RunPairs(run, s) = w[1 .. L]
  BY DEF RunPairs, FoldLeft, MapThenFoldSet
<1>. HIDE DEF w
<1>4. FoldEq(w, "pairs", NULL, run, s, 1 .. L)
  BY <1>1, <1>2
<1>. HIDE DEF Eq
<1>5. PICK g : /\ g[0] = run /\ \A n \in 1 .. L : g[n] = Step("pairs", NULL, g[n - 1], s[n])
               /\ g[L] = w[1 .. L]
  <2>. DEFINE c == NULL
  <2>1. FoldEq(w, "pairs", c, run, s, 1 .. L)
    BY <1>4
  <2>. HIDE DEF c
  <2>2. \E g : /\ g[0] = run /\ \A n \in 1 .. L : g[n] = Step("pairs", c, g[n - 1], s[n])
              /\ g[L] = w[1 .. L]
    BY <2>1, FoldSteps
  <2>. QED BY <2>2 DEF c
<1>6. \A r, x : Step("pairs", NULL, r, x) = ProcessPair(r, x)
  BY DEF Step
<1>. QED BY <1>3, <1>5, <1>6

\* The loop over the sections, step by step.
LEMMA SectionsFold ==
  ASSUME NEW comm, NEW run, NEW s, NEW L \in Nat, DOMAIN s = 1 .. L
  PROVE \E g : /\ g[0] = run
               /\ \A n \in 1 .. L : g[n] = ProcessSection(g[n - 1], s[n], comm)
               /\ RunSections(run, s, comm) = g[L]
<1>. DEFINE Eq(h) == h = [S \in SUBSET DOMAIN s |->
                            IF S = {} THEN run
                            ELSE ProcessSection(h[S \ {Max(S)}], s[Max(S)], comm)]
            w == CHOOSE h : Eq(h)
<1>1. \A h : Eq(h) <=> FoldEq(h, "sections", comm, run, s, 1 .. L)
  BY DEF FoldEq, Step
<1>2. Eq(w)
  BY <1>1, FoldExists
<1>3. RunSections(run, s, comm) = w[1 .. L]
  BY DEF RunSections, FoldLeft, MapThenFoldSet
<1>. HIDE DEF w
<1>4. FoldEq(w, "sections", comm, run, s, 1 .. L)
  BY <1>1, <1>2
<1>. HIDE DEF Eq
<1>5. PICK g : /\ g[0] = run /\ \A n \in 1 .. L : g[n] = Step("sections", comm, g[n - 1], s[n])
               /\ g[L] = w[1 .. L]
  BY <1>4, FoldSteps
<1>6. \A r, x : Step("sections", comm, r, x) = ProcessSection(r, x, comm)
  BY DEF Step
<1>. QED BY <1>3, <1>5, <1>6

-----------------------------------------------------------------------------
(* FlattenSeq *)
FlatEq(f, s, n) == f = [i \in 1 .. n |-> IF i = 1 THEN s[i] ELSE f[i - 1] \o s[i]]

\* There is a function as FlattenSeq chooses one.
LEMMA FlatExists ==
  ASSUME NEW s, NEW L \in Nat \ {0}
  PROVE \E f : FlatEq(f, s, L)
<1>. DEFINE S == {n \in 0 .. L : \E f : FlatEq(f, s, n)}
<1>1. 0 \in S
  <2>. DEFINE f == [i \in 1 .. 0 |-> <<>>]
  <2>1. 1 .. 0 = {}
    OBVIOUS
  <2>2. FlatEq(f, s, 0)
    BY <2>1 DEF FlatEq
  <2>. QED BY <2>2
<1>2. ASSUME NEW n \in 0 .. (L - 1), n \in S PROVE n + 1 \in S
  <2>1. PICK f : FlatEq(f, s, n)
    BY <1>2
  <2>. DEFINE g == [i \in 1 .. (n + 1) |-> IF i = 1 THEN s[i] ELSE f[i - 1] \o s[i]]
  <2>2. \A i \in 1 .. n : g[i] = f[i]
    <3>1. \A i \in 1 .. n : f[i] = IF i = 1 THEN s[i] ELSE f[i - 1] \o s[i]
      BY <2>1 DEF FlatEq
    <3>2. \A i \in 1 .. n : i \in 1 .. (n + 1)
      OBVIOUS
    <3>. QED BY <3>1, <3>2
  <2>3. \A i \in 1 .. (n + 1) : i # 1 => i - 1 \in 1 .. n
    OBVIOUS
  <2>4. \A i \in 1 .. (n + 1) : g[i] = IF i = 1 THEN s[i] ELSE g[i - 1] \o s[i]
    <3>1. \A i \in 1 .. (n + 1) : g[i] = IF i = 1 THEN s[i] ELSE f[i - 1] \o s[i]
      OBVIOUS
    <3>. HIDE DEF g
    <3>. QED BY <2>2, <2>3, <3>1
  <2>5. g = [i \in 1 .. (n + 1) |-> g[i]]
    OBVIOUS
  <2>. HIDE DEF g
  <2>6. FlatEq(g, s, n + 1)
    BY <2>4, <2>5 DEF FlatEq
  <2>. QED BY <2>6
<1>. HIDE DEF S
<1>3. L \in S
  BY <1>1, <1>2, Upward
<1>. QED BY <1>3 DEF S

\* FlattenSeq puts one sequence after the other.
LEMMA Flat ==
  ASSUME NEW s, NEW L \in Nat, Len(s) = L, NEW R, \A n \in 1 .. L : s[n] \in Seq(R)
  PROVE \E f : /\ f[0] = <<>> /\ \A n \in 1 .. L : f[n] = f[n - 1] \o s[n]
               /\ FlattenSeq(s) = IF L = 0 THEN s ELSE f[L]
<1>1. CASE L = 0
  <2>. DEFINE f == [n \in 0 .. 0 |-> <<>>]
  <2>1. f[0] = <<>>
    OBVIOUS
  <2>. HIDE DEF f
  <2>. QED BY <1>1, <2>1 DEF FlattenSeq
<1>2. CASE L # 0
  <2>. DEFINE w == CHOOSE f : f = [i \in 1 .. L |-> IF i = 1 THEN s[i] ELSE f[i - 1] \o s[i]]
              g == [n \in 0 .. L |-> IF n = 0 THEN <<>> ELSE w[n]]
  <2>1. FlatEq(w, s, L)
    <3>1. \E f : f = [i \in 1 .. L |-> IF i = 1 THEN s[i] ELSE f[i - 1] \o s[i]]
      <4>1. L \in Nat \ {0}
        BY <1>2
      <4>2. \E f : FlatEq(f, s, L)
        BY <4>1, FlatExists
      <4>. QED BY <4>2 DEF FlatEq
    <3>2. w = [i \in 1 .. L |-> IF i = 1 THEN s[i] ELSE w[i - 1] \o s[i]]
      BY <3>1
    <3>. HIDE DEF w
    <3>. QED BY <3>2 DEF FlatEq
  <2>2. FlattenSeq(s) = w[L]
    BY <1>2 DEF FlattenSeq
  <2>. HIDE DEF w
  <2>3. ASSUME NEW n \in 1 .. L PROVE g[n] = g[n - 1] \o s[n]
    <3>1. CASE n = 1
      <4>1. g[n] = s[n] /\ g[n - 1] = <<>>
        BY <2>1, <3>1 DEF FlatEq
      <4>2. <<>> \o s[n] = s[n]
        OBVIOUS
      <4>. QED BY <4>1, <4>2
    <3>2. CASE n # 1
      <4>1. n - 1 \in 1 .. L /\ n - 1 \in 0 .. L /\ n \in 0 .. L
        BY <3>2
      <4>2. g[n] = w[n] /\ g[n - 1] = w[n - 1]
        BY <4>1
      <4>. QED BY <2>1, <3>2, <4>2 DEF FlatEq
    <3>. QED BY <3>1, <3>2
  <2>4. g[0] = <<>> /\ g[L] = w[L]
    BY <1>2
  <2>. HIDE DEF g
  <2>. QED BY <1>2, <2>2, <2>3, <2>4
<1>. QED BY <1>1, <1>2
\* The elements of a sequence.
LEMMA Elements ==
  ASSUME NEW S, NEW s \in Seq(S)
  PROVE Len(s) \in Nat /\ DOMAIN s = 1 .. Len(s) /\ \A i \in DOMAIN s : s[i] \in S
BY LenProperties

\* The sequences that FlattenSeq joins are of R, and so is what it makes of them.
LEMMA FlatType ==
  ASSUME NEW R, NEW s \in Seq(Seq(R))
  PROVE FlattenSeq(s) \in Seq(R)
<1>1. PICK L \in Nat : L = Len(s) /\ \A n \in 1 .. L : s[n] \in Seq(R)
  OBVIOUS
<1>2. PICK f : /\ f[0] = <<>> /\ \A n \in 1 .. L : f[n] = f[n - 1] \o s[n]
               /\ FlattenSeq(s) = IF L = 0 THEN s ELSE f[L]
  BY <1>1, Flat
<1>. DEFINE S == {n \in 0 .. L : f[n] \in Seq(R)}
<1>3. L \in S
  <2>1. 0 \in S
    <3>1. <<>> \in Seq(R) /\ 0 \in 0 .. L
      OBVIOUS
    <3>. QED BY <1>2, <3>1
  <2>2. ASSUME NEW n \in 0 .. (L - 1), n \in S PROVE n + 1 \in S
    <3>1. n + 1 \in 1 .. L /\ n + 1 \in 0 .. L /\ (n + 1) - 1 = n
      OBVIOUS
    <3>2. f[n + 1] = f[n] \o s[n + 1]
      BY <1>2, <3>1
    <3>3. f[n] \o s[n + 1] \in Seq(R)
      BY <1>1, <2>2, <3>1
    <3>. QED BY <3>1, <3>2, <3>3
  <2>. HIDE DEF S
  <2>3. \A n \in 0 .. L : n \in S
    BY <2>1, <2>2, Upward
  <2>. QED BY <2>3
<1>4. L = 0 => s = <<>> /\ <<>> \in Seq(R)
  BY <1>1, EmptySeq
<1>. QED BY <1>2, <1>3, <1>4

\* What two sequences have, one after the other.
LEMMA ConcatSet ==
  ASSUME NEW R, NEW a \in Seq(R), NEW b \in Seq(R)
  PROVE ToSet(a \o b) = ToSet(a) \cup ToSet(b)
<1>1. PICK l \in Nat, k \in Nat : /\ l = Len(a) /\ DOMAIN a = 1 .. l
                                 /\ k = Len(b) /\ DOMAIN b = 1 .. k
  BY Elements
<1>. DEFINE both == a \o b
<1>2. /\ both \in Seq(R) /\ Len(both) = l + k
      /\ \A i \in 1 .. (l + k) : both[i] = IF i <= l THEN a[i] ELSE b[i - l]
  BY <1>1, ConcatProperties
<1>3. DOMAIN both = 1 .. (l + k)
  BY <1>2, Elements
<1>. HIDE DEF both
<1>4. \A i \in 1 .. l : i \in 1 .. (l + k) /\ i <= l
  OBVIOUS
<1>5. \A i \in 1 .. k : l + i \in 1 .. (l + k) /\ ~ (l + i <= l) /\ (l + i) - l = i
  OBVIOUS
<1>6. \A i \in 1 .. (l + k) : i \in 1 .. l \/ (~ (i <= l) /\ i - l \in 1 .. k)
  OBVIOUS
<1>7. ToSet(both) \subseteq ToSet(a) \cup ToSet(b)
  <2>1. ASSUME NEW i \in 1 .. (l + k) PROVE both[i] \in ToSet(a) \cup ToSet(b)
    BY <1>1, <1>2, <1>4, <1>6 DEF ToSet
  <2>. QED BY <1>3, <2>1 DEF ToSet
<1>8. \A i \in 1 .. l : a[i] = both[i]
  BY <1>2, <1>4
<1>9. \A i \in 1 .. k : b[i] = both[l + i]
  BY <1>2, <1>5
<1>10. ToSet(a) \subseteq ToSet(both)
  BY <1>1, <1>3, <1>4, <1>8 DEF ToSet
<1>11. ToSet(b) \subseteq ToSet(both)
  BY <1>1, <1>3, <1>5, <1>9 DEF ToSet
<1>. QED BY <1>7, <1>10, <1>11 DEF both

\* What FlattenSeq makes has what the sequences have.
LEMMA FlatSet ==
  ASSUME NEW R, NEW s \in Seq(Seq(R))
  PROVE \A x : x \in ToSet(FlattenSeq(s)) <=> \E i \in DOMAIN s : x \in ToSet(s[i])
<1>1. PICK L \in Nat : L = Len(s) /\ DOMAIN s = 1 .. L /\ \A n \in 1 .. L : s[n] \in Seq(R)
  BY Elements
<1>2. PICK f : /\ f[0] = <<>> /\ \A n \in 1 .. L : f[n] = f[n - 1] \o s[n]
               /\ FlattenSeq(s) = IF L = 0 THEN s ELSE f[L]
  BY <1>1, Flat
<1>. DEFINE Has(n) == /\ f[n] \in Seq(R)
                      /\ \A x : x \in ToSet(f[n]) <=> \E i \in 1 .. n : x \in ToSet(s[i])
            S == {n \in 0 .. L : Has(n)}
<1>3. 0 \in S
  <2>1. <<>> \in Seq(R) /\ ToSet(<<>>) = {} /\ 1 .. 0 = {} /\ 0 \in 0 .. L
    BY DEF ToSet
  <2>. QED BY <1>2, <2>1
<1>4. ASSUME NEW n \in 0 .. (L - 1), n \in S PROVE n + 1 \in S
  <2>1. n + 1 \in 1 .. L /\ n + 1 \in 0 .. L /\ (n + 1) - 1 = n
    OBVIOUS
  <2>2. f[n + 1] = f[n] \o s[n + 1] /\ f[n] \in Seq(R) /\ s[n + 1] \in Seq(R)
    BY <1>1, <1>2, <1>4, <2>1
  <2>3. f[n + 1] \in Seq(R) /\ ToSet(f[n + 1]) = ToSet(f[n]) \cup ToSet(s[n + 1])
    BY <2>2, ConcatSet
  <2>4. \A i \in 1 .. (n + 1) : i \in 1 .. n \/ i = n + 1
    OBVIOUS
  <2>5. n + 1 \in 1 .. (n + 1) /\ \A i \in 1 .. n : i \in 1 .. (n + 1)
    OBVIOUS
  <2>6. \A x : x \in ToSet(f[n]) <=> \E i \in 1 .. n : x \in ToSet(s[i])
    BY <1>4
  <2>7. \A x : x \in ToSet(f[n + 1]) <=> \E i \in 1 .. (n + 1) : x \in ToSet(s[i])
    BY <2>3, <2>4, <2>5, <2>6
  <2>. QED BY <2>1, <2>3, <2>7
<1>5. Has(L)
  <2>1. /\ 0 \in S
        /\ \A n \in 0 .. (L - 1) : n \in S => n + 1 \in S
    BY <1>3, <1>4
  <2>. HIDE DEF S
  <2>2. \A n \in 0 .. L : n \in S
    BY <2>1, Upward
  <2>3. L \in S
    BY <2>2
  <2>. HIDE DEF Has
  <2>. QED BY <2>3 DEF S
<1>6. CASE L = 0
  <2>1. DOMAIN s = {}
    BY <1>1, <1>6
  <2>2. ToSet(s) = {}
    BY <2>1 DEF ToSet
  <2>3. FlattenSeq(s) = s
    BY <1>2, <1>6
  <2>. HIDE DEF Has
  <2>. QED BY <2>1, <2>2, <2>3
<1>7. CASE L # 0
  BY <1>1, <1>2, <1>5, <1>7
<1>. QED BY <1>6, <1>7

-----------------------------------------------------------------------------
(* The files below a directory. *)

\* The directories lie only so deep in each other.
Shallow ==
  \E N \in Nat : \E depth \in [Path -> 0 .. N] :
    \A d \in DOMAIN Entries : \A i \in DOMAIN Entries[d] :
      Entries[d][i].directory => depth[Entries[d][i].path] < depth[d]

\* Those of d, when f gives those of the directories in it.
BelowIn(f, d) ==
  IF d \notin DOMAIN Entries THEN <<>>
  ELSE FlattenSeq([i \in DOMAIN Entries[d] |->
                     IF Entries[d][i].directory THEN f[Entries[d][i].path]
                                                ELSE <<Entries[d][i].path>>])

\* BelowIn looks at the directories in d only.
LEMMA BelowSame ==
  ASSUME NEW f, NEW g, NEW d,
         d \in DOMAIN Entries => \A i \in DOMAIN Entries[d] :
           Entries[d][i].directory => f[Entries[d][i].path] = g[Entries[d][i].path]
  PROVE BelowIn(f, d) = BelowIn(g, d)
<1>1. CASE d \notin DOMAIN Entries
  BY <1>1 DEF BelowIn
<1>2. CASE d \in DOMAIN Entries
  <2>1. [i \in DOMAIN Entries[d] |-> IF Entries[d][i].directory THEN f[Entries[d][i].path]
                                                               ELSE <<Entries[d][i].path>>]
      = [i \in DOMAIN Entries[d] |-> IF Entries[d][i].directory THEN g[Entries[d][i].path]
                                                               ELSE <<Entries[d][i].path>>]
    BY <1>2
  <2>. QED BY <1>2, <2>1 DEF BelowIn
<1>. QED BY <1>1, <1>2

\* FilesBelow is defined: the recursion ends.
LEMMA BelowExists == ASSUME Shallow PROVE \E f : f = [d \in Path |-> BelowIn(f, d)]
<1>0. PICK N \in Nat : \E depth \in [Path -> 0 .. N] :
        \A d \in DOMAIN Entries : \A i \in DOMAIN Entries[d] :
          Entries[d][i].directory => depth[Entries[d][i].path] < depth[d]
  BY DEF Shallow
<1>1. PICK depth \in [Path -> 0 .. N] :
        \A d \in DOMAIN Entries : \A i \in DOMAIN Entries[d] :
          Entries[d][i].directory => depth[Entries[d][i].path] < depth[d]
  BY <1>0
<1>. DEFINE Good(f, n) == \A d \in Path : depth[d] < n => f[d] = BelowIn(f, d)
            S == {n \in 0 .. (N + 1) : \E f : f = [d \in Path |-> f[d]] /\ Good(f, n)}
<1>2. 0 \in S
  <2>. DEFINE f == [d \in Path |-> <<>>]
  <2>1. \A d \in Path : ~ (depth[d] < 0)
    BY <1>1
  <2>2. f = [d \in Path |-> f[d]]
    OBVIOUS
  <2>3. Good(f, 0)
    BY <2>1
  <2>. HIDE DEF f, Good
  <2>. QED BY <2>2, <2>3
<1>3. ASSUME NEW n \in 0 .. N, n \in S PROVE n + 1 \in S
  <2>1. PICK f : Good(f, n)
    BY <1>3
  <2>. DEFINE g == [d \in Path |-> BelowIn(f, d)]
  <2>2. \A d \in Path : depth[d] < n => g[d] = f[d]
    BY <2>1
  <2>3. \A d \in Path : g[d] = BelowIn(f, d)
    OBVIOUS
  <2>4. g = [d \in Path |-> g[d]]
    OBVIOUS
  <2>. HIDE DEF g
  <2>5. ASSUME NEW d \in Path, depth[d] < n + 1 PROVE g[d] = BelowIn(g, d)
    <3>1. ASSUME d \in DOMAIN Entries, NEW i \in DOMAIN Entries[d], Entries[d][i].directory
          PROVE f[Entries[d][i].path] = g[Entries[d][i].path]
      <4>1. Entries[d][i].path \in Path
        <5>1. Entries[d] \in Seq(Entry)
          BY <3>1, EntriesAssumption
        <5>2. Entries[d][i] \in Entry
          BY <3>1, <5>1, Elements
        <5>. QED BY <5>2 DEF Entry
      <4>2. depth[Entries[d][i].path] < depth[d]
        BY <1>1, <3>1
      <4>3. depth[Entries[d][i].path] \in Nat /\ depth[d] \in Nat
        BY <1>1, <4>1
      <4>4. depth[Entries[d][i].path] < n
        BY <2>5, <4>2, <4>3
      <4>. QED BY <2>2, <4>1, <4>4
    <3>2. BelowIn(f, d) = BelowIn(g, d)
      BY <3>1, BelowSame
    <3>. QED BY <2>3, <3>2
  <2>6. Good(g, n + 1)
    BY <2>5
  <2>7. n + 1 \in 0 .. (N + 1)
    OBVIOUS
  <2>. HIDE DEF Good
  <2>. QED BY <2>4, <2>6, <2>7
<1>. HIDE DEF S
<1>4. N + 1 \in S
  <2>1. N + 1 \in Nat /\ (N + 1) - 1 = N
    OBVIOUS
  <2>. QED BY <1>2, <1>3, <2>1, Upward
<1>5. PICK f : f = [d \in Path |-> f[d]] /\ Good(f, N + 1)
  BY <1>4 DEF S
<1>6. \A d \in Path : depth[d] < N + 1
  BY <1>1
<1>7. \A d \in Path : f[d] = BelowIn(f, d)
  BY <1>5, <1>6
<1>. HIDE DEF Good
<1>. QED BY <1>5, <1>7

\* get_dir_content comes to an end, with what it finds in the directory.
LEMMA BelowIs == ASSUME Shallow PROVE \A d \in Path : FilesBelow[d] = BelowIn(FilesBelow, d)
<1>. DEFINE w == CHOOSE f : f = [d \in Path |->
                   IF d \notin DOMAIN Entries THEN <<>>
                   ELSE FlattenSeq([i \in DOMAIN Entries[d] |->
                          IF Entries[d][i].directory THEN f[Entries[d][i].path]
                                                     ELSE <<Entries[d][i].path>>])]
<1>1. FilesBelow = w
  BY DEF FilesBelow
<1>2. \E f : f = [d \in Path |->
                   IF d \notin DOMAIN Entries THEN <<>>
                   ELSE FlattenSeq([i \in DOMAIN Entries[d] |->
                          IF Entries[d][i].directory THEN f[Entries[d][i].path]
                                                     ELSE <<Entries[d][i].path>>])]
  BY BelowExists DEF BelowIn
<1>3. w = [d \in Path |->
                   IF d \notin DOMAIN Entries THEN <<>>
                   ELSE FlattenSeq([i \in DOMAIN Entries[d] |->
                          IF Entries[d][i].directory THEN w[Entries[d][i].path]
                                                     ELSE <<Entries[d][i].path>>])]
  BY <1>2
<1>. HIDE DEF w
<1>4. w = [d \in Path |-> BelowIn(w, d)]
  BY <1>3 DEF BelowIn
<1>. QED BY <1>1, <1>4

\* The files below a directory are paths.
LEMMA BelowType == ASSUME Shallow PROVE \A d \in Path : FilesBelow[d] \in Seq(Path)
<1>0. PICK N \in Nat : \E depth \in [Path -> 0 .. N] :
        \A d \in DOMAIN Entries : \A i \in DOMAIN Entries[d] :
          Entries[d][i].directory => depth[Entries[d][i].path] < depth[d]
  BY DEF Shallow
<1>1. PICK depth \in [Path -> 0 .. N] :
        \A d \in DOMAIN Entries : \A i \in DOMAIN Entries[d] :
          Entries[d][i].directory => depth[Entries[d][i].path] < depth[d]
  BY <1>0
<1>. DEFINE S == {n \in 0 .. (N + 1) : \A d \in Path : depth[d] < n => FilesBelow[d] \in Seq(Path)}
<1>2. 0 \in S
  BY <1>1
<1>3. ASSUME NEW n \in 0 .. N, n \in S PROVE n + 1 \in S
  <2>1. ASSUME NEW d \in Path, depth[d] < n + 1 PROVE FilesBelow[d] \in Seq(Path)
    <3>. DEFINE s == [i \in DOMAIN Entries[d] |->
                     IF Entries[d][i].directory THEN FilesBelow[Entries[d][i].path]
                                                  ELSE <<Entries[d][i].path>>]
    <3>1. CASE d \in DOMAIN Entries
      <4>0. Entries[d] \in Seq(Entry)
        BY <3>1, EntriesAssumption
      <4>1. ASSUME NEW i \in DOMAIN Entries[d] PROVE s[i] \in Seq(Path)
        <5>1. Entries[d][i].path \in Path
          <6>1. Entries[d][i] \in Entry
            BY <4>0, Elements
          <6>. QED BY <6>1 DEF Entry
        <5>2. ASSUME Entries[d][i].directory PROVE FilesBelow[Entries[d][i].path] \in Seq(Path)
          <6>1. depth[Entries[d][i].path] < depth[d]
            BY <1>1, <3>1, <5>2
          <6>2. depth[Entries[d][i].path] \in Nat /\ depth[d] \in Nat
            BY <1>1, <5>1
          <6>3. depth[Entries[d][i].path] < n
            BY <2>1, <6>1, <6>2
          <6>. QED BY <1>3, <5>1, <6>3
        <5>3. <<Entries[d][i].path>> \in Seq(Path)
          BY <5>1
        <5>. QED BY <5>2, <5>3
      <4>2. s \in Seq(Seq(Path))
        <5>1. PICK L \in Nat : L = Len(Entries[d]) /\ DOMAIN Entries[d] = 1 .. L
          BY <4>0
        <5>2. s \in [1 .. L -> Seq(Path)]
          BY <4>1, <5>1
        <5>. HIDE DEF s
        <5>. QED BY <5>2, IsASeq
      <4>. HIDE DEF s
      <4>3. FlattenSeq(s) \in Seq(Path)
        BY <4>2, FlatType
      <4>. QED BY <3>1, <4>3, BelowIs DEF s, BelowIn
    <3>2. CASE d \notin DOMAIN Entries
      <4>1. FilesBelow[d] = <<>>
        BY <3>2, BelowIs DEF BelowIn
      <4>. QED BY <4>1
    <3>. QED BY <3>1, <3>2
  <2>2. n + 1 \in 0 .. (N + 1)
    OBVIOUS
  <2>. QED BY <2>1, <2>2
<1>4. N + 1 \in S
  <2>1. N + 1 \in Nat /\ (N + 1) - 1 = N
    OBVIOUS
  <2>. HIDE DEF S
  <2>. QED BY <1>2, <1>3, <2>1, Upward
<1>5. \A d \in Path : depth[d] < N + 1
  BY <1>1
<1>. QED BY <1>4, <1>5

-----------------------------------------------------------------------------
(* What a run sends. *)
PairType == [path : Path, letters : {NULL} \cup SUBSET Letter]
\* What is found, and where the search is.
RuleType == [path : Path, permission : Permissions]
RunType == [permission : Permissions, rules : Seq(RuleType), exited : BOOLEAN]

\* The greatest number of a set.
Latest(S) == CHOOSE i \in S : \A j \in S : j <= i

\* The pairs for p, and the letters that count for the n-th pair.
PairsOn(pairs, p) == {i \in DOMAIN pairs : p \in ToSet(Named(pairs[i].path))}
\* The pairs up to n with an AUTHORITY, and the permission that holds at n.
Given(pairs, n) == {i \in 1 .. n : pairs[i].letters # NULL}
PermissionAt(pairs, n) ==
  IF Given(pairs, n) = {} THEN {} ELSE ModeValue(pairs[Latest(Given(pairs, n))].letters)

\* What is to be sent for p, by the pairs, and what the rules give it.
SentFor(pairs, p) ==
  IF PairsOn(pairs, p) = {} THEN NULL ELSE PermissionAt(pairs, Latest(PairsOn(pairs, p)))
\* The rules for p, and the permission of the last one.
RulesOn(rs, p) == {i \in DOMAIN rs : rs[i].path = p}
GivenBy(rs, p) == IF RulesOn(rs, p) = {} THEN NULL ELSE rs[Latest(RulesOn(rs, p))].permission

\* A run that has sent what is to be sent for the pairs.
Right(run, pairs) ==
  /\ run \in RunType /\ pairs \in Seq(PairType)
  /\ run.permission = PermissionAt(pairs, Len(pairs))
  /\ \A p \in Path : GivenBy(run.rules, p) = SentFor(pairs, p)

\* The greatest number, when it is known.
LEMMA LatestIs ==
  ASSUME NEW n \in Nat, NEW S, n \in S, \A m \in S : m \in Nat /\ m <= n
  PROVE Latest(S) = n
<1>1. \A y \in S : y <= n
  OBVIOUS
<1>2. \A x \in S : (\A y \in S : y <= x) => x = n
  OBVIOUS
<1>. QED BY <1>1, <1>2 DEF Latest

\* A set of numbers up to L that has one has a greatest one.
LEMMA LatestIn ==
  ASSUME NEW L \in Nat, NEW S \in SUBSET (1 .. L), S # {}
  PROVE Latest(S) \in S /\ Latest(S) \in 1 .. L /\ \A j \in S : j <= Latest(S)
<1>. DEFINE T == {L - n : n \in S}
<1>1. PICK m \in T : \A n \in T : m <= n
  <2>0. \A n \in S : L - n \in Nat
    OBVIOUS
  <2>1. T \in SUBSET Nat /\ T # {}
    BY <2>0
  <2>. HIDE DEF T
  <2>. QED BY <2>1, Least
<1>2. PICK i \in S : m = L - i
  OBVIOUS
<1>3. \A j \in S : j <= i
  <2>1. ASSUME NEW j \in S PROVE j <= i
    <3>1. L - j \in T
      OBVIOUS
    <3>2. L - i <= L - j
      BY <1>1, <1>2, <3>1
    <3>. QED BY <3>2
  <2>. QED BY <2>1
<1>4. \E k \in S : \A j \in S : j <= k
  BY <1>3
<1>. QED BY <1>4 DEF Latest

\* The paths that a pair is for.
LEMMA NamedType == ASSUME Shallow, NEW path \in Path PROVE Named(path) \in Seq(Path)
BY BelowType DEF Named

\* What the letters mean is a permission.
LEMMA LettersType == \A letters : ModeValue(letters) \in Permissions
<1>1. DOMAIN Bits = {"R", "W", "F"}
  BY DEF Bits
<1>. QED BY <1>1 DEF ModeValue, Permissions

\* One more pair.
LEMMA PermissionNext ==
  ASSUME NEW pairs \in Seq(PairType), NEW pair \in PairType, NEW n \in Nat, n = Len(pairs)
  PROVE /\ PermissionAt(Append(pairs, pair), n + 1)
             = IF pair.letters = NULL THEN PermissionAt(pairs, n) ELSE ModeValue(pair.letters)
        /\ \A m \in 0 .. n : PermissionAt(Append(pairs, pair), m) = PermissionAt(pairs, m)
<1>. DEFINE next == Append(pairs, pair)
<1>1. /\ \A m \in 1 .. n : next[m] = pairs[m]
      /\ next[n + 1] = pair
  OBVIOUS
<1>. HIDE DEF next
<1>2. ASSUME NEW m \in 0 .. n
      PROVE Given(next, m) = Given(pairs, m) /\ Given(next, m) \in SUBSET (1 .. m)
  BY <1>1 DEF Given
<1>3. ASSUME NEW m \in 0 .. n PROVE PermissionAt(next, m) = PermissionAt(pairs, m)
  <2>1. CASE Given(next, m) = {}
    BY <1>2, <2>1 DEF PermissionAt
  <2>2. CASE Given(next, m) # {}
    <3>1. Latest(Given(next, m)) \in 1 .. m
      BY <1>2, <2>2, LatestIn
    <3>2. next[Latest(Given(next, m))] = pairs[Latest(Given(next, m))]
      BY <1>1, <3>1
    <3>. QED BY <1>2, <2>2, <3>2 DEF PermissionAt
  <2>. QED BY <2>1, <2>2
<1>4. CASE pair.letters = NULL
  <2>1. Given(next, n + 1) = Given(next, n)
    BY <1>1, <1>4 DEF Given
  <2>2. PermissionAt(next, n + 1) = PermissionAt(next, n)
    BY <2>1 DEF PermissionAt
  <2>. QED BY <1>3, <1>4, <2>2 DEF next
<1>5. CASE pair.letters # NULL
  <2>1. n + 1 \in Given(next, n + 1) /\ \A m \in Given(next, n + 1) : m \in Nat /\ m <= n + 1
    BY <1>1, <1>5 DEF Given
  <2>2. Latest(Given(next, n + 1)) = n + 1
    BY <2>1, LatestIs
  <2>3. PermissionAt(next, n + 1) = ModeValue(pair.letters)
    BY <1>1, <2>1, <2>2 DEF PermissionAt
  <2>. QED BY <1>3, <1>5, <2>3 DEF next
<1>. QED BY <1>4, <1>5

\* One pair more, and what is to be sent.
LEMMA SentNext ==
  ASSUME NEW pairs \in Seq(PairType), NEW pair \in PairType, NEW n \in Nat, n = Len(pairs), NEW p
  PROVE SentFor(Append(pairs, pair), p)
          = IF p \in ToSet(Named(pair.path)) THEN PermissionAt(Append(pairs, pair), n + 1)
                                             ELSE SentFor(pairs, p)
<1>. DEFINE next == Append(pairs, pair)
<1>1. /\ DOMAIN pairs = 1 .. n /\ DOMAIN next = 1 .. (n + 1)
      /\ \A m \in 1 .. n : next[m] = pairs[m]
      /\ next[n + 1] = pair
  BY Elements, AppendProperties
<1>0. \A m \in 0 .. n : PermissionAt(next, m) = PermissionAt(pairs, m)
  BY PermissionNext
<1>. HIDE DEF next
<1>2. CASE p \in ToSet(Named(pair.path))
  <2>1. n + 1 \in PairsOn(next, p) /\ \A m \in PairsOn(next, p) : m \in Nat /\ m <= n + 1
    BY <1>1, <1>2 DEF PairsOn
  <2>2. Latest(PairsOn(next, p)) = n + 1
    BY <2>1, LatestIs
  <2>. QED BY <1>2, <2>1, <2>2 DEF SentFor, next
<1>3. CASE p \notin ToSet(Named(pair.path))
  <2>1. PairsOn(next, p) = PairsOn(pairs, p) /\ PairsOn(pairs, p) \in SUBSET (1 .. n)
    BY <1>1, <1>3 DEF PairsOn
  <2>2. PairsOn(pairs, p) # {} => Latest(PairsOn(pairs, p)) \in 0 .. n
    BY <2>1, LatestIn
  <2>. QED BY <1>0, <1>3, <2>1, <2>2 DEF SentFor, next
<1>. QED BY <1>2, <1>3

\* The rules of one pair more, and what they give.
LEMMA GivenNext ==
  ASSUME NEW rs \in Seq(RuleType), NEW paths \in Seq(Path), NEW permission \in Permissions, NEW p
  PROVE /\ rs \o [i \in DOMAIN paths |-> Rule(paths[i], permission)] \in Seq(RuleType)
        /\ GivenBy(rs \o [i \in DOMAIN paths |-> Rule(paths[i], permission)], p)
             = IF p \in ToSet(paths) THEN permission ELSE GivenBy(rs, p)
<1>. DEFINE new == [i \in DOMAIN paths |-> Rule(paths[i], permission)]
            all == rs \o new
<1>1. PICK l \in Nat : l = Len(rs) /\ DOMAIN rs = 1 .. l
  BY Elements
<1>2. PICK k \in Nat : /\ k = Len(paths) /\ DOMAIN paths = 1 .. k
                       /\ \A i \in 1 .. k : paths[i] \in Path
  BY Elements
<1>3. /\ new \in Seq(RuleType) /\ Len(new) = k
      /\ \A i \in 1 .. k : new[i].path = paths[i] /\ new[i].permission = permission
  <2>1. \A i \in 1 .. k : Rule(paths[i], permission) \in RuleType
    BY <1>2 DEF Rule, RuleType
  <2>2. new = [i \in 1 .. k |-> Rule(paths[i], permission)]
    BY <1>2
  <2>3. new \in Seq(RuleType) /\ Len(new) = k
    BY <2>1, <2>2
  <2>. QED BY <2>2, <2>3 DEF Rule
<1>. HIDE DEF new
<1>4. /\ all \in Seq(RuleType) /\ DOMAIN all = 1 .. (l + k)
      /\ \A i \in 1 .. l : all[i] = rs[i]
      /\ \A i \in 1 .. k : all[l + i] = new[i]
  <2>1. all \in Seq(RuleType) /\ Len(all) = l + k
    BY <1>1, <1>3, ConcatProperties
  <2>2. \A i \in 1 .. (l + k) : all[i] = IF i <= l THEN rs[i] ELSE new[i - l]
    BY <1>1, <1>3, ConcatProperties
  <2>3. \A i \in 1 .. k : l + i \in 1 .. (l + k) /\ ~ (l + i <= l) /\ (l + i) - l = i
    OBVIOUS
  <2>4. \A i \in 1 .. l : i \in 1 .. (l + k) /\ i <= l
    OBVIOUS
  <2>5. DOMAIN all = 1 .. (l + k)
    BY <2>1, Elements
  <2>. HIDE DEF all
  <2>. QED BY <2>1, <2>2, <2>3, <2>4, <2>5
<1>5. ToSet(paths) = {paths[i] : i \in 1 .. k}
  BY <1>2 DEF ToSet
<1>. HIDE DEF all
<1>6. CASE p \in ToSet(paths)
  <2>1. PICK i \in 1 .. k : paths[i] = p
    BY <1>5, <1>6
  <2>2. l + i \in RulesOn(all, p)
    BY <1>3, <1>4, <2>1 DEF RulesOn
  <2>3. RulesOn(all, p) \in SUBSET (1 .. (l + k)) /\ RulesOn(all, p) # {}
    BY <1>4, <2>2 DEF RulesOn
  <2>4. PICK m \in RulesOn(all, p) : m = Latest(RulesOn(all, p)) /\ l + i <= m /\ m \in 1 .. (l + k)
    BY <2>2, <2>3, LatestIn
  <2>5. m - l \in 1 .. k /\ l + (m - l) = m
    BY <2>4
  <2>6. all[m].permission = permission
    BY <1>3, <1>4, <2>5
  <2>. QED BY <1>4, <1>6, <2>2, <2>4, <2>6 DEF GivenBy, all, new
<1>7. CASE p \notin ToSet(paths)
  <2>1. \A i \in 1 .. k : all[l + i].path # p
    <3>1. \A i \in 1 .. k : all[l + i].path = paths[i]
      BY <1>3, <1>4
    <3>2. \A i \in 1 .. k : paths[i] # p
      BY <1>5, <1>7
    <3>. QED BY <3>1, <3>2
  <2>2. \A i \in 1 .. (l + k) : i \in 1 .. l \/ (i - l \in 1 .. k /\ l + (i - l) = i)
    OBVIOUS
  <2>3. RulesOn(all, p) = RulesOn(rs, p) /\ RulesOn(rs, p) \in SUBSET (1 .. l)
    <3>1. \A i \in 1 .. (l + k) : all[i].path = p => i \in 1 .. l
      BY <2>1, <2>2
    <3>2. \A i \in 1 .. l : i \in 1 .. (l + k)
      OBVIOUS
    <3>. QED BY <1>1, <1>4, <3>1, <3>2 DEF RulesOn
  <2>4. RulesOn(rs, p) # {} => all[Latest(RulesOn(rs, p))] = rs[Latest(RulesOn(rs, p))]
    BY <1>4, <2>3, LatestIn
  <2>. QED BY <1>4, <1>7, <2>3, <2>4 DEF GivenBy, all, new
<1>. QED BY <1>6, <1>7
\* process_pair sends what is to be sent for the pair.
LEMMA PairRight ==
  ASSUME Shallow, NEW run, NEW pairs, Right(run, pairs), ~ run.exited,
         NEW pair \in PairType, pair # NULL
  PROVE Right(ProcessPair(run, pair), Append(pairs, pair)) /\ ~ ProcessPair(run, pair).exited
<1>. DEFINE permission == IF pair.letters = NULL THEN run.permission ELSE ModeValue(pair.letters)
            paths == Named(pair.path)
            rs == run.rules \o [i \in DOMAIN paths |-> Rule(paths[i], permission)]
            next == Append(pairs, pair)
<1>1. ProcessPair(run, pair) = Run(permission, rs, FALSE)
  BY DEF ProcessPair, Right
<1>2. PICK n \in Nat : n = Len(pairs)
  BY Elements DEF Right
<1>3. pairs \in Seq(PairType) /\ run.permission \in Permissions /\ run.rules \in Seq(RuleType)
  BY DEF Right, RunType
<1>4. permission \in Permissions /\ paths \in Seq(Path)
  <2>1. pair.path \in Path
    BY DEF PairType
  <2>. QED BY <1>3, <2>1, LettersType, NamedType
<1>5. permission = PermissionAt(next, n + 1)
  BY <1>2, <1>3, PermissionNext DEF Right
<1>6. next \in Seq(PairType) /\ Len(next) = n + 1
  BY <1>2, <1>3
<1>. HIDE DEF permission, paths, next
<1>7. /\ rs \in Seq(RuleType)
      /\ \A p : GivenBy(rs, p) = IF p \in ToSet(paths) THEN permission ELSE GivenBy(run.rules, p)
  BY <1>3, <1>4, GivenNext, ZenonT(30)
<1>8. \A p : SentFor(next, p) = IF p \in ToSet(paths) THEN PermissionAt(next, n + 1)
                                                       ELSE SentFor(pairs, p)
  BY <1>2, <1>3, SentNext DEF next, paths
<1>. HIDE DEF rs
<1>9. \A p \in Path : GivenBy(rs, p) = SentFor(next, p)
  BY <1>5, <1>7, <1>8 DEF Right
<1>10. /\ Run(permission, rs, FALSE) \in RunType
       /\ Run(permission, rs, FALSE).permission = permission
       /\ Run(permission, rs, FALSE).rules = rs
       /\ ~ Run(permission, rs, FALSE).exited
  BY <1>4, <1>7 DEF Run, RunType
<1>11. Right(Run(permission, rs, FALSE), next)
  BY <1>5, <1>6, <1>9, <1>10 DEF Right
<1>. QED BY <1>1, <1>10, <1>11 DEF next

-----------------------------------------------------------------------------
(* The pairs before the first that is malformed. *)
Bad(all) == {i \in DOMAIN all : all[i] = NULL}
\* The elements before the first malformed one.
Before(all) ==
  IF Bad(all) = {} THEN all
  ELSE SubSeq(all, 1, (CHOOSE i \in Bad(all) : \A j \in Bad(all) : i <= j) - 1)

\* Pairs, malformed ones too.
AllType == Seq({NULL} \cup (PairType \ {NULL}))

\* Where a run is after the pairs of all.
Follows(run, all) ==
  all \in AllType /\ Right(run, Before(all)) /\ (run.exited <=> Bad(all) # {})

\* The first malformed one, if there is any.
LEMMA FirstBad ==
  ASSUME NEW all \in AllType, NEW l \in Nat, l = Len(all), NEW i \in 1 .. l, all[i] = NULL,
         \A j \in 1 .. (i - 1) : all[j] # NULL
  PROVE Before(all) = SubSeq(all, 1, i - 1) /\ Bad(all) # {}
<1>1. DOMAIN all = 1 .. l
  BY Elements DEF AllType
<1>2. i \in Bad(all) /\ \A j \in Bad(all) : i <= j
  BY <1>1 DEF Bad
<1>3. (CHOOSE k \in Bad(all) : \A j \in Bad(all) : k <= j) = i
  <2>1. \A k \in Bad(all) : k \in Nat
    BY <1>1 DEF Bad
  <2>2. \A k \in Bad(all) : (\A j \in Bad(all) : k <= j) => k = i
    BY <1>2, <2>1
  <2>. QED BY <1>2, <2>2
<1>. QED BY <1>2, <1>3 DEF Before

\* Nothing counts any more after a malformed pair.
LEMMA BeforeBad ==
  ASSUME NEW all \in AllType, Bad(all) # {}, NEW more \in AllType
  PROVE all \o more \in AllType /\ Before(all \o more) = Before(all) /\ Bad(all \o more) # {}
<1>1. PICK l \in Nat : l = Len(all) /\ DOMAIN all = 1 .. l
  BY Elements DEF AllType
<1>2. PICK k \in Nat : k = Len(more)
  BY Elements DEF AllType
<1>3. PICK i \in Bad(all) : \A j \in Bad(all) : i <= j
  <2>1. Bad(all) \in SUBSET Nat
    BY <1>1 DEF Bad
  <2>. QED BY <2>1, Least
<1>. DEFINE both == all \o more
<1>4. both \in AllType /\ Len(both) = l + k /\ \A j \in 1 .. l : both[j] = all[j]
  <2>1. /\ both \in AllType /\ Len(both) = l + k
        /\ \A j \in 1 .. (l + k) : both[j] = IF j <= l THEN all[j] ELSE more[j - l]
    BY <1>1, <1>2, ConcatProperties DEF AllType
  <2>2. \A j \in 1 .. l : j \in 1 .. (l + k) /\ j <= l
    OBVIOUS
  <2>. HIDE DEF both
  <2>. QED BY <2>1, <2>2
<1>. HIDE DEF both
<1>5. /\ i \in 1 .. l /\ all[i] = NULL /\ \A j \in 1 .. (i - 1) : all[j] # NULL
  <2>1. i \in 1 .. l /\ all[i] = NULL
    BY <1>1 DEF Bad
  <2>2. \A j \in 1 .. (i - 1) : j \in 1 .. l /\ ~ (i <= j)
    BY <2>1
  <2>. QED BY <1>1, <1>3, <2>1, <2>2 DEF Bad
<1>6. Before(all) = SubSeq(all, 1, i - 1)
  BY <1>1, <1>5, FirstBad
<1>7. Before(both) = SubSeq(both, 1, i - 1) /\ Bad(both) # {}
  <2>1. /\ l + k \in Nat /\ i \in 1 .. (l + k) /\ both[i] = NULL
        /\ \A j \in 1 .. (i - 1) : both[j] # NULL
    BY <1>4, <1>5
  <2>. QED BY <1>4, <2>1, FirstBad
<1>8. SubSeq(both, 1, i - 1) = SubSeq(all, 1, i - 1)
  <2>1. \A j \in 1 .. (i - 1) : both[j] = all[j]
    BY <1>4, <1>5
  <2>2. i - 1 \in Nat
    BY <1>5
  <2>3. /\ SubSeq(both, 1, i - 1) = [j \in 1 .. (i - 1) |-> both[j]]
        /\ SubSeq(all, 1, i - 1) = [j \in 1 .. (i - 1) |-> all[j]]
    BY <2>2
  <2>. QED BY <2>1, <2>3
<1>. QED BY <1>4, <1>6, <1>7, <1>8 DEF both

\* The first malformed pair ends it.
LEMMA BeforeEnd ==
  ASSUME NEW all \in AllType, Bad(all) = {}
  PROVE /\ Append(all, NULL) \in AllType /\ Before(Append(all, NULL)) = all
        /\ Bad(Append(all, NULL)) # {}
<1>1. PICK l \in Nat : l = Len(all) /\ DOMAIN all = 1 .. l
  BY Elements DEF AllType
<1>. DEFINE both == Append(all, NULL)
<1>2. /\ both \in AllType /\ Len(both) = l + 1 /\ both[l + 1] = NULL
      /\ \A j \in 1 .. l : both[j] = all[j]
  BY <1>1, AppendProperties DEF AllType
<1>. HIDE DEF both
<1>3. Before(both) = SubSeq(both, 1, (l + 1) - 1) /\ Bad(both) # {}
  <2>1. \A j \in 1 .. l : both[j] # NULL
    BY <1>1, <1>2 DEF Bad
  <2>2. l + 1 \in Nat /\ l + 1 \in 1 .. (l + 1) /\ (l + 1) - 1 = l
    OBVIOUS
  <2>. QED BY <1>2, <2>1, <2>2, FirstBad
<1>4. SubSeq(both, 1, l) = all
  <2>1. SubSeq(both, 1, l) = [j \in 1 .. l |-> both[j]]
    OBVIOUS
  <2>2. all = [j \in 1 .. l |-> all[j]]
    BY <1>1, LenProperties DEF AllType
  <2>. QED BY <1>2, <2>1, <2>2
<1>. QED BY <1>2, <1>3, <1>4 DEF both

\* A pair that is not malformed is looked at if none before it was.
LEMMA BeforeMore ==
  ASSUME NEW all \in AllType, Bad(all) = {}, NEW pair \in PairType, pair # NULL
  PROVE /\ Append(all, pair) \in AllType /\ Before(Append(all, pair)) = Append(all, pair)
        /\ Bad(Append(all, pair)) = {}
<1>1. PICK l \in Nat : l = Len(all) /\ DOMAIN all = 1 .. l
  BY Elements DEF AllType
<1>. DEFINE both == Append(all, pair)
<1>2. /\ both \in AllType /\ Len(both) = l + 1 /\ both[l + 1] = pair
      /\ \A j \in 1 .. l : both[j] = all[j]
  BY <1>1, AppendProperties DEF AllType
<1>. HIDE DEF both
<1>3. DOMAIN both = 1 .. (l + 1)
  BY <1>2, Elements DEF AllType
<1>4. Bad(both) = {}
  <2>1. \A j \in 1 .. (l + 1) : j \in 1 .. l \/ j = l + 1
    OBVIOUS
  <2>. QED BY <1>1, <1>2, <1>3, <2>1 DEF Bad
<1>. QED BY <1>2, <1>4 DEF Before, both
\* ProcessPair keeps that the rules follow from the pairs.
LEMMA PairFollows ==
  ASSUME Shallow, NEW run, NEW all, Follows(run, all), NEW pair \in {NULL} \cup (PairType \ {NULL})
  PROVE Follows(ProcessPair(run, pair), Append(all, pair))
<1>1. all \in AllType /\ Right(run, Before(all)) /\ (run.exited <=> Bad(all) # {})
  BY DEF Follows
<1>2. CASE run.exited
  <2>1. ProcessPair(run, pair) = run
    <3>1. ProcessPair(run, pair) = [run EXCEPT !.exited = TRUE]
      BY <1>2 DEF ProcessPair
    <3>2. run \in RunType /\ run.exited = TRUE
      BY <1>1, <1>2 DEF Right, RunType
    <3>. QED BY <3>1, <3>2 DEF RunType
  <2>2. <<pair>> \in AllType /\ Append(all, pair) = all \o <<pair>>
    BY <1>1, AppendIsConcat DEF AllType
  <2>3. /\ all \o <<pair>> \in AllType /\ Before(all \o <<pair>>) = Before(all)
        /\ Bad(all \o <<pair>>) # {}
    BY <1>1, <1>2, <2>2, BeforeBad
  <2>. QED BY <1>1, <1>2, <2>1, <2>2, <2>3 DEF Follows
<1>3. CASE ~ run.exited /\ pair = NULL
  <2>1. ProcessPair(run, pair) = [run EXCEPT !.exited = TRUE]
    BY <1>3 DEF ProcessPair
  <2>2. [run EXCEPT !.exited = TRUE] \in RunType
    BY <1>1 DEF Right, RunType
  <2>3. /\ [run EXCEPT !.exited = TRUE].exited
        /\ [run EXCEPT !.exited = TRUE].rules = run.rules
        /\ [run EXCEPT !.exited = TRUE].permission = run.permission
    BY <1>1 DEF Right, RunType
  <2>4. Before(all) = all
    BY <1>1, <1>3 DEF Before
  <2>5. /\ Append(all, NULL) \in AllType /\ Before(Append(all, NULL)) = all
        /\ Bad(Append(all, NULL)) # {}
    BY <1>1, <1>3, BeforeEnd
  <2>6. Right([run EXCEPT !.exited = TRUE], all)
    BY <1>1, <2>2, <2>3, <2>4 DEF Right
  <2>. QED BY <1>3, <2>1, <2>3, <2>5, <2>6 DEF Follows
<1>4. CASE ~ run.exited /\ pair # NULL
  <2>1. Before(all) = all
    BY <1>1, <1>4 DEF Before
  <2>2. pair \in PairType
    BY <1>4
  <2>3. Right(ProcessPair(run, pair), Append(all, pair)) /\ ~ ProcessPair(run, pair).exited
    BY <1>1, <1>4, <2>1, <2>2, PairRight
  <2>4. /\ Append(all, pair) \in AllType /\ Before(Append(all, pair)) = Append(all, pair)
        /\ Bad(Append(all, pair)) = {}
    BY <1>1, <1>4, <2>2, BeforeMore
  <2>. QED BY <2>3, <2>4 DEF Follows
<1>. QED BY <1>2, <1>3, <1>4

\* The pairs of a section as far as they count.
PairsOf(section, comm) ==
  IF <<section.name, comm>> \notin SectionOf THEN <<>>
  ELSE IF section.pairs = NULL THEN <<NULL>> ELSE section.pairs

\* A section of a file.
IsSection(section) ==
  \/ section.pairs = NULL
  \/ section.pairs \in Seq({NULL} \cup [path : Path, letters : {NULL} \cup SUBSET Letter])

\* The pairs of a section, written in the way of FilesAssumption.
LEMMA SameAll == Seq({NULL} \cup [path : Path, letters : {NULL} \cup SUBSET Letter]) = AllType
<1>1. {NULL} \cup [path : Path, letters : {NULL} \cup SUBSET Letter]
        = {NULL} \cup (PairType \ {NULL})
  BY DEF PairType
<1>. QED BY <1>1 DEF AllType

\* ProcessArray keeps that the rules follow from the pairs.
LEMMA PairsFollow ==
  ASSUME Shallow, NEW run, NEW all, Follows(run, all), NEW pairs \in AllType
  PROVE Follows(RunPairs(run, pairs), all \o pairs)
<1>1. PICK L \in Nat : L = Len(pairs) /\ DOMAIN pairs = 1 .. L
                       /\ \A i \in 1 .. L : pairs[i] \in {NULL} \cup (PairType \ {NULL})
  BY Elements DEF AllType
<1>2. PICK g : /\ g[0] = run
               /\ \A n \in 1 .. L : g[n] = ProcessPair(g[n - 1], pairs[n])
               /\ RunPairs(run, pairs) = g[L]
  <2>1. DOMAIN pairs = 1 .. L
    BY <1>1
  <2>2. \A r, q : DOMAIN q = 1 .. L =>
           \E g : /\ g[0] = r
                  /\ \A n \in 1 .. L : g[n] = ProcessPair(g[n - 1], q[n])
                  /\ RunPairs(r, q) = g[L]
    BY PairsFold
  <2>. QED BY <2>1, <2>2
<1>. DEFINE sofar(n) == all \o SubSeq(pairs, 1, n)
            S == {n \in 0 .. L : Follows(g[n], sofar(n))}
<1>3. all \in AllType
  BY DEF Follows
<1>4. 0 \in S
  <2>1. SubSeq(pairs, 1, 0) = <<>>
    BY SubSeqEmpty
  <2>2. all \o <<>> = all
    BY <1>3, ConcatEmptySeq DEF AllType
  <2>3. Follows(g[0], sofar(0)) /\ 0 \in 0 .. L
    <3>1. sofar(0) = all
      BY <2>1, <2>2
    <3>. HIDE DEF sofar
    <3>. QED BY <1>2, <3>1
  <2>. HIDE DEF sofar
  <2>. QED BY <2>3
<1>5. ASSUME NEW n \in 0 .. (L - 1), n \in S PROVE n + 1 \in S
  <2>1. n + 1 \in 1 .. L /\ n + 1 \in 0 .. L /\ (n + 1) - 1 = n /\ n \in Nat
    OBVIOUS
  <2>2. g[n + 1] = ProcessPair(g[n], pairs[n + 1])
    BY <1>2, <2>1
  <2>3. Follows(g[n + 1], Append(sofar(n), pairs[n + 1]))
    BY <1>1, <1>5, <2>1, <2>2, PairFollows
  <2>4. Append(sofar(n), pairs[n + 1]) = sofar(n + 1)
    <3>. DEFINE q == SubSeq(pairs, 1, n)
    <3>1. \A i \in 1 .. n : i \in 1 .. L
      OBVIOUS
    <3>2. q \in AllType
      BY <1>1, <3>1, <2>1, SubSeqProperties DEF AllType
    <3>3. SubSeq(pairs, 1, n + 1) = q \o <<pairs[n + 1]>>
      <4>1. 1 \in 1 .. Len(pairs) /\ n + 1 \in 1 .. Len(pairs)
        BY <1>1, <2>1
      <4>2. SubSeq(pairs, 1, n + 1) = SubSeq(pairs, 1, (n + 1) - 1) \o <<pairs[n + 1]>>
        BY <4>1, SubSeqRecursiveSecond DEF AllType
      <4>. QED BY <2>1, <4>2
    <3>. HIDE DEF q
    <3>4. <<pairs[n + 1]>> \in AllType
      BY <1>1, <2>1 DEF AllType
    <3>5. all \o q \in AllType /\ (all \o q) \o <<pairs[n + 1]>> = all \o (q \o <<pairs[n + 1]>>)
      BY <1>3, <3>2, <3>4, ConcatAssociative, ConcatProperties, SMTT(30) DEF AllType
    <3>6. Append(all \o q, pairs[n + 1]) = (all \o q) \o <<pairs[n + 1]>>
      BY <1>1, <2>1, <3>5, AppendIsConcat DEF AllType
    <3>. QED BY <3>3, <3>5, <3>6 DEF q
  <2>. QED BY <2>1, <2>3, <2>4
<1>. HIDE DEF S
<1>6. \A n \in 0 .. L : n \in S
  BY <1>4, <1>5, Upward
<1>7. Follows(g[L], sofar(L))
  BY <1>6 DEF S
<1>8. SubSeq(pairs, 1, L) = pairs
  BY <1>1, SubSeqFull DEF AllType
<1>. QED BY <1>2, <1>7, <1>8

\* process_array
LEMMA SectionFollows ==
  ASSUME Shallow, NEW run, NEW all, Follows(run, all), NEW section, IsSection(section), NEW comm
  PROVE Follows(ProcessSection(run, section, comm), all \o PairsOf(section, comm))
<1>1. all \in AllType /\ Right(run, Before(all)) /\ (run.exited <=> Bad(all) # {})
  BY DEF Follows
<1>2. CASE <<section.name, comm>> \notin SectionOf
  <2>1. all \o <<>> = all
    BY <1>1, ConcatEmptySeq DEF AllType
  <2>. QED BY <1>2, <2>1 DEF ProcessSection, PairsOf
<1>3. CASE <<section.name, comm>> \in SectionOf
  <2>0. ProcessSection(run, section, comm) = ProcessArray(run, section)
    BY <1>3 DEF ProcessSection
  <2>1. CASE section.pairs = NULL
    <3>1. ProcessArray(run, section) = [run EXCEPT !.exited = TRUE]
      BY <2>1 DEF ProcessArray
    <3>2. ProcessPair(run, NULL) = [run EXCEPT !.exited = TRUE]
      BY DEF ProcessPair
    <3>3. Follows(ProcessPair(run, NULL), Append(all, NULL))
      BY PairFollows
    <3>4. Append(all, NULL) = all \o <<NULL>>
      BY <1>1, AppendIsConcat DEF AllType
    <3>5. PairsOf(section, comm) = <<NULL>>
      BY <1>3, <2>1 DEF PairsOf
    <3>. QED BY <2>0, <3>1, <3>2, <3>3, <3>4, <3>5
  <2>2. CASE section.pairs # NULL
    <3>0. PairsOf(section, comm) = section.pairs /\ section.pairs \in AllType
      BY <1>3, <2>2, SameAll DEF PairsOf, IsSection
    <3>1. CASE run.exited
      <4>1. ProcessArray(run, section) = run
        <5>1. ProcessArray(run, section) = [run EXCEPT !.exited = TRUE]
          BY <3>1 DEF ProcessArray
        <5>2. run \in RunType /\ run.exited = TRUE
          BY <1>1, <3>1 DEF Right, RunType
        <5>. QED BY <5>1, <5>2 DEF RunType
      <4>2. /\ all \o section.pairs \in AllType /\ Before(all \o section.pairs) = Before(all)
            /\ Bad(all \o section.pairs) # {}
        BY <1>1, <3>0, <3>1, BeforeBad
      <4>. QED BY <1>1, <2>0, <3>0, <3>1, <4>1, <4>2 DEF Follows
    <3>2. CASE ~ run.exited
      <4>1. ProcessArray(run, section) = RunPairs(run, section.pairs)
        BY <2>2, <3>2 DEF ProcessArray, RunPairs
      <4>2. Follows(RunPairs(run, section.pairs), all \o section.pairs)
        BY <3>0, PairsFollow
      <4>. QED BY <2>0, <3>0, <4>1, <4>2
    <3>. QED BY <3>1, <3>2
  <2>. QED BY <2>1, <2>2
<1>. QED BY <1>2, <1>3

\* Where the search begins.
LEMMA FollowsNothing == ASSUME Shallow PROVE Follows(Run({}, <<>>, FALSE), <<>>)
<1>1. <<>> \in AllType /\ <<>> \in Seq(PairType) /\ Bad(<<>>) = {} /\ Before(<<>>) = <<>>
  BY DEF AllType, Bad, Before
<1>2. /\ Run({}, <<>>, FALSE).permission = {} /\ Run({}, <<>>, FALSE).rules = <<>>
      /\ Run({}, <<>>, FALSE).exited = FALSE
      /\ Run({}, <<>>, FALSE) \in RunType
  BY DEF Run, RunType, Permissions
<1>3. PermissionAt(<<>>, Len(<<>>)) = {}
  BY DEF PermissionAt, Given
<1>4. \A p \in Path : GivenBy(<<>>, p) = SentFor(<<>>, p)
  BY DEF GivenBy, SentFor, RulesOn, PairsOn
<1>. QED BY <1>1, <1>2, <1>3, <1>4 DEF Follows, Right

\* A file, read or not.
IsFile(file) == \/ file = NULL
                \/ file \in Seq(Range(file)) /\ \A i \in DOMAIN file : IsSection(file[i])

\* Of what a pair covers the right name is sent, and the others are names of what is deeper.
LEMMA NamedIs ==
  ASSUME Shallow, NEW path \in Path, NEW p
  PROVE /\ Covers(path, p) => p \in ToSet(Named(path))
        /\ p \in ToSet(Named(path)) => Covers(path, p) \/ p \in Deep(path)
<1>1. CASE path \notin Slashed
  <2>1. Named(path) = <<path>> /\ (Covers(path, p) <=> path = p)
    BY <1>1 DEF Named, Covers
  <2>2. ToSet(<<path>>) = {path}
    BY DEF ToSet
  <2>. QED BY <2>1, <2>2
<1>2. CASE path \in Slashed /\ path \notin DOMAIN Entries
  <2>1. Named(path) = <<>>
    BY <1>2, BelowIs DEF Named, BelowIn
  <2>2. ToSet(<<>>) = {} /\ Members(path) = {}
    BY <1>2 DEF ToSet, Members
  <2>. QED BY <1>2, <2>1, <2>2 DEF Covers
<1>3. CASE path \in Slashed /\ path \in DOMAIN Entries
  <2>. DEFINE E == Entries[path]
              s == [i \in DOMAIN E |-> IF E[i].directory THEN FilesBelow[E[i].path] ELSE <<E[i].path>>]
  <2>1. PICK L \in Nat : L = Len(E) /\ DOMAIN E = 1 .. L /\ \A i \in 1 .. L : E[i] \in Entry
    BY <1>3, EntriesAssumption, Elements
  <2>2. \A i \in 1 .. L : E[i].path = E[i].file /\ E[i].path \in Path
    BY <1>3, <2>1, EntriesAssumption DEF Entry
  <2>3. Members(path) = {E[i] : i \in 1 .. L}
    BY <1>3, <2>1 DEF Members, ToSet
  <2>4. Named(path) = FlattenSeq(s)
    BY <1>3, BelowIs DEF Named, BelowIn
  <2>. HIDE DEF E
  <2>5. s \in Seq(Seq(Path)) /\ DOMAIN s = 1 .. L
    <3>1. \A i \in 1 .. L : s[i] \in Seq(Path)
      BY <2>1, <2>2, BelowType
    <3>2. s \in [1 .. L -> Seq(Path)]
      BY <2>1, <3>1
    <3>. HIDE DEF s
    <3>. QED BY <3>2, IsASeq
  <2>6. ASSUME NEW i \in 1 .. L
        PROVE s[i] = IF E[i].directory THEN FilesBelow[E[i].path] ELSE <<E[i].path>>
    BY <2>1
  <2>. HIDE DEF s
  <2>7. p \in ToSet(Named(path)) <=> \E i \in 1 .. L : p \in ToSet(s[i])
    BY <2>4, <2>5, FlatSet
  <2>8. \A x : ToSet(<<x>>) = {x}
    BY DEF ToSet
  <2>9. ASSUME Covers(path, p) PROVE p \in ToSet(Named(path))
    <3>1. PICK i \in 1 .. L : ~ E[i].directory /\ E[i].file = p
      BY <1>3, <2>3, <2>9 DEF Covers
    <3>2. s[i] = <<p>>
      BY <2>2, <2>6, <3>1
    <3>. QED BY <2>7, <2>8, <3>2
  <2>10. ASSUME p \in ToSet(Named(path)) PROVE Covers(path, p) \/ p \in Deep(path)
    <3>1. PICK i \in 1 .. L : p \in ToSet(s[i])
      BY <2>7, <2>10
    <3>2. CASE E[i].directory
      <4>1. p \in ToSet(FilesBelow[E[i].path]) /\ E[i] \in Members(path)
        BY <2>3, <2>6, <3>1, <3>2
      <4>. QED BY <1>3, <3>2, <4>1 DEF Deep
    <3>3. CASE ~ E[i].directory
      <4>1. E[i].file = p /\ E[i] \in Members(path)
        BY <2>2, <2>3, <2>6, <2>8, <3>1, <3>3
      <4>. QED BY <1>3, <3>3, <4>1 DEF Covers
    <3>. QED BY <3>2, <3>3
  <2>. QED BY <2>9, <2>10
<1>. QED BY <1>1, <1>2, <1>3

\* The pairs that have to do with p, and what is claimed of it.
AboutIn(pairs, p) ==
  {i \in DOMAIN pairs : Covers(pairs[i].path, p) \/ p \in Deep(pairs[i].path)}
ClaimOf(pairs, p) ==
  IF AboutIn(pairs, p) # {} /\ Covers(pairs[Latest(AboutIn(pairs, p))].path, p)
       /\ pairs[Latest(AboutIn(pairs, p))].letters # NULL
  THEN ModeValue(pairs[Latest(AboutIn(pairs, p))].letters) ELSE NULL

\* Asked in the terms of this module.
LEMMA AskedIs ==
  \A file, comm : Asked(file, comm) = [p \in Path |-> ClaimOf(PairsFor(file, comm), p)]
BY DEF Asked, ClaimOf, AboutIn, Latest

\* Where something is claimed of a path, the last pair for which it is sent says the same.
LEMMA ClaimIsSent ==
  ASSUME Shallow, NEW pairs \in Seq(PairType), NEW p \in Path, ClaimOf(pairs, p) # NULL
  PROVE SentFor(pairs, p) = ClaimOf(pairs, p)
<1>1. PICK L \in Nat : L = Len(pairs) /\ DOMAIN pairs = 1 .. L
                       /\ \A i \in 1 .. L : pairs[i] \in PairType
  BY Elements
<1>2. AboutIn(pairs, p) \in SUBSET (1 .. L) /\ AboutIn(pairs, p) # {}
  BY <1>1 DEF AboutIn, ClaimOf
<1>3. PICK l : l = Latest(AboutIn(pairs, p))
  OBVIOUS
<1>4. l \in 1 .. L /\ \A j \in AboutIn(pairs, p) : j <= l
  BY <1>2, <1>3, LatestIn
<1>5. /\ Covers(pairs[l].path, p) /\ pairs[l].letters # NULL
      /\ ClaimOf(pairs, p) = ModeValue(pairs[l].letters)
  BY <1>3 DEF ClaimOf
<1>6. \A i \in 1 .. L : pairs[i].path \in Path
  BY <1>1 DEF PairType
<1>7. l \in PairsOn(pairs, p)
  BY <1>1, <1>4, <1>5, <1>6, NamedIs DEF PairsOn
<1>8. PairsOn(pairs, p) \subseteq AboutIn(pairs, p)
  BY <1>1, <1>6, NamedIs DEF PairsOn, AboutIn
<1>9. Latest(PairsOn(pairs, p)) = l
  <2>1. \A j \in PairsOn(pairs, p) : j \in Nat /\ j <= l
    BY <1>2, <1>4, <1>8
  <2>. QED BY <1>4, <1>7, <2>1, LatestIs
<1>10. Latest(Given(pairs, l)) = l /\ Given(pairs, l) # {}
  <2>1. l \in Given(pairs, l) /\ \A j \in Given(pairs, l) : j \in Nat /\ j <= l
    BY <1>4, <1>5 DEF Given
  <2>. QED BY <1>4, <2>1, LatestIs
<1>. QED BY <1>5, <1>7, <1>9, <1>10 DEF SentFor, PermissionAt

\* json_process sends the pairs of the file, up to the first malformed one.
LEMMA JsonSent ==
  ASSUME Shallow, NEW file, IsFile(file), NEW comm
  PROVE /\ JsonProcess(file, comm).rules \in Seq(RuleType)
        /\ PairsFor(file, comm) \in Seq(PairType)
        /\ \A p \in Path : GivenBy(JsonProcess(file, comm).rules, p)
                              = SentFor(PairsFor(file, comm), p)
<1>. DEFINE parts == [i \in DOMAIN file |-> PairsOf(file[i], comm)]
<1>3. CASE file = NULL
  <2>1. JsonProcess(file, comm).rules = <<>> /\ PairsFor(file, comm) = <<>>
    BY <1>3 DEF JsonProcess, Run, PairsFor
  <2>2. \A p \in Path : GivenBy(<<>>, p) = SentFor(<<>>, p)
    BY DEF GivenBy, SentFor, RulesOn, PairsOn
  <2>3. <<>> \in Seq(RuleType) /\ <<>> \in Seq(PairType)
    OBVIOUS
  <2>. QED BY <2>1, <2>2, <2>3
<1>4. CASE file # NULL
  <2>0. PICK L \in Nat : L = Len(file) /\ DOMAIN file = 1 .. L
    BY <1>4, Elements DEF IsFile
  <2>1. PairsFor(file, comm) = Before(FlattenSeq(parts))
    BY <1>4 DEF PairsFor, PairsOf, Before, Bad
  <2>2. \A i \in 1 .. L : IsSection(file[i]) /\ PairsOf(file[i], comm) \in AllType
    <3>1. \A i \in 1 .. L : IsSection(file[i])
      BY <1>4, <2>0 DEF IsFile
    <3>2. <<>> \in AllType /\ <<NULL>> \in AllType
      BY DEF AllType
    <3>. QED BY <3>1, <3>2, SameAll DEF PairsOf, IsSection
  <2>3. /\ Len(parts) = L /\ \A i \in 1 .. L : parts[i] = PairsOf(file[i], comm)
        /\ \A i \in 1 .. L : parts[i] \in AllType /\ (L = 0 => parts = <<>>)
    BY <2>0, <2>2
  <2>4. L = 0 => parts = <<>>
    BY <2>0
  <2>. HIDE DEF parts
  <2>5. PICK f : /\ f[0] = <<>> /\ \A n \in 1 .. L : f[n] = f[n - 1] \o parts[n]
                 /\ FlattenSeq(parts) = IF L = 0 THEN parts ELSE f[L]
    BY <2>3, Flat, ZenonT(30) DEF AllType
  <2>6. FlattenSeq(parts) = f[L]
    BY <2>4, <2>5
  <2>. DEFINE start == Run({}, <<>>, FALSE)
  <2>7. JsonProcess(file, comm)
          = RunSections(start, file, comm)
    BY <1>4 DEF JsonProcess, RunSections
  <2>. HIDE DEF start
  <2>8. PICK g : /\ g[0] = start
                 /\ \A n \in 1 .. L : g[n] = ProcessSection(g[n - 1], file[n], comm)
                 /\ RunSections(start, file, comm) = g[L]
    BY <2>0, SectionsFold
  <2>. DEFINE S == {n \in 0 .. L : Follows(g[n], f[n])}
  <2>9. 0 \in S
    <3>0. Follows(start, <<>>)
      BY FollowsNothing DEF start
    <3>1. Follows(g[0], f[0]) /\ 0 \in 0 .. L
      BY <2>5, <2>8, <3>0
    <3>. QED BY <3>1
  <2>10. ASSUME NEW n \in 0 .. (L - 1), n \in S PROVE n + 1 \in S
    <3>1. n + 1 \in 1 .. L /\ n + 1 \in 0 .. L /\ (n + 1) - 1 = n
      OBVIOUS
    <3>2. /\ g[n + 1] = ProcessSection(g[n], file[n + 1], comm)
          /\ f[n + 1] = f[n] \o PairsOf(file[n + 1], comm)
      BY <2>3, <2>5, <2>8, <3>1
    <3>3. Follows(g[n], f[n]) /\ IsSection(file[n + 1])
      BY <2>2, <2>10, <3>1
    <3>4. Follows(g[n + 1], f[n + 1])
      BY <3>2, <3>3, SectionFollows
    <3>. QED BY <3>1, <3>4
  <2>. HIDE DEF S
  <2>11. \A n \in 0 .. L : n \in S
    BY <2>9, <2>10, Upward
  <2>12. Follows(JsonProcess(file, comm), FlattenSeq(parts))
    BY <2>6, <2>7, <2>8, <2>11 DEF S
  <2>. QED BY <2>1, <2>12 DEF Follows, Right, RunType
<1>. QED BY <1>3, <1>4

\* What is sent last for a path is what the file asks for.
LEMMA JsonAsked ==
  ASSUME Shallow, NEW file, IsFile(file), NEW comm, NEW p \in Path, Asked(file, comm)[p] # NULL
  PROVE GivenBy(JsonProcess(file, comm).rules, p) = Asked(file, comm)[p]
<1>1. Asked(file, comm)[p] = ClaimOf(PairsFor(file, comm), p)
  BY AskedIs
<1>2. SentFor(PairsFor(file, comm), p) = ClaimOf(PairsFor(file, comm), p)
  BY <1>1, JsonSent, ClaimIsSent
<1>. QED BY <1>1, <1>2, JsonSent

-----------------------------------------------------------------------------
(* The messages of a run of nluser. *)
MessageType ==
  {m \in [type : {"rule", "clear", "target"}, comm : Comm \cup {NULL},
          path : Path \cup {NULL}, permission : Permissions] :
     /\ m.type = "rule" => m.path \in Path
     /\ m.type = "target" => m.comm \in Comm}

\* A rule for p.
IsRule(m, p) == m.type = "rule" /\ m.path = p

\* The last rule for p that q has, if any; and a queue without "clear".
Pending(q, p, permission) ==
  \E i \in 1 .. Len(q) : /\ IsRule(q[i], p) /\ q[i].permission = permission
                         /\ \A j \in 1 .. Len(q) : IsRule(q[j], p) => j <= i
NoneFor(q, p) == \A i \in 1 .. Len(q) : ~ IsRule(q[i], p)
NoClear(q) == \A i \in 1 .. Len(q) : q[i].type # "clear"

\* What a file asks for.
LEMMA AskedType == \A file, comm : Asked(file, comm) \in [Path -> Permissions \cup {NULL}]
<1>1. \A pairs, p : ClaimOf(pairs, p) \in Permissions \cup {NULL}
  BY LettersType DEF ClaimOf
<1>. QED BY <1>1, AskedIs

\* The files of the model are files.
LEMMA FilesAre == \A file \in Files : IsFile(file)
BY FilesAssumption DEF IsFile, IsSection

\* Commands that set the target and then the rules found: the queue of a run.
LEMMA SentRules ==
  ASSUME NEW rs \in Seq(RuleType), NEW first \in Seq(MessageType),
         \A i \in 1 .. Len(first) : first[i].type = "target"
  PROVE  LET q == first \o [i \in DOMAIN rs |-> Message("rule", NULL, rs[i].path, rs[i].permission)]
         IN  /\ q \in Seq(MessageType) /\ NoClear(q)
             /\ \A p \in Path : GivenBy(rs, p) # NULL => Pending(q, p, GivenBy(rs, p))
<1>. DEFINE new == [i \in DOMAIN rs |-> Message("rule", NULL, rs[i].path, rs[i].permission)]
            q == first \o new
<1>1. PICK l \in Nat : l = Len(first)
  BY Elements
<1>2. PICK k \in Nat : k = Len(rs) /\ DOMAIN rs = 1 .. k /\ \A i \in 1 .. k : rs[i] \in RuleType
  BY Elements
<1>3. /\ new \in Seq(MessageType) /\ Len(new) = k
      /\ \A i \in 1 .. k : /\ new[i].type = "rule" /\ new[i].path = rs[i].path
                           /\ new[i].permission = rs[i].permission
  <2>1. \A i \in 1 .. k : Message("rule", NULL, rs[i].path, rs[i].permission) \in MessageType
    BY <1>2 DEF Message, MessageType, RuleType
  <2>2. new = [i \in 1 .. k |-> Message("rule", NULL, rs[i].path, rs[i].permission)]
    BY <1>2
  <2>3. new \in Seq(MessageType) /\ Len(new) = k
    BY <2>1, <2>2
  <2>. QED BY <2>2, <2>3 DEF Message
<1>. HIDE DEF new
<1>4. /\ q \in Seq(MessageType) /\ Len(q) = l + k
      /\ \A i \in 1 .. (l + k) : q[i] = IF i <= l THEN first[i] ELSE new[i - l]
  BY <1>1, <1>3, ConcatProperties, SMTT(30)
<1>. HIDE DEF q
<1>5. ASSUME NEW i \in 1 .. (l + k)
      PROVE \/ i \in 1 .. l /\ q[i].type = "target"
            \/ /\ i - l \in 1 .. k /\ q[i].type = "rule" /\ q[i].path = rs[i - l].path
               /\ q[i].permission = rs[i - l].permission
  <2>1. CASE i <= l
    BY <1>1, <1>4, <2>1
  <2>2. CASE ~ (i <= l)
    <3>1. i - l \in 1 .. k
      BY <2>2
    <3>. QED BY <1>3, <1>4, <2>2, <3>1
  <2>. QED BY <2>1, <2>2
<1>6. NoClear(q)
  BY <1>4, <1>5 DEF NoClear
<1>7. ASSUME NEW p \in Path, GivenBy(rs, p) # NULL PROVE Pending(q, p, GivenBy(rs, p))
  <2>1. RulesOn(rs, p) # {} /\ RulesOn(rs, p) \in SUBSET (1 .. k)
    BY <1>2, <1>7 DEF GivenBy, RulesOn
  <2>2. PICK m \in RulesOn(rs, p) : m = Latest(RulesOn(rs, p)) /\ \A j \in RulesOn(rs, p) : j <= m
    BY <2>1, LatestIn
  <2>3. m \in 1 .. k /\ l + m \in 1 .. (l + k) /\ (l + m) - l = m
    BY <2>1
  <2>4. ~ (l + m <= l)
    BY <2>3
  <2>5. q[l + m] = new[m]
    BY <1>4, <2>3, <2>4
  <2>6. IsRule(q[l + m], p) /\ q[l + m].permission = GivenBy(rs, p)
    BY <1>3, <2>1, <2>2, <2>3, <2>5 DEF IsRule, RulesOn, GivenBy
  <2>7. ASSUME NEW j \in 1 .. (l + k), IsRule(q[j], p) PROVE j <= l + m
    <3>1. CASE j \in 1 .. l
      BY <2>3, <3>1
    <3>2. CASE j - l \in RulesOn(rs, p)
      <4>1. j - l <= m
        BY <2>2, <3>2
      <4>. QED BY <2>3, <4>1
    <3>3. j \in 1 .. l \/ j - l \in RulesOn(rs, p)
      BY <1>2, <1>5, <2>7 DEF IsRule, RulesOn
    <3>. QED BY <3>1, <3>2, <3>3
  <2>. QED BY <1>4, <2>3, <2>6, <2>7 DEF Pending
<1>. QED BY <1>4, <1>6, <1>7 DEF q, new

\* What Start puts into the queue.
LEMMA MessagesAre ==
  ASSUME Shallow, NEW options \in Options, NEW file \in Files
  PROVE /\ Messages(options, file) \in Seq(MessageType)
        /\ Resets(options) = {} =>
             /\ NoClear(Messages(options, file))
             /\ \A p \in Path : Asked(file, Section(options))[p] # NULL =>
                  Pending(Messages(options, file), p, Asked(file, Section(options))[p])
<1>. DEFINE command(i) == IF options[i] = "-r" THEN Clear ELSE SetTarget(options[i])
            found == JsonProcess(file, Section(options)).rules
            rest == [i \in DOMAIN found |->
                       Message("rule", NULL, found[i].path, found[i].permission)]
<1>1. PICK L \in Nat : L = Len(options) /\ DOMAIN options = 1 .. L
                       /\ \A i \in 1 .. L : options[i] \in Comm \cup {"-r"}
  BY OptionsAssumption, Elements
<1>2. ASSUME NEW i \in 1 .. L
      PROVE command(i) \in MessageType /\ (options[i] # "-r" => command(i).type = "target")
  <2>1. Clear \in MessageType
    BY DEF Clear, Message, MessageType, Permissions
  <2>2. ASSUME NEW comm \in Comm
        PROVE SetTarget(comm) \in MessageType /\ SetTarget(comm).type = "target"
    BY DEF SetTarget, Message, MessageType, Permissions
  <2>. QED BY <1>1, <2>1, <2>2
<1>. HIDE DEF command
<1>3. ASSUME NEW l \in Nat, l <= L
      PROVE /\ [i \in 1 .. l |-> command(i)] \in Seq(MessageType)
            /\ Len([i \in 1 .. l |-> command(i)]) = l
  <2>1. \A i \in 1 .. l : i \in 1 .. L
    BY <1>3
  <2>. QED BY <1>2, <2>1
<1>4. CASE Resets(options) # {}
  <2>. DEFINE last == CHOOSE i \in Resets(options) : \A j \in Resets(options) : i <= j
  <2>1. last \in 1 .. L
    <3>1. Resets(options) \in SUBSET Nat /\ Resets(options) \in SUBSET (1 .. L)
      BY <1>1 DEF Resets
    <3>2. \E i \in Resets(options) : \A j \in Resets(options) : i <= j
      BY <1>4, <3>1, Least
    <3>3. last \in Resets(options)
      BY <3>2
    <3>. HIDE DEF last
    <3>. QED BY <3>1, <3>3
  <2>2. Messages(options, file) = [i \in 1 .. last |-> command(i)] \o <<>>
    BY <1>4 DEF Messages, command
  <2>. HIDE DEF last
  <2>3. [i \in 1 .. last |-> command(i)] \in Seq(MessageType)
    BY <1>3, <2>1
  <2>4. [i \in 1 .. last |-> command(i)] \o <<>> = [i \in 1 .. last |-> command(i)]
    BY <2>3, ConcatEmptySeq
  <2>. QED BY <1>4, <2>2, <2>3, <2>4
<1>5. CASE Resets(options) = {}
  <2>. DEFINE first == [i \in 1 .. L |-> command(i)]
  <2>1. Messages(options, file) = first \o rest
    BY <1>1, <1>5 DEF Messages, command
  <2>2. first \in Seq(MessageType) /\ Len(first) = L /\ \A i \in 1 .. L : first[i].type = "target"
    <3>1. \A i \in 1 .. L : options[i] # "-r"
      BY <1>1, <1>5 DEF Resets
    <3>. QED BY <1>2, <1>3, <3>1
  <2>3. /\ found \in Seq(RuleType)
        /\ \A p \in Path : Asked(file, Section(options))[p] # NULL =>
             GivenBy(found, p) = Asked(file, Section(options))[p]
    BY FilesAre, JsonSent, JsonAsked
  <2>. HIDE DEF first, found
  <2>4. /\ first \o rest \in Seq(MessageType) /\ NoClear(first \o rest)
        /\ \A p \in Path : GivenBy(found, p) # NULL => Pending(first \o rest, p, GivenBy(found, p))
    BY <2>2, <2>3, SentRules
  <2>. HIDE DEF rest
  <2>. QED BY <1>5, <2>1, <2>3, <2>4
<1>. QED BY <1>4, <1>5

\* The queue after its first message.
LEMMA TailIs ==
  ASSUME NEW q \in Seq(MessageType), q # <<>>
  PROVE /\ Head(q) \in MessageType /\ Tail(q) \in Seq(MessageType)
        /\ NoClear(q) => NoClear(Tail(q)) /\ Head(q).type # "clear"
        /\ \A p : NoneFor(q, p) => NoneFor(Tail(q), p) /\ ~ IsRule(Head(q), p)
        /\ \A p, permission : Pending(q, p, permission) =>
             \/ Pending(Tail(q), p, permission)
             \/ NoneFor(Tail(q), p) /\ IsRule(Head(q), p) /\ Head(q).permission = permission
<1>1. PICK l \in Nat \ {0} : l = Len(q)
  BY EmptySeq
<1>. DEFINE t == Tail(q)
<1>2. /\ Head(q) \in MessageType /\ t \in Seq(MessageType) /\ Head(q) = q[1] /\ Len(t) = l - 1
      /\ \A i \in 1 .. (l - 1) : t[i] = q[i + 1]
  BY <1>1, HeadTailProperties
<1>. HIDE DEF t
<1>3. \A i \in 1 .. (l - 1) : i + 1 \in 1 .. l
  OBVIOUS
<1>4. 1 \in 1 .. l
  OBVIOUS
<1>5. NoClear(q) => NoClear(t) /\ Head(q).type # "clear"
  BY <1>1, <1>2, <1>3, <1>4 DEF NoClear
<1>6. \A p : NoneFor(q, p) => NoneFor(t, p) /\ ~ IsRule(Head(q), p)
  BY <1>1, <1>2, <1>3, <1>4 DEF NoneFor
<1>7. ASSUME NEW p, NEW permission, Pending(q, p, permission)
      PROVE \/ Pending(t, p, permission)
            \/ NoneFor(t, p) /\ IsRule(Head(q), p) /\ Head(q).permission = permission
  <2>1. PICK i \in 1 .. l : /\ IsRule(q[i], p) /\ q[i].permission = permission
                            /\ \A j \in 1 .. l : IsRule(q[j], p) => j <= i
    BY <1>1, <1>7 DEF Pending
  <2>2. ASSUME NEW j \in 1 .. (l - 1), IsRule(t[j], p) PROVE j + 1 <= i
    BY <1>2, <1>3, <2>1, <2>2
  <2>3. CASE i = 1
    <3>1. \A j \in 1 .. (l - 1) : ~ (j + 1 <= 1)
      OBVIOUS
    <3>. QED BY <1>2, <2>1, <2>2, <2>3, <3>1 DEF NoneFor
  <2>4. CASE i # 1
    <3>1. i - 1 \in 1 .. (l - 1) /\ (i - 1) + 1 = i
      BY <2>4
    <3>2. t[i - 1] = q[i]
      BY <1>2, <3>1
    <3>3. \A j \in 1 .. (l - 1) : IsRule(t[j], p) => j <= i - 1
      BY <2>2
    <3>. QED BY <1>2, <2>1, <3>1, <3>2, <3>3 DEF Pending
  <2>. QED BY <2>3, <2>4
<1>. QED BY <1>2, <1>5, <1>6, <1>7 DEF t

-----------------------------------------------------------------------------
\* A process in a hook has a call; only the kernel makes it dead.
ProcessesTyped ==
  /\ pc = [p \in Process |-> pc[p]] /\ call = [p \in Process |-> call[p]]
  /\ fault = [p \in Process |-> fault[p]]
  /\ \A p \in Process : /\ pc[p] \in {"idle", "dead"} \/ InHook(p)
                        /\ pc[p] = "dead" <=> fault[p] # "none"
                        /\ call[p] # NULL <=> InHook(p)

\* A handler has a message; while there is one the module is loaded and user_t is set.
SendersTyped ==
  /\ at = [s \in Sender |-> at[s]] /\ queue = [s \in Sender |-> queue[s]]
  /\ copying = [s \in Sender |-> copying[s]]
  /\ phase \in {"out", "exit", "recover", "protect_out"} => \A s \in Sender : at[s] = "none"
  /\ \A s \in Sender : /\ queue[s] \in Seq(MessageType)
                       /\ Handling(s) => queue[s] # <<>> /\ user_t \in Sender
                       /\ copying[s] \in Comm \cup {NULL}
                       /\ at[s] = "targeting" <=> copying[s] # NULL

\* The types of the globals.
RuleMaps == [Path -> Permissions \cup {NULL}]
GlobalsTyped ==
  /\ map \in {NULL, "map"} /\ target \in Comm \cup {NULL} /\ user_t \in Sender \cup {NULL}
  /\ mapuser_t \in [path : Path \cup {NULL}, permission : Permissions]
  /\ rules \in RuleMaps /\ sent \in RuleMaps /\ asked \in RuleMaps /\ created \in BOOLEAN

\* The inductive invariant of the types.
Typed == TableSteps /\ ProcessesTyped /\ SendersTyped /\ GlobalsTyped /\ writable \in BOOLEAN

LEMMA TypedOK == Typed => TypeOK
BY DEF Typed, TypeOK, TableSteps, ProcessesTyped, SendersTyped, GlobalsTyped, RuleMaps

LEMMA NoRulesTyped == NoRules \in RuleMaps
BY DEF NoRules, RuleMaps

LEMMA TypedInit == Init => Typed
<1>. SUFFICES ASSUME Init PROVE Typed
  OBVIOUS
<1>1. ProcessesTyped
  BY DEF Init, ProcessesTyped, InHook
<1>2. SendersTyped
  <2>1. <<>> \in Seq(MessageType)
    OBVIOUS
  <2>. QED BY <2>1 DEF Init, SendersTyped, Handling
<1>3. GlobalsTyped
  BY NoRulesTyped, CommAssumption DEF Init, GlobalsTyped, Nothing, Permissions
<1>4. TableSteps /\ writable \in BOOLEAN
  BY TableStepsInit DEF Init
<1>. QED BY <1>1, <1>2, <1>3, <1>4 DEF Typed

\* The types of the processes; only Enter needs those of the table.
LEMMA ProcessesNext ==
  ASSUME TableSteps, ProcessesTyped, [Next]_vars
  PROVE  ProcessesTyped'
<1>. USE DEF ProcessesTyped, InHook
<1>1. CASE Load \/ Unload \/ Unprotect \/ Store \/ Replace \/ Recover
  BY <1>1 DEF Load, Unload, Unprotect, Store, Replace, Recover, calls
<1>2. CASE Protect
  BY <1>2 DEF Protect
<1>3. ASSUME NEW p \in Process, Enter(p) PROVE ProcessesTyped'
  <2>1. PICK r \in Request :
          call' = [call EXCEPT ![p] = [fn |-> r.fn, path |-> r.path, mode |-> r.mode,
                                       real |-> saved[r.fn]]]
    BY <1>3 DEF Enter
  <2>. DEFINE c == [fn |-> r.fn, path |-> r.path, mode |-> r.mode, real |-> saved[r.fn]]
  <2>2. r \in [fn : Function, path : Path, mode : Mode]
    BY RequestAssumption
  <2>3. saved[r.fn] \in {NULL, "real", "hook"}
    BY <2>2 DEF TableSteps
  <2>4. c \in [fn : Function, path : Path, mode : Mode, real : {NULL, "real", "hook"}]
    BY <2>2, <2>3
  <2>5. c # NULL
    BY <2>4, NullAssumption
  <2>6. call' = [call EXCEPT ![p] = c]
    BY <2>1
  <2>. HIDE DEF c
  <2>. QED BY <1>3, <2>5, <2>6 DEF Enter, Go
<1>4. ASSUME NEW p \in Process, Compare(p) PROVE ProcessesTyped'
  BY <1>4 DEF Compare, Go
<1>5. ASSUME NEW p \in Process, Check(p) PROVE ProcessesTyped'
  BY <1>5, ZenonT(30) DEF Check, Go, Die, Leave
<1>6. ASSUME NEW p \in Process, Return(p) PROVE ProcessesTyped'
  BY <1>6 DEF Return, Go, Die, Leave
<1>7. ASSUME NEW s \in Sender, Start(s) \/ Stop(s) \/ Handle(s) PROVE ProcessesTyped'
  BY <1>7 DEF Start, Stop, Handle, Send, TestMap, CreateMap, Switch, CopyPath, CopyPermission,
              SetRule, ClearRules, Retarget, calls
<1>8. CASE UNCHANGED vars
  BY <1>8 DEF vars, calls
<1>. QED BY <1>1, <1>2, <1>3, <1>4, <1>5, <1>6, <1>7, <1>8 DEF Next, Hooking, Hooked

\* Whatever user_t points to is a message of nluser.
LEMMA PointedTyped ==
  ASSUME Shallow, SendersTyped, user_t \in Sender PROVE Pointed \in SUBSET MessageType
<1>1. CASE Handling(user_t)
  <2>1. queue[user_t] \in Seq(MessageType) /\ queue[user_t] # <<>>
    BY <1>1 DEF SendersTyped
  <2>2. Own(user_t) \in MessageType
    BY <2>1, TailIs DEF Own
  <2>. QED BY <1>1, <2>2 DEF Pointed
<1>2. CASE ~ Handling(user_t)
  <2>1. \A options \in Options, file \in Files : Messages(options, file) \in Seq(MessageType)
    BY MessagesAre
  <2>2. \A options \in Options, file \in Files :
          Range(Messages(options, file)) \in SUBSET MessageType
    <3>1. \A q \in Seq(MessageType) : Range(q) \in SUBSET MessageType
      BY Elements DEF Range
    <3>. QED BY <2>1, <3>1
  <2>. QED BY <1>2, <2>2 DEF Pointed
<1>. QED BY <1>1, <1>2

\* Every handler leaves a queue of messages.
LEMMA SendersNext ==
  ASSUME Shallow, SendersTyped, [Next]_vars
  PROVE  SendersTyped'
<1>. USE DEF SendersTyped, Handling, Move
<1>1. CASE Load
  BY <1>1 DEF Load, senders
<1>2. CASE Unload
  BY <1>2 DEF Unload, globals, senders
<1>3. CASE Hooking
  <2>1. UNCHANGED <<globals, senders>>
    BY <1>3 DEF Hooking, Unprotect, Store, Replace, Recover, Protect
  <2>2. phase' \in {"out", "exit", "recover", "protect_out"}
          => phase \in {"out", "exit", "recover", "protect_out"}
    BY <1>3 DEF Hooking, Unprotect, Store, Replace, Recover, Protect, NextEntry
  <2>3. QED BY <2>1, <2>2 DEF globals, senders
<1>4. ASSUME NEW p \in Process, Enter(p) \/ Hooked(p) PROVE SendersTyped'
  <2>1. UNCHANGED <<hooks, globals, senders>>
    BY <1>4 DEF Enter, Hooked, Compare, Check, Return
  <2>2. QED BY <2>1 DEF hooks, globals, senders
<1>5. ASSUME NEW s \in Sender, Start(s) PROVE SendersTyped'
  <2>1. PICK q \in Seq(MessageType) : queue' = [queue EXCEPT ![s] = q]
    BY <1>5, MessagesAre DEF Start
  <2>2. /\ at[s] = "none" /\ at' = [at EXCEPT ![s] = "ready"]
        /\ phase \notin {"out", "exit", "recover", "protect_out"}
        /\ UNCHANGED <<phase, user_t, copying>>
    BY <1>5 DEF Start, hooks, globals
  <2>. QED BY <2>1, <2>2
<1>6. ASSUME NEW s \in Sender, Stop(s) PROVE SendersTyped'
  <2>1. <<>> \in Seq(MessageType)
    OBVIOUS
  <2>. QED BY <1>6, <2>1 DEF Stop, hooks, globals
<1>7. ASSUME NEW s \in Sender, Handle(s) PROVE SendersTyped'
  <2>1. CASE Send(s)
    BY <1>7, <2>1 DEF Send, hooks
  <2>2. CASE TestMap(s)
    BY <1>7, <2>2 DEF TestMap, hooks, globals
  <2>3. CASE CreateMap(s)
    BY <1>7, <2>3 DEF CreateMap, hooks
  <2>4. CASE Switch(s)
    <3>1. Pointed \in SUBSET MessageType
      BY <2>4, PointedTyped DEF Switch
    <3>2. \A m \in Pointed : m.type = "target" => m.comm \in Comm /\ m.comm # NULL
      BY <3>1, NullAssumption DEF MessageType
    <3>. QED BY <2>4, <3>2 DEF Switch, hooks
  <2>5. CASE CopyPath(s) \/ CopyPermission(s)
    BY <1>7, <2>5 DEF CopyPath, CopyPermission, hooks
  <2>6. ASSUME queue[s] # <<>> PROVE Tail(queue[s]) \in Seq(MessageType)
    BY <2>6, TailIs
  <2>7. <<>> \in Seq(MessageType)
    OBVIOUS
  <2>8. CASE SetRule(s)
    BY <1>7, <2>6, <2>7, <2>8 DEF SetRule, Killed, Handled, hooks
  <2>9. CASE ClearRules(s)
    BY <1>7, <2>6, <2>7, <2>9 DEF ClearRules, Killed, Handled, hooks
  <2>10. CASE Retarget(s)
    BY <1>7, <2>6, <2>10 DEF Retarget, Handled, hooks
  <2>. QED BY <1>7, <2>1, <2>2, <2>3, <2>4, <2>5, <2>8, <2>9, <2>10 DEF Handle
<1>8. CASE UNCHANGED vars
  BY <1>8 DEF vars, hooks, globals, senders
<1>. QED BY <1>1, <1>2, <1>3, <1>4, <1>5, <1>6, <1>7, <1>8 DEF Next

\* Whatever is copied into the globals has their types.
LEMMA GlobalsNext ==
  ASSUME Shallow, SendersTyped, GlobalsTyped, [Next]_vars
  PROVE  GlobalsTyped'
<1>. USE DEF GlobalsTyped
<1>1. CASE Load
  BY <1>1, NoRulesTyped, CommAssumption DEF Load, Nothing, Permissions
<1>2. CASE Unload \/ Hooking
  BY <1>2 DEF Unload, Hooking, Unprotect, Store, Replace, Recover, Protect, globals, history
<1>3. ASSUME NEW p \in Process, Enter(p) \/ Hooked(p) PROVE GlobalsTyped'
  BY <1>3 DEF Enter, Hooked, Compare, Check, Return, globals, history
<1>4. ASSUME NEW s \in Sender, Start(s) \/ Stop(s) PROVE GlobalsTyped'
  BY <1>4, NoRulesTyped, AskedType DEF Start, Stop, globals, RuleMaps
<1>5. ASSUME NEW s \in Sender, Handle(s) PROVE GlobalsTyped'
  <2>1. CASE Send(s)
    BY <1>5, <2>1 DEF Send, history
  <2>2. CASE TestMap(s)
    BY <2>2 DEF TestMap, globals, history
  <2>3. CASE CreateMap(s)
    BY <2>3, NoRulesTyped DEF CreateMap
  <2>4. CASE Switch(s)
    BY <2>4 DEF Switch, history
  <2>5. CASE CopyPath(s) \/ CopyPermission(s)
    <3>1. user_t \in Sender
      BY <2>5 DEF CopyPath, CopyPermission, SendersTyped, Handling
    <3>2. \A m \in Pointed : m.path \in Path \cup {NULL} /\ m.permission \in Permissions
      BY <3>1, PointedTyped DEF MessageType
    <3>. QED BY <2>5, <3>2 DEF CopyPath, CopyPermission, history
  <2>6. CASE SetRule(s)
    <3>1. queue[s] # <<>> /\ queue[s] \in Seq(MessageType)
      BY <2>6 DEF SetRule, SendersTyped, Handling
    <3>2. Own(s).permission \in Permissions
      BY <3>1, TailIs DEF Own, MessageType
    <3>4. mapuser_t.permission \in Permissions
      OBVIOUS
    <3>5. rules' = rules \/ rules' = [rules EXCEPT ![mapuser_t.path] = mapuser_t.permission]
      BY <2>6 DEF SetRule
    <3>6. sent' = sent \/ sent' = [sent EXCEPT ![Own(s).path] = Own(s).permission]
      BY <2>6 DEF SetRule
    <3>7. asked' = asked \/ asked' = [asked EXCEPT ![Own(s).path] = NULL]
      BY <2>6 DEF SetRule
    <3>8. rules' \in RuleMaps
      <4>1. [rules EXCEPT ![mapuser_t.path] = mapuser_t.permission] \in RuleMaps
        BY <3>4 DEF RuleMaps
      <4>. QED BY <4>1, <3>5
    <3>9. sent' \in RuleMaps
      <4>1. [sent EXCEPT ![Own(s).path] = Own(s).permission] \in RuleMaps
        BY <3>2 DEF RuleMaps
      <4>. QED BY <4>1, <3>6
    <3>10. asked' \in RuleMaps
      <4>1. [asked EXCEPT ![Own(s).path] = NULL] \in RuleMaps
        BY <3>1 DEF RuleMaps
      <4>. QED BY <4>1, <3>7
    <3>. QED BY <2>6, <3>8, <3>9, <3>10 DEF SetRule
  <2>7. CASE ClearRules(s)
    BY <2>7, NoRulesTyped DEF ClearRules
  <2>8. CASE Retarget(s)
    BY <1>5, <2>8 DEF Retarget, SendersTyped, history
  <2>. QED BY <1>5, <2>1, <2>2, <2>3, <2>4, <2>5, <2>6, <2>7, <2>8 DEF Handle
<1>6. CASE UNCHANGED vars
  BY <1>6 DEF vars, globals, history
<1>. QED BY <1>1, <1>2, <1>3, <1>4, <1>5, <1>6 DEF Next

LEMMA WritableNext == ASSUME writable \in BOOLEAN, [Next]_vars PROVE writable' \in BOOLEAN
<1>1. CASE Load \/ Unload \/ Hooking
  BY <1>1 DEF Load, Unload, Hooking, Unprotect, Store, Replace, Recover, Protect
<1>2. ASSUME NEW p \in Process, Enter(p) \/ Hooked(p) PROVE writable' \in BOOLEAN
  BY <1>2 DEF Enter, Hooked, Compare, Check, Return, hooks
<1>3. ASSUME NEW s \in Sender, Start(s) \/ Stop(s) \/ Handle(s) PROVE writable' \in BOOLEAN
  BY <1>3 DEF Start, Stop, Handle, Send, TestMap, CreateMap, Switch, CopyPath, CopyPermission,
              SetRule, ClearRules, Retarget, hooks
<1>4. CASE UNCHANGED vars
  BY <1>4 DEF vars, hooks
<1>. QED BY <1>1, <1>2, <1>3, <1>4 DEF Next

LEMMA TypedNext == ASSUME Shallow, Typed, [Next]_vars PROVE Typed'
BY TableStepsNext, ProcessesNext, SendersNext, GlobalsNext, WritableNext DEF Typed

(***************************************************************************)
(* However many runs of nluser send, and whatever the files hold, the      *)
(* variables of the module keep their types, a handler always has its      *)
(* message, the globals it copies from any message that user_t may point   *)
(* to are a rule or a name, and a process has a call exactly in a hook and *)
(* is dead exactly if the kernel killed it.                                *)
(***************************************************************************)
THEOREM ModuleTyped == ASSUME Shallow PROVE Spec => []TypeOK
<1>1. Typed /\ [Next]_vars => Typed'
  BY TypedNext
<1>2. QED BY <1>1, TypedInit, TypedOK, PTL DEF Spec

-----------------------------------------------------------------------------
\* Where the run of nluser is with each path that the file asks for: its last rule is
\* still to be sent, or it is stored, and no rule for the path is left.
Kept(q, p) ==
  asked[p] # NULL => /\ NoClear(q)
                     /\ \/ Pending(q, p, asked[p])
                        \/ NoneFor(q, p) /\ map # NULL /\ rules[p] = asked[p]

AskedSteps ==
  \A s \in Sender : at[s] # "none" =>
    /\ at[s] = "clearing" => Own(s).type = "clear"
    /\ at[s] = "targeting" => Own(s).type = "target"
    /\ at[s] \in {"path", "permission", "setting"} => Own(s).type = "rule"
    /\ \A p \in Path : Kept(queue[s], p)

\* A message that is no rule for p is taken from the queue.
LEMMA KeptTail ==
  ASSUME NEW q \in Seq(MessageType), q # <<>>, NEW p \in Path, Kept(q, p),
         ~ IsRule(Head(q), p), UNCHANGED <<map, asked>>, rules'[p] = rules[p]
  PROVE  Kept(Tail(q), p)'
BY TailIs DEF Kept

\* Each message handled leaves the rest to do, or the rule done.
LEMMA AskedStepsNext ==
  ASSUME Alone, Shallow, Typed, HandlerSteps, AskedSteps, [Next]_vars
  PROVE  AskedSteps'
<1>. USE DEF Handling, Own, Move
<1>0. /\ at = [s \in Sender |-> at[s]] /\ queue = [s \in Sender |-> queue[s]]
      /\ \A s \in Sender : Handling(s) => queue[s] # <<>>
      /\ \A s \in Sender : queue[s] \in Seq(MessageType)
      /\ \A s \in Sender : Handling(s) => Pointed = {Own(s)}
  BY DEF Typed, SendersTyped, HandlerSteps, Pointed
<1>1. CASE Load
  BY <1>1 DEF AskedSteps, Load, senders, HandlerSteps
<1>2. ASSUME UNCHANGED <<globals, senders, history>> PROVE AskedSteps'
  BY <1>2 DEF AskedSteps, Kept, globals, senders, history
<1>3. CASE Unload \/ Hooking
  BY <1>2, <1>3 DEF Unload, Hooking, Unprotect, Store, Replace, Recover, Protect
<1>4. ASSUME NEW p \in Process, Enter(p) \/ Hooked(p) PROVE AskedSteps'
  BY <1>2, <1>4 DEF Enter, Hooked, Compare, Check, Return
<1>5. ASSUME NEW s \in Sender, Start(s) PROVE AskedSteps'
  <2>1. PICK options \in Options, file \in Files :
          /\ queue' = [queue EXCEPT ![s] = Messages(options, file)]
          /\ asked' = IF Resets(options) # {} THEN NoRules ELSE Asked(file, Section(options))
    BY <1>5 DEF Start
  <2>2. at'[s] = "ready" /\ queue'[s] = Messages(options, file)
    BY <1>0, <1>5, <2>1 DEF Start
  <2>3. ASSUME NEW p \in Path PROVE Kept(Messages(options, file), p)'
    <3>1. CASE Resets(options) # {}
      BY <2>1, <3>1 DEF Kept, NoRules
    <3>2. CASE Resets(options) = {}
      BY <2>1, <3>2, MessagesAre DEF Kept
    <3>. QED BY <3>1, <3>2
  <2>. QED BY <2>2, <2>3 DEF Alone, AskedSteps, Kept
<1>6. ASSUME NEW s \in Sender, at'[s] = "none" PROVE AskedSteps'
  BY <1>6 DEF Alone, AskedSteps
<1>7. ASSUME NEW s \in Sender, Stop(s) PROVE AskedSteps'
  BY <1>0, <1>6, <1>7 DEF Stop
<1>8. ASSUME NEW s \in Sender, Handle(s) PROVE AskedSteps'
  <2>. USE DEF AskedSteps
  <2>1. CASE Send(s)
    BY <1>0, <2>1 DEF Alone, Send, Kept, history
  <2>2. CASE TestMap(s)
    BY <1>0, <2>2 DEF Alone, TestMap, Kept, globals, history
  <2>3. CASE CreateMap(s)
    <3>1. map = NULL
      BY <2>3 DEF CreateMap, HandlerSteps
    <3>. QED BY <1>0, <2>3, <3>1 DEF Alone, CreateMap, Kept
  <2>4. CASE Switch(s)
    BY <1>0, <2>4 DEF Alone, Switch, Kept, history
  <2>5. CASE CopyPath(s) \/ CopyPermission(s)
    BY <1>0, <2>5 DEF Alone, CopyPath, CopyPermission, Kept, history
  <2>. HIDE DEF AskedSteps
  <2>6. ASSUME NEW q, q = queue[s], Handled(s), Handling(s), \A p \in Path : Kept(Tail(q), p)'
        PROVE  AskedSteps'
    <3>1. at'[s] = "ready" /\ queue'[s] = Tail(q) /\ \A t \in Sender : t = s
      BY <1>0, <2>6 DEF Alone, Handled
    <3>. QED BY <2>6, <3>1 DEF AskedSteps, Kept
  <2>7. CASE SetRule(s)
    <3>0. PICK q : q = queue[s]
      OBVIOUS
    <3>1. /\ Handling(s) /\ Own(s) = Head(q) /\ q # <<>> /\ q \in Seq(MessageType)
          /\ Own(s).type = "rule" /\ \A p \in Path : Kept(q, p)
          /\ mapuser_t.path = Own(s).path /\ mapuser_t.permission = Own(s).permission
      BY <1>0, <2>7, <3>0 DEF SetRule, AskedSteps, HandlerSteps
    <3>2. CASE Killed(s)
      BY <1>0, <1>6, <3>2 DEF Killed
    <3>3. CASE /\ map # NULL /\ Handled(s) /\ UNCHANGED asked
               /\ rules' = [rules EXCEPT ![mapuser_t.path] = mapuser_t.permission]
      <4>1. ASSUME NEW p \in Path, Own(s).path = p PROVE Kept(Tail(q), p)'
        <5>1. rules'[p] = Own(s).permission
          BY <3>1, <3>3, <4>1 DEF Typed, GlobalsTyped, RuleMaps
        <5>2. IsRule(Head(q), p)
          BY <3>1, <4>1 DEF IsRule
        <5>3. UNCHANGED <<map, asked>>
          BY <2>7, <3>3 DEF SetRule
        <5>. QED BY <3>1, <3>3, <5>1, <5>2, <5>3, TailIs DEF Kept
      <4>2. ASSUME NEW p \in Path, Own(s).path # p PROVE Kept(Tail(q), p)'
        <5>1. rules'[p] = rules[p]
          BY <3>1, <3>3, <4>2 DEF Typed, GlobalsTyped, RuleMaps
        <5>2. ~ IsRule(Head(q), p)
          BY <3>1, <4>2 DEF IsRule
        <5>3. UNCHANGED <<map, asked>>
          BY <2>7, <3>3 DEF SetRule
        <5>. QED BY <3>1, <5>1, <5>2, <5>3, KeptTail
      <4>. QED BY <2>6, <3>0, <3>1, <3>3, <4>1, <4>2
    <3>4. CASE /\ map # NULL /\ Handled(s) /\ UNCHANGED rules
               /\ asked' = [asked EXCEPT ![Own(s).path] = NULL]
      <4>1. ASSUME NEW p \in Path, Own(s).path = p PROVE Kept(Tail(q), p)'
        <5>1. asked'[p] = NULL
          BY <3>4, <4>1 DEF Typed, GlobalsTyped, RuleMaps
        <5>. QED BY <5>1 DEF Kept
      <4>2. ASSUME NEW p \in Path, Own(s).path # p PROVE Kept(Tail(q), p)'
        <5>1. asked'[p] = asked[p]
          BY <3>4, <4>2 DEF Typed, GlobalsTyped, RuleMaps
        <5>2. ~ IsRule(Head(q), p)
          BY <3>1, <4>2 DEF IsRule
        <5>3. UNCHANGED map
          BY <2>7 DEF SetRule
        <5>. QED BY <3>1, <3>4, <5>1, <5>2, <5>3, TailIs DEF Kept
      <4>. QED BY <2>6, <3>0, <3>1, <3>4, <4>1, <4>2
    <3>. QED BY <2>7, <3>2, <3>3, <3>4 DEF SetRule
  <2>8. CASE ClearRules(s)
    <3>0. PICK q : q = queue[s]
      OBVIOUS
    <3>1. /\ Handling(s) /\ Own(s) = Head(q) /\ q # <<>> /\ q \in Seq(MessageType)
          /\ Own(s).type = "clear" /\ \A p \in Path : Kept(q, p)
      BY <1>0, <2>8, <3>0 DEF ClearRules, AskedSteps
    <3>2. CASE Killed(s)
      BY <1>0, <1>6, <3>2 DEF Killed
    <3>3. ~ NoClear(q)
      BY <3>1, TailIs
    <3>4. ASSUME NEW p \in Path PROVE Kept(Tail(q), p)'
      BY <2>8, <3>1, <3>3 DEF Kept, ClearRules
    <3>. QED BY <2>6, <3>0, <2>8, <3>1, <3>2, <3>4 DEF ClearRules
  <2>9. CASE Retarget(s)
    <3>0. PICK q : q = queue[s]
      OBVIOUS
    <3>1. /\ Handling(s) /\ Own(s) = Head(q) /\ q # <<>> /\ q \in Seq(MessageType)
          /\ Own(s).type = "target" /\ \A p \in Path : Kept(q, p)
      BY <1>0, <2>9, <3>0 DEF Retarget, AskedSteps
    <3>2. UNCHANGED <<map, asked>> /\ UNCHANGED rules
      BY <2>9 DEF Retarget, history
    <3>3. ASSUME NEW p \in Path PROVE Kept(Tail(q), p)'
      <4>1. ~ IsRule(Head(q), p)
        BY <3>1 DEF IsRule
      <4>. QED BY <3>1, <3>2, <4>1, KeptTail
    <3>. QED BY <2>6, <3>0, <2>9, <3>1, <3>3 DEF Retarget
  <2>. QED BY <1>8, <2>1, <2>2, <2>3, <2>4, <2>5, <2>7, <2>8, <2>9 DEF Handle
<1>9. CASE UNCHANGED vars
  BY <1>2, <1>9 DEF vars
<1>. QED BY <1>1, <1>3, <1>4, <1>5, <1>7, <1>8, <1>9 DEF Next

\* With no message left all is done.
LEMMA AskedStepsRight == AskedSteps => RulesAsAsked
<1>1. \A p, permission : ~ Pending(<<>>, p, permission)
  BY DEF Pending
<1>2. SUFFICES ASSUME AskedSteps, NEW s \in Sender, at[s] = "ready", queue[s] = <<>>,
                      map # NULL, NEW p \in Path
               PROVE  asked[p] \in {NULL, rules[p]}
  BY DEF RulesAsAsked
<1>3. Kept(<<>>, p)
  BY <1>2 DEF AskedSteps
<1>. QED BY <1>1, <1>3 DEF Kept

(***************************************************************************)
(* As long as one run of nluser goes on at a time, what it leaves in the   *)
(* kernel when it has sent everything is what its file asks for, for any   *)
(* sections, pairs and directories: each path that a pair names, and each  *)
(* file directly in a directory that a pair names, has the permission of   *)
(* the last such pair.  Excepted is a path that a later pair without an    *)
(* AUTHORITY covers, or that a later pair concerns as a file below a       *)
(* subdirectory, or as the name sent for one (Deep), or that there was no  *)
(* memory for: for these the search is not right.                          *)
(***************************************************************************)
THEOREM FileIsStored == ASSUME Alone, Shallow PROVE Spec => []RulesAsAsked
<1>1. Init => Typed /\ HandlerSteps /\ AskedSteps
  BY TypedInit, HandlerInit DEF Init, AskedSteps
<1>2. Typed /\ HandlerSteps /\ AskedSteps /\ [Next]_vars => (Typed /\ HandlerSteps /\ AskedSteps)'
  BY TypedNext, HandlerNext, AskedStepsNext
<1>3. QED BY <1>1, <1>2, AskedStepsRight, PTL DEF Spec
=====
