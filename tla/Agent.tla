------------------------------- MODULE Agent --------------------------------
(***************************************************************************)
(* The user-space agent (ns_agent/agent.c, check.c and cache.c): agent.so  *)
(* is preloaded into a program and intercepts open, open64, openat,        *)
(* openat64 and fopen.  A call sets the agent up if no call did before     *)
(* (init_preload, double-checked locking), asks check_permission for a     *)
(* verdict, and refuses with errno 134 or makes the real call.             *)
(* check_permission looks in the LRU cache, and on a miss reads the rules  *)
(* loaded from config.json and stores the verdict.                         *)
(*                                                                         *)
(* The threads of the program interleave between any two accesses to       *)
(* shared state.  lru.c locks each of its calls, so a cache operation is   *)
(* one step (LruCache shows that lru.c implements these operations), but   *)
(* cache_get returns a pointer to the stored value and the verdict is read *)
(* through it after the lock is released.  Values are therefore buffers,   *)
(* with their contents in heap.  The build is for x86, whose stores become *)
(* visible in program order, so the unlocked test of init sees what was    *)
(* written before init was set.                                            *)
(***************************************************************************)
EXTENDS LruOps, FiniteSets     \* Key: path names; Value: buffers of cached values

CONSTANTS Thread,      \* threads of the program
          Request,     \* the calls it makes: a path and a mode each
          RuleMaps     \* what config.json may say: a permission set per path

Mode == {"fopen", "rdonly", "wronly", "rdwr", "accmode3"}
Permissions == SUBSET {"R", "W", "F"}    \* the bits of user->permission
NoRule == NULL                           \* hashmap_get finds nothing

ASSUME RequestAssumption == Request \subseteq [path : Key, mode : Mode]
ASSUME RulesAssumption == RuleMaps \subseteq [Key -> {NoRule} \cup Permissions]
ASSUME BufferAssumption == Cardinality(Value) > Capacity   \* malloc succeeds
ASSUME NullIsNoOther == /\ NULL \notin Thread /\ NULL \notin Request
                        /\ NULL \notin RuleMaps /\ \A P \in Permissions : P # NULL

VARIABLES mut,       \* the thread that holds the mutex of init_preload
          init,      \* its static flag
          ready,     \* the globals assigned: "real_call", "cwd", "map", "cache"
          map,       \* the rules loaded
          cache,     \* the LRU cache; entries are buffers
          heap,      \* contents of the buffers: "A", "F", or "free"
          exited,    \* exit(-1) was called during set-up
          pc, req,   \* where each thread is and the call it makes
          ptr,       \* cache_value of check_permission
          ret,       \* its verdict
          asked,     \* history: the modes each path was decided for
          dangled    \* history: verdict read from a buffer that is not the path's

setup == <<mut, init, ready, map, exited>>
locals == <<pc, req, ptr, ret>>
history == <<asked, dangled>>
vars == <<setup, cache, heap, locals, history>>

Init ==
  /\ mut = NULL /\ init = FALSE /\ ready = {} /\ map = NULL
  /\ cache = EmptyCache
  /\ heap = [b \in Value |-> "free"]
  /\ exited = FALSE
  /\ pc = [t \in Thread |-> "idle"]
  /\ req = [t \in Thread |-> NULL]
  /\ ptr = [t \in Thread |-> NULL]
  /\ ret = [t \in Thread |-> FALSE]
  /\ asked = [k \in Key |-> {}]
  /\ dangled = {}

At(t, label) == ~exited /\ pc[t] = label
Go(t, label) == pc' = [pc EXCEPT ![t] = label]

-----------------------------------------------------------------------------
(* The calls intercepted, and init_preload. *)

Call(t) ==
  /\ At(t, "idle")
  /\ \E r \in Request : req' = [req EXCEPT ![t] = r]
  /\ Go(t, "quick")
  /\ dangled' = dangled \ {t}
  /\ UNCHANGED <<setup, cache, heap, ptr, ret, asked>>

\* "quick check without lock"
QuickCheck(t) ==
  /\ At(t, "quick")
  /\ Go(t, IF init THEN "get" ELSE "lock")
  /\ UNCHANGED <<setup, cache, heap, req, ptr, ret, history>>

Lock(t) ==
  /\ At(t, "lock") /\ mut = NULL
  /\ mut' = t
  /\ Go(t, "recheck")
  /\ UNCHANGED <<init, ready, map, exited, cache, heap, req, ptr, ret, history>>

\* Faulty variant of Recheck: goes on to set up without looking at init again.
RecheckDropped(t) ==
  /\ At(t, "recheck")
  /\ Go(t, "resolve")
  /\ UNCHANGED <<setup, cache, heap, req, ptr, ret, history>>

Recheck(t) ==
  /\ At(t, "recheck")
  /\ Go(t, IF init THEN "unlock" ELSE "resolve")
  /\ UNCHANGED <<setup, cache, heap, req, ptr, ret, history>>

\* Faulty variant of Resolve: sets the flag first.
ResolvePublishing(t) ==
  /\ At(t, "resolve")
  /\ init' = TRUE
  /\ ready' = ready \cup {"real_call"}
  /\ Go(t, "getcwd")
  /\ UNCHANGED <<mut, map, exited, cache, heap, req, ptr, ret, history>>

\* dlsym of the five real functions.
Resolve(t) ==
  /\ At(t, "resolve")
  /\ ready' = ready \cup {"real_call"}
  /\ Go(t, "getcwd")
  /\ UNCHANGED <<mut, init, map, exited, cache, heap, req, ptr, ret, history>>

GetCwd(t) ==
  /\ At(t, "getcwd")
  /\ ready' = ready \cup {"cwd"}
  /\ Go(t, "config")
  /\ UNCHANGED <<mut, init, map, exited, cache, heap, req, ptr, ret, history>>

\* getenv_options and config_init.
LoadConfig(t) ==
  /\ At(t, "config")
  /\ map' \in RuleMaps
  /\ ready' = ready \cup {"map"}
  /\ Go(t, "cache_init")
  /\ UNCHANGED <<mut, init, exited, cache, heap, req, ptr, ret, history>>

CacheInit(t) ==
  /\ At(t, "cache_init")
  /\ cache' = EmptyCache
  /\ ready' = ready \cup {"cache"}
  /\ Go(t, "publish")
  /\ UNCHANGED <<mut, init, map, exited, heap, req, ptr, ret, history>>

Publish(t) ==
  /\ At(t, "publish")
  /\ init' = TRUE
  /\ Go(t, "unlock")
  /\ UNCHANGED <<mut, ready, map, exited, cache, heap, req, ptr, ret, history>>

\* Faulty variant of Unlock: keeps mut.
UnlockForgotten(t) ==
  /\ At(t, "unlock")
  /\ Go(t, "get")
  /\ UNCHANGED <<setup, cache, heap, req, ptr, ret, history>>

Unlock(t) ==
  /\ At(t, "unlock")
  /\ mut' = NULL
  /\ Go(t, "get")
  /\ UNCHANGED <<init, ready, map, exited, cache, heap, req, ptr, ret, history>>

\* No working directory, no CNPV_PATH, an unreadable config.json or no memory:
\* exit(-1), with mut held.
SetUpFails(t) ==
  /\ \E label \in {"getcwd", "config", "cache_init"} : At(t, label)
  /\ exited' = TRUE
  /\ UNCHANGED <<mut, init, ready, map, cache, heap, locals, history>>

-----------------------------------------------------------------------------
(* check_permission. *)

Needs == [m \in {"rdonly", "wronly", "rdwr"} |->
            CASE m = "rdonly" -> {"R"}
              [] m = "wronly" -> {"W"}
              [] m = "rdwr"   -> {"R", "W"}]

\* The verdict of the rules on opening path k in mode m.
Decide(k, m) ==
  \/ map[k] = NoRule
  \/ m = "fopen"
  \/ /\ "F" \notin map[k]
     /\ m \in DOMAIN Needs
     /\ Needs[m] \subseteq map[k]

Verdict(allowed) == IF allowed THEN "A" ELSE "F"

\* cache_get: the pointer is read under the lock of the cache.
Get(t) ==
  /\ At(t, "get")
  /\ LET k == req[t].path
     IN  /\ ptr' = [ptr EXCEPT ![t] = cache.value[k]]
         /\ cache' = GetOp(cache, k)
         /\ Go(t, IF Cached(cache, k) THEN "deref" ELSE "lookup")
  /\ UNCHANGED <<setup, heap, req, ret, history>>

\* What reading a buffer may give: anything, once it was freed.
Read(b) == IF heap[b] = "free" THEN {"A", "F", "other"} ELSE {heap[b]}

\* *cache_value, outside the lock.
Deref(t) ==
  /\ At(t, "deref")
  /\ \E c \in Read(ptr[t]) :
       /\ ret' = [ret EXCEPT ![t] = (c = "A")]
       /\ Go(t, IF c \in {"A", "F"} THEN "return" ELSE "lookup")
  /\ dangled' = IF ptr[t] = cache.value[req[t].path] THEN dangled ELSE dangled \cup {t}
  /\ UNCHANGED <<setup, cache, heap, req, ptr, asked>>

\* hashmap_get and the tests on the permission found.
Lookup(t) ==
  /\ At(t, "lookup")
  /\ LET k == req[t].path
         m == req[t].mode
     IN  /\ ret' = [ret EXCEPT ![t] = Decide(k, m)]
         /\ asked' = [asked EXCEPT ![k] = @ \cup {m}]
  /\ dangled' = dangled \ {t}
  /\ Go(t, "insert")
  /\ UNCHANGED <<setup, cache, heap, req, ptr>>

\* Faulty variant of Released: forgets the value of the evicted key.
ReleasedOld(k) == {cache.value[k]} \ {NULL}

\* The buffers lruc_set frees: the old value of k, or that of the evicted key.
Released(k) == {cache.value[j] : j \in {k} \cup Victim(cache, k)} \ {NULL}

\* Faulty variant of Stored: caches every decision as allowed.
StoredAllowed(t) == "A"

\* What check_permission caches of its decision.
Stored(t) == Verdict(ret[t])

\* cache_insert: a copy of the verdict in a new buffer, stored under the lock.
Insert(t) ==
  /\ At(t, "insert")
  /\ \E b \in Value :
       LET k == req[t].path
       IN  /\ heap[b] = "free"
           /\ cache' = SetOp(cache, k, b)
           /\ heap' = [a \in Value |-> IF a = b THEN Stored(t)
                                       ELSE IF a \in Released(k) THEN "free"
                                       ELSE heap[a]]
  /\ Go(t, "return")
  /\ UNCHANGED <<setup, req, ptr, ret, history>>

\* -1 with errno 134, or the result of the real function.
Return(t) ==
  /\ At(t, "return")
  /\ Go(t, "idle")
  /\ UNCHANGED <<setup, cache, heap, req, ptr, ret, history>>

SetUp(t) == \/ QuickCheck(t) \/ Lock(t) \/ Recheck(t) \/ Resolve(t) \/ GetCwd(t)
            \/ LoadConfig(t) \/ CacheInit(t) \/ Publish(t) \/ Unlock(t)
            \/ SetUpFails(t)

Check(t) == Get(t) \/ Deref(t) \/ Lookup(t) \/ Insert(t) \/ Return(t)

\* The process is gone.
Exited == exited /\ UNCHANGED vars

Next == \/ \E t \in Thread : Call(t) \/ SetUp(t) \/ Check(t)
        \/ Exited

\* A thread that is inside a call goes on running.
Fairness == \A t \in Thread : WF_vars(SetUp(t) \/ Check(t))

Spec == Init /\ [][Next]_vars /\ Fairness
-----------------------------------------------------------------------------
SetUpSteps == {"resolve", "getcwd", "config", "cache_init", "publish"}
LockedSteps == SetUpSteps \cup {"recheck", "unlock"}
CheckSteps == {"get", "deref", "lookup", "insert", "return"}
Globals == {"real_call", "cwd", "map", "cache"}

(* Type invariant, with the representation invariant of the cache. *)
TypeOK ==
  /\ mut \in Thread \cup {NULL}
  /\ init \in BOOLEAN
  /\ ready \subseteq Globals
  /\ map \in RuleMaps \cup {NULL}
  /\ WellFormed(cache)
  /\ heap \in [Value -> {"A", "F", "free"}]
  /\ exited \in BOOLEAN
  /\ pc \in [Thread -> {"idle", "quick", "lock"} \cup LockedSteps \cup CheckSteps]
  /\ req \in [Thread -> Request \cup {NULL}]
  /\ ptr \in [Thread -> Value \cup {NULL}]
  /\ ret \in [Thread -> BOOLEAN]
  /\ asked \in [Key -> SUBSET Mode]
  /\ dangled \subseteq Thread

(***************************************************************************)
(* init_preload sets the agent up at most once and in one thread: whoever  *)
(* is in its body holds mut, and the flag is still unset.  A second        *)
(* set-up would replace the rules and the cache under running calls.       *)
(***************************************************************************)
SetUpExclusive ==
  \A t \in Thread : /\ pc[t] \in LockedSteps => mut = t
                    /\ pc[t] \in SetUpSteps => ~init

(***************************************************************************)
(* No call consults the rules, the cache, the saved working directory or   *)
(* the real functions before they are set, whichever way init_preload let  *)
(* it pass: the unlocked test, the locked test or its own set-up.          *)
(***************************************************************************)
ReadyBeforeUse ==
  \A t \in Thread : pc[t] \in CheckSteps => ready = Globals /\ map # NULL

(***************************************************************************)
(* What the cache says of a path is what the rules say of some mode that   *)
(* the path was opened in, also when calls on the same path, evictions and *)
(* reads of freed buffers interleave.                                      *)
(***************************************************************************)
EntriesJustified ==
  \A k \in Key : Cached(cache, k) =>
    \E m \in asked[k] : heap[cache.value[k]] = Verdict(Decide(k, m))

(***************************************************************************)
(* The buffers in use are the ones the cache points to, one per path: none *)
(* is leaked, freed while an entry holds it, or shared by two paths.       *)
(***************************************************************************)
BuffersOwned ==
  /\ \A b \in Value : heap[b] # "free" <=> \E k \in Key : cache.value[k] = b
  /\ \A j, k \in Key : Cached(cache, k) /\ cache.value[j] = cache.value[k] => j = k

(* Together: what cache_get may return is a justified verdict in a buffer of its own. *)
CacheSound == TypeOK /\ EntriesJustified /\ BuffersOwned

(***************************************************************************)
(* The verdict of a call is one that the rules give for its path, unless   *)
(* the call read it from a buffer another thread had freed.                *)
(***************************************************************************)
VerdictJustified ==
  \A t \in Thread \ dangled : pc[t] \in {"insert", "return"} =>
    \E m \in asked[req[t].path] : ret[t] = Decide(req[t].path, m)

(***************************************************************************)
(* Every intercepted call returns, or the process has exited: no thread is *)
(* left waiting for mut, and no call loops in check_permission.            *)
(***************************************************************************)
CallReturns ==
  \A t \in Thread : pc[t] = "quick" ~> pc[t] = "idle" \/ exited

(***************************************************************************)
(* "all cache calls are guarded by a mutex" (lru.c:162): the value that    *)
(* cache_get returned is still that of the path when it is read.           *)
(***************************************************************************)
PointerValid ==
  \A t \in Thread : pc[t] = "deref" => ptr[t] = cache.value[req[t].path]

(***************************************************************************)
(* The cache is invisible: a call gets the verdict that the rules give for *)
(* its own path and mode, whatever was asked before, as "R(read)/W(write)/ *)
(* F(forbidden)" (README.md:51) has it.                                    *)
(***************************************************************************)
CacheTransparent ==
  \A t \in Thread : pc[t] = "return" => ret[t] = Decide(req[t].path, req[t].mode)
=============================================================================
