# A verification project for cnpv

cnpv restricts which files a program may open. A configuration file, `config.json`, gives each
program a list of paths with the permissions R, W and F (forbidden), and two independent
implementations enforce it:

* **ns_agent**, a shared library loaded with `LD_PRELOAD`, which replaces `open`, `open64`, `openat`,
  `openat64` and `fopen` in the program itself;
* **kernel_module**, which replaces two entries of the system call table and gets its rules over
  netlink from a small tool, `nluser`.

This directory models the parts that decide, as TLA+ modules, checks them with TLC on small
instances, and proves with TLAPS what matters most for every value of the constants.

## 1. Inventory

| component | source | state | operations | what makes it correct |
|---|---|---|---|---|
| interception and set-up | `ns_agent/agent.c` | `mut`, static `init`, `real_call`, `cwd` | the five intercepted functions, `init_preload`, `handle_request` | set up exactly once, before anything is used, whichever threads come first; every call returns |
| permission check | `ns_agent/check.c` | none of its own | `check_permission` | the verdict is what the rules say for the path and the mode |
| verdict cache | `ns_agent/cache.c` | `cache`, the copies of keys and values | `cache_init`, `cache_insert`, `cache_get` | invisible: only faster than the rules |
| LRU cache | `ns_agent/lru.c` | hash table of chains, free queue, counters, a mutex | `lruc_new/set/get/delete/free` | a bounded map that evicts the least recently used entry; no record lost or shared; memory accounted for; each call returns |
| rule loader | `ns_agent/config.c` | `map` | `config_init` and its recursion over sections, pairs and directories | a rule for each file named, or below a directory named |
| hash map | `ns_agent/src/hashmap.c`, the `map.c` copies | Robin Hood buckets | `hashmap_new/set/get/delete/scan/clear` | an exact map through every growth, shrink and displacement |
| thread pool | `ns_agent/src/tpool.c` | task list, mutex, condition, `shutdown` | `create_tpool`, `add_task_2_tpool`, `destroy_tpool`, the workers | each task run once; no worker sleeps through a task or the shutdown |
| kernel hooks | `kernel_module/cnpv.c`, `check.c` | system call table, `map`, `target`, `user_t`, `mapuser_t` | hook and unhook, `my_open`, `my_openat`, netlink handler, load and unload | rules applied as sent; nothing used before it exists or after it is gone |
| kernel map | `kernel_module/map.c`, `check.c` | buckets that are read without a lock while they change | `hashmap_set/get/clear`, `resize` | a lookup reads only what is the map's, ends, and is right while nothing moves |
| netlink tool | `kernel_module/nluser.c` | global `user_t`, a socket | read the file, send one message per path | sends the permissions written in the file |
| JSON parser | `json.c`, the same in both parts | flags, the tree, a chain of records, counts of the first pass | `json_parse` in two passes, `json_value_free` | accepts a grammar that is JSON with a few liberties, builds the tree of the document, writes only what it allocated, frees once |
| prototype hook, scripts | `kern_utils`, `perf_test` | - | logging, measuring | - |

How they interact. An intercepted call runs `init_preload` (which runs `config_init` and `cache_init`
the first time), then `check_permission`, which asks the cache, on a miss asks the hash map, and stores
the verdict in the cache; the call is then refused with `errno` 134 or passed to the real function.
All threads of the program share these globals. `init_preload` has a mutex, each `lruc_*` call has
another, and nothing else is locked. In the kernel, hooked calls on any processor read `map`, while
the netlink handler creates, fills and clears it, without a lock.

What is hard: threads that race through the lazy set-up; pointers into the cache that outlive its
lock; records of the cache that move between chains and a free queue through one `next` field; unsigned
lengths; verdicts remembered for one access mode and used for another; rules read once; two-sided
races in the kernel, between the handler and the lookups it does not lock out; a parser whose second pass
writes where the first has counted, and errors in the middle of either. `PROJECT.json` lists each hazard at its line.

## 2. Modules

| module | models | state and actions |
|---|---|---|
| `LruOps` | what `lruc_new/get/set/delete` do to a cache | operators on a record: `order` (keys, least recently used first) and `value`. Capacity = `CACHE_SIZE / AVG_SIZE`, since `cache.c` stores every entry with the length `AVG_SIZE`. |
| `Lru` | the promise of `lru.c` | a cache, the result of the last get; actions `Get`, `Set`, `Delete` |
| `LruCache` | `lru.c` itself | the table `items`, the records `item` with their `next`, `free_items`, `free_memory`, `access_count`, and the local `required` of `lruc_set`. `Get` and `Delete` are whole calls (they hold the mutex); `lruc_set` is `Set` (up to the eviction loop), one `Evict` for each round of the loop, and `FinishSet`. |
| `Agent` | `agent.c`, `check.c`, `cache.c` | the mutex and flag of `init_preload`, the globals it assigns, the rules, the cache, the buffers of cached values, and for each thread its program point, request, pointer and verdict. One action for each access to shared state. |
| `Config` | `config.c` | the parsed file, the loop `config_init` is in with its indices, the recursion of `get_dir_content` as a stack, the rules. One action for each kind of round of a loop, and for each way out. |
| `Access` | the saved directory of `agent.c` and the start of `check_permission` | EXTENDS `Config` and starts it; `FirstCall`, `SetUp` (a step of `Config`), `Chdir`, `Open` |
| `Dictionary` | the promise of `hashmap.c` | a map from keys to values, and the last call with its result; a call that finds no memory changes nothing |
| `RobinHood` | `hashmap.c` | buckets with their distances, counters, thresholds, and the locals of the call in progress. A step is one round of the loop of `hashmap_set`, `hashmap_get`, `hashmap_delete` or `resize`. |
| `TaskPool` | the promise of `tpool.c` | works pending, running and over, and whether the pool is closed |
| `ThreadPool` | `tpool.c` | the queue, `shutdown`, the mutex, and for each thread its program point, the work it runs and the work it is about to add |
| `JsonParser` | `json.c` | the document read so far, `first_pass`, `ptr`, the flags, the values with their parents, counts, sizes allocated and contents, the string and the number in hand. A step reads a byte: one action for each branch of the loop, one for each error, and one for each round of the loops that free. |
| `JsonGrammar` | reference for it | the documents of each length that JSON allows, the tree and the numbers a document denotes |
| `NlUser` | the search of `nluser.c` | operators from a file and a program to the rules sent, in order: `ProcessPair`, `ProcessArray`, `JsonProcess`, `FilesBelow` for `get_dir_content`. What the file asks for (`Asked`) is told by the files that are in a directory (`Members`, `FilesIn`), not by the names that are made for them |
| `KernelMap` | `map.c` and the lookup of `check_permission` in the kernel | the buckets with `nbuckets` and `mask`, the update in progress (a round of its loop, or an assignment that can be told apart, is a step), the lookup (each read is a step), and what updates did meanwhile |
| `KernelModule` | `kernel_module/cnpv.c`, `check.c`, `main` of `nluser.c` | EXTENDS `NlUser`; the system call table and its page, the saved pointers, `map`, `target`, `user_t`, `mapuser_t`; for each process the call it is in; for each run of `nluser` the messages it has to send and where the handler of the present one is. One action for each access to shared state. |
| `*Proofs` | theorems | section 4 |
| `MC*` | constants for TLC | with the `.cfg` files of section 3 |

Abstract and detailed. Three components have an abstract specification that TLC checks them to implement:

* `LruCache` implements `Lru` (`ImplementsLru`): the abstract cache holds the `Entries` most recently
  used live records. While an `lruc_set` is in its eviction loop there is one live record too many, and
  the abstract cache has already dropped it, so `Set` maps to the abstract `Set` and the eviction steps
  are invisible. `Agent` uses the operators of `LruOps` for its cache, one step per call, which is what
  the refinement and the mutex justify.
* `RobinHood` implements `Dictionary` (`ImplementsDictionary`): until a call returns, the abstract map
  is what it was before the call, so displacements, backward shifts and rebuilding are invisible, and the
  last round of a call is the abstract operation with its result.
* `ThreadPool` implements `TaskPool` (`ImplementsTaskPool`): works start in the order they were queued, at
  most one per worker, none after shutdown; what is left is dropped. Locking, sleeping and waking are
  invisible.

Faithfulness. Some things one might expect are absent because the code does not do them: a popped
record keeps its `next` field (`lru.c:104`); an access mode is no part of the cache key; `fopen` is
decided before F (`check.c:65`); reading a freed buffer, or a freed netlink message through `user_t`, may
give anything; `shutdown` is set without the lock (`tpool.c:87`); nested directories are joined without
a slash (`config.c:70`); the kernel allows access mode 3, which the agent refuses; nothing in the kernel
module is locked. What is abstracted: in `Agent` and `KernelModule` paths are members of a set; in `Config`
and `Access` they are sequences of pieces, so that joining them is what `sprintf` does; hashes are a fixed
function of `CONSTANTS`; records' addresses do not matter, so `calloc` returns any fixed unused one;
allocation in `cache.c`, `lru.c` and of the agent's map succeeds, while `hashmap_set`, `resize` and the
kernel's `hashmap_new` may fail; logging is left out, and flags are reduced to their access mode. A lookup
in the map of `KernelModule` that overlaps an update may have any result; `KernelMap` says which. There a
bucket that is being copied or zeroed may be read part by part as it was or as it will be, the compiler may
keep `buckets` and `mask` in registers or load them in each round, an `int` is copied at once, and a read of
memory that is not the map's ends the lookup as "astray". In `JsonParser` a byte is a member of an alphabet, a
literal and the bytes of an escape are one, and numbers are the digits they are made of, not doubles. The build is for x86 (`agent.so`,
gcc -O3): stores become visible in program order, so the unlocked read of `init` is an ordinary read.
`exit` is one step that stops all threads.

## 3. What TLC checks

Passing runs. Where a run's property is a conjunction of invariants that say one thing of one structure, the
table names its parts and the conjunction:

| run | instance | what it shows |
|---|---|---|
| `lru_cache` | 4 keys, 3 of them in one chain, 2 entries, 2 values, 5 accesses, `lruc_delete` when nothing waits in the free queue | chains and free queue are disjoint (`FreeQueueSeparate`), no record is lost or shared and keys are unique (`TableConsistent`, with it and `TypeOK` in `RecordsSound`), the memory counter is exact even during an eviction (`MemoryAccounted`), every `lruc_set` returns (`SetReturns`), and the table implements `Lru` |
| `agent_threads` | 2 threads, 2 paths, one entry, 2 buffers, 3 requests (one path in two modes that the rules judge differently) | one thread at a time sets the agent up, and once (`SetUpExclusive`), nothing is used before it is assigned (`ReadyBeforeUse`), cached verdicts are right for some mode that was asked (`EntriesJustified`), each buffer has one owner (`BuffersOwned`; both in `CacheSound`), a verdict is right for some mode that was asked unless it came from a freed buffer (`VerdictJustified`), and every call returns (`CallReturns`) |
| `agent_one_mode` | 1 thread, 3 paths with one mode each, 2 entries, every choice of six permissions for each path | `CacheTransparent` |
| `robin_hood` | 4 keys, 2 values, tables of 2, 4 and 8 buckets, hashes that collide, wrap around and part when the table grows, allocations that fail | every item is found where the search ends, in order of distance (`TableOrdered`, in `TableSound`), the counter is exact, so the table always has a free bucket (`CountExact`), every call returns (`CallReturns`), and the table implements `Dictionary` |
| `thread_pool` | 3 workers, 4 tasks, one of which is added by another | a worker that goes to take a work finds one (`HeadExists`), each work is in one place and freed once (`WorksOwned`; both in `WorksSound`), no wake-up is lost (`NoLostWakeup`), shutdown reaches all though it is set without the lock (`ShutdownSeen`), nobody uses what is freed (`PoolUnused`; both in `ShutdownSafe`), `destroy_tpool` returns (`DestroyReturns`), and the pool implements `TaskPool` |
| `access` | 3 files, a directory with an empty one in it; every file of one or two pairs of six kinds in up to three sections; the program starts in and changes to any directory, the root too | files have the permission asked for last (`RulesAsAsked`), nothing malformed is passed over (`NothingSkipped`), the loader ends (`Loads`), and absolute names, and single names in the first directory, lead to the rule of the file that is opened (`RightRuleInPlace`) |
| `kernel_module` | 1 process of the first target, 1 run of `nluser` at a time with five argument lists and three files (unreadable; a directory in a directory, a pair without AUTHORITY, a section that is no array; a pair that is no object), 5 paths, one of them a file whose made name is that of another, 2 programs, loading and unloading for ever | both calls are hooked while the module is live and none when it is out, with the real function saved behind each (`HooksPaired`), a process in a hook is killed only without a map or when the module goes (`FaultsKnown`), the rules are those sent (`RulesAsSent`), each path that the last pair concerning it names, or finds directly in its directory, has the permission of that pair (`RulesAsAsked`), and every `nluser` ends (`NluserEnds`) |
| `kernel_map` | 3 paths in tables of 2, 4 and more buckets, which collide, wrap around and displace each other; one update after the other; one lookup at a time; memory for a new array or none | between updates the table is exactly what was stored (`TableIsRules`, in `TableSound`); a lookup answers with a permission its path had meanwhile, or refuses, unless a rule was moved under it (`AnswerRight`); it reads what is not the map's only while the array is exchanged (`ReadsOwned`); and it ends unless the map is rebuilt or reused under it (`LookupEnds`) |
| `json` | every document of up to 6 to 11 bytes over nine alphabets, one for each part of the grammar; strings and lists too long at 2; integers up to 9; in one alphabet an `int` too small for the size of an object with a pair; memory that runs out at any allocation | the second pass writes no more than the first has counted (`WritesFit`) and finds the same (`PassesAgree`); documents are accepted exactly if they are of `JsonGrammar` (`AcceptsGrammar`): JSON, with commas before a closing bracket, a minus alone, and any byte behind a backslash; the tree is that of the document (`TreeIsDocument`), its numbers have their values but for one case (`NumbersRight`; both in `TreeRight`); nothing is freed twice (`FreesLive`), all is freed but for one case (`MemoryReturned`; both in `MemorySound`), and every call ends (`CallReturns`) |

Runs that TLC refutes, each a place where the code does not do what a text of the repository says:

| run | property | what happens |
|---|---|---|
| `agent_modes` | `CacheTransparent` | a verdict cached for one mode is given to another (`check.c:78`) |
| `agent_dangling` | `PointerValid` | another thread frees the value between `lruc_get` and `*cache_value` (`check.c:34`) |
| `config_deep` | `RulesAsAsked` | the rule of a file below a subdirectory is stored under a name joined without a slash (`config.c:70`) |

Bounds.

* A cache of two entries with more keys than entries is the smallest that evicts, and has chains with
  a head, a middle and an end while an eviction is pending; five accesses are enough to fill it, refresh an
  entry, evict, and use the freed record again. `Wrap` stands for 2^32 and only has to exceed the memory.
  `MaxAccess` bounds `access_count` (64 bits in the code); `MaxFree` bounds how many records wait in the free
  queue after an `lruc_delete`: 1, where the table is right; with 2 it is not (section 5).
* The agent needs no bound: its state is finite. Two threads show every race of two steps. One cache
  entry makes each insert on the other path an eviction.
* `InitialCap` and `ShrinkDivisor` stand for 16 and 10 in `hashmap.c`: with 2 and 4, four keys grow the
  table twice and empty it again, through all thresholds. Distances are bounded by the number of buckets
  (in `TypeOK`), far below the 16 bits they have.
* Three workers and four tasks have a worker asleep, one waking and one at work while tasks are queued.
  The theorems of section 4 do not depend on these numbers.
* The files of `Config` hold no section whose name contains the program's, and the passing run no file
  below a subdirectory: there the code does not do what is asked. Asking is defined from `README.md:49-53`.
* Processes in the kernel do not change anything the others read, so one is enough; its name is that
  of the default target, and the target goes back and forth. One run of `nluser` goes on at a time (section 5).
* Three paths and a capacity of 2 (16 in the code) grow the kernel's map twice, shrink it when it is cleared,
  and displace in both sizes. One lookup is enough, since lookups write nothing; a second update at a time
  would need two senders.
* Eleven bytes hold an object with two keys or an object in an object, eight a list of lists, a string with
  an escape and a number with a point and an exponent. `UintMax` stands for 2^32 - 9 and `IntMax` for 2^63 - 1;
  `EntrySize` for 24, what an entry of an object takes, and `IntLimit` for 2^31: with 2 and 2, in the alphabet
  that has pairs, one pair is too much for an `int`, and the other alphabets never come to it.

Fairness is weak everywhere: what has begun goes on, and nobody has to begin. `LruCache`: a thread in
`lruc_set`. `Agent`: each thread inside a call; this is enough even for the lock, since after the first
holder has left no later call takes it again. A call ends by returning or by the process having exited.
`RobinHood`: the call in progress. `Access`: the loader. `ThreadPool`: each thread, with tasks that end;
wake-ups without a signal are possible at any time but only finitely many, else a thread could wait for the
mutex for ever (pthread promises neither). `KernelModule`: loading or unloading, a process in a hook, the
handler of a message, and the end of `nluser` when nothing is left to send; `recvmsg` is commented out, so
`nluser` waits for nothing. `KernelMap`: the update and the lookup in progress. `JsonParser`: the call.

## 4. What is proved

With TLAPS, for any sets of threads, paths, requests, rules, buffers, keys, values, workers and tasks, any hash, any
capacity, and any documents and limits of the parser:

* `LruCacheProofs`: with the cache used as `cache.c` uses it (`UsedByAgent`), `IInv` is inductive (`Invariance`), hence
  `RecordsAlwaysSound` (`RecordsSound`) and `MemoryAlwaysAccounted` (`MemoryAccounted`); `ListsImplementLru`: the
  linked lists implement `Lru` (`ImplementsLru`); and `ListsEvictOldest`: what `LruEvictsOldest` says, of the lists.
* `AgentProofs`: first, each operator of `LruOps` keeps a cache well formed (`GetOpWellFormed`,
  `SetOpWellFormed`, `DeleteOpWellFormed`), from lemmas on removing, appending and dropping
  elements of sequences without repetitions; hence, of the abstract cache `Lru`, `LruTypeCorrect`, and `LruEvictsOldest`, that
  an eviction happens only when full and takes only the front of the order. Then the agent: the invariant `Inv` is
  inductive (`Invariance`), hence `TypeCorrect`, `SetUpOnce`, `NeverUsedBeforeReady`, `VerdictsCached` (`CacheSound`),
  `VerdictsSound`; and `TransparentInOneMode`: with one thread and one mode per path the cache changes no verdict.
* `RobinHoodProofs`: `IInv` is inductive (`Invariance`), hence `TableAlwaysSound` (`TableSound`),
  `CountAlwaysExact` (`CountExact`) and `MapKept`: the table implements `Dictionary` (`ImplementsDictionary`).
* `ThreadPoolProofs`: `Inv` is inductive (`Invariance`), hence `TypeCorrect`, `WorksUsedOnce` (`WorksSound`),
  `NoWakeupLost`, `ShutdownSeenByAll` (`ShutdownSafe`); and `TasksInOrder`: the pool starts and moves as `TaskPool`
  does.
* `KernelProofs`: `TableSafe` (`HooksPaired`), for any processes and runs of `nluser`; `SentIsStored`
  (`RulesAsSent`) and `FaultsBounded` (`FaultsKnown`) while one run goes on at a time (`Alone`); `ModuleTyped`
  (`TypeOK`), for any files in directories of bounded depth (`Shallow`); and `FileIsStored` (`RulesAsAsked`), with both.
* `KernelMapProofs`: `OwnedReads` (`ReadsOwned`), `TableAlwaysSound` (`TableSound`) and `AnswerAlwaysRight`
  (`AnswerRight`), for any paths, permissions, messages, hash values and capacity.
* `ConfigProofs`: `AllSectionsRead` (`NothingSkipped`), `RuleOfFile` (`RightRuleInPlace`) and `SearchDescends`
  (`TypeOK`), for any configuration files, file systems, names and directories; and `FlatRulesLoaded` (`RulesAsAsked`),
  where sections and directories are as the code takes them to be (`FlatUse`).
* `JsonProofs`: `IInv` is inductive (`Invariance`), hence `WritesAlwaysFit` (`WritesFit`), `PassesAlwaysAgree`
  (`PassesAgree`) and `MemoryAlwaysSound` (`MemorySound`, which has `TypeOK` in it), for documents of any bytes and any
  length, and any `UintMax`, `IntMax`, `EntrySize` and `IntLimit`.

The argument for the linked lists. A chain is a sequence of records, each linked to the next (`IsChain`), and what the
model computes by following links is its members (`LinkedChain`, by taking the first number of steps for which it would
not be so). `Shape` says that the sequences of the buckets hold every record but the free one, no key twice and each key
in its bucket; `Free`, that at most one record waits to be used again, with no link of its own; `Balance`, what is paid
for, and that nothing waits while an eviction is due. Linking at an end, and unlinking at the head, in the middle or at
the end, is appending to one sequence or cutting it (`Inserted`, `Removed`). The sum over the chains is the length times the number
of records (`SumOfLengths`), so there is always one to evict while memory is short (`EvictInv`). For the refinement
`Ages` lists the records by `access_count`; the abstract cache is the end of that list (`AgesRead`). A use moves a record to
the end (`UsedNow`), a new one is appended (`InsertedNow`), a deletion cuts the list (`DeletedNow`); while an
eviction is due the list is longer than the memory by one, the oldest record, which the abstract cache has dropped
when the new one was stored (`EvictedNow`). Each is what the operators of `LruOps` do to the order (`HeldOps`).

`UsedByAgent` says that all entries have one length, that `lruc_delete` is called only when no record waits to be used
again, and that `calloc` has a record for one entry more than fits. `cache.c` gives every entry the length `AVG_SIZE` and never deletes. Without the
first, `required` may wrap; without the second two records wait, and a chain may run into the free queue (section 5).

The argument for the agent. The checked invariants are not inductive alone. `SetUpOrder` adds
what is assigned at each point of `init_preload` and that nothing is cached before `init` is set, so that loading the
rules cannot invalidate an entry; `Locals` adds that a thread about to insert did not get its verdict
from a freed buffer. Then: only the holder of `mut` is in the body (`SetUpExclusive`); a call passes
`init_preload` only with `init` set (`ReadyBeforeUse`); an insert puts a justified verdict in a fresh
buffer and frees exactly the buffers that leave the cache (`InsertEffect`, `BuffersOwned`,
`EntriesJustified`); a read through a pointer that is still the entry's gives that verdict
(`VerdictJustified`).

The argument for the hash map. `TableOrdered` looks only one bucket back, and says nothing during a deletion, so it
is not inductive. `Path` says it of the whole way: j buckets before an item, if that is not before its home, is an
item of a distance of at least its own less j. An item that is carried on keeps its path (`PassOn`), the one it
displaces takes over a path of its own (`PassSwap`), and putting one that is further from its home where a closer one was
breaks no other path (`Raised`). A deletion leaves a hole that is exempt: it moves on with each shift (`HoleMoves`), and
once the next item is at home it belongs to no path (`HoleCloses`). With a free bucket no distance reaches the number
of buckets (`NotAround`); there is one since the number of buckets is a doubling of `cap` (`Doublings`), so that
halving it loses no bucket and `count` stays within three quarters of the new size (`GrowHalf`). An item of the key that is
searched or carried lies further on, or here (`OneEach`, by `Ahead`): that no item is stored twice, and that a search
may end at a free bucket. `Promised` relates the items in the table, in hand, and already in the new array, to
the map when the call began. Each part was checked by TLC before it was proved.

The argument for the thread pool. `LockExclusive` adds that the thread which holds the mutex is the one
in a critical section; `WaitSeesEmpty`, that a worker about to sleep has seen an empty queue, which nobody
changes before it sleeps; `ShutdownSet`, that `shutdown` is set exactly from the first step of
`destroy_tpool` on. A work is linked under the lock, when no worker is between its test and its sleep; so
the queue grows only with a signal pending, the signal moves a sleeper among the workers on their way to
the queue, and each of those leaves it only with a work: `NoLostWakeup`, by counting. The broadcast comes after
`destroy_tpool` has had the lock, so every worker has either slept, and is woken, or will see `shutdown`.
For the refinement, a worker takes a work only while another is not using it, so that fewer than `Width`
run (`RunningBelowWidth`).

The argument for the kernel. `TableSteps` says what the table and the saved pointers are at each step of
`hook_init` and `hook_reset`. `HandlerSteps` says that a handler past `CreateMap` has a map, and past
`CopyPath` and `CopyPermission` the path and permission of its own message in `mapuser_t`; with two senders
neither holds, since the handler of the other may have written `mapuser_t` or, when its `hashmap_new` fails, put
NULL in place of the map. That is why `Alone` is assumed, and where the code needs the lock it lacks.

What `nluser` sends is a fold over the sections, pairs and directories of its file. A fold over a sequence is a
sequence of runs, one for each number of elements, each a step from the one before (`PairsFold`, `SectionsFold`), so that a
claim about it can be followed element by element, there being a least number of them for which it fails (`Upward`).
`Follows` says of a run over the pairs so far that its messages are the rules these ask for, in their order, and that it
stopped at the first malformed one. Files below a directory are found by the recursion of the code, which ends if directories do not contain
themselves: hence `Shallow`. `Kept` then says of each path asked for that the last rule for it is still in the
queue, or is stored and no rule for it is left, so that the queue that runs empty leaves the permission of the last
pair. A run that is to clear the rules as well asks for nothing (`NoClear`).

What is asked is not defined by these messages. A pair covers the path it names, or the files directly in the directory it
names (`Covers`); what else it causes to be sent are the files further down and the names made for them (`Deep`). If the
last pair that has to do with a path covers it and has an AUTHORITY, the path is to have that permission; else nothing is
claimed. `ClaimIsSent` says that the last rule sent for such a path is then the one asked for: a pair that covers a path
sends a rule for that path with its own permission, and a pair that does not concern it sends none for it. The rest is excepted
since the code is not right there: `get_dir_content` joins names without a slash (`nluser.c:85` and `94`), so a file below a
subdirectory gets no rule, and another path may get one; and `user_t`, which is global, keeps the permission of the
pair before (`nluser.c:118`).

The argument for the kernel's map. `Shape`: outside of the steps that exchange the array, `mask` ends at or
before the last bucket of it, and `clear` never enlarges the table. `Inside`: a lookup that has seen no such
step has an index within the mask, the present mask, and the present array. Every step of an exchange is noted in
`met`, which forgets nothing (`ArrayStays`).

What that map holds is proved by reading its buckets as a table of `RobinHood` (`Of`): the lemmas of `RobinHoodProofs`
on placing, passing on and displacing then hold of `map.c`, which has its own loops. `KInv` says at each point which
table holds the rules: between calls the buckets (`Between`); during a set the buckets with the item in hand, which is
the new one or stands for it (`Setting`); during a resize the new array together with what is left of the old one, whose
distances the copying has spoilt (`Resizing`, `Rest`). While that table is in no order nothing is looked up in it
rightly, and `AnswerRight` says nothing. What a lookup answers otherwise is `Answering`: either the path had no rule at
some moment since the lookup began (NULL is in `had`), or its bucket is ahead of the lookup and will be found before
any free one (`Ahead`, by `SearchAhead` of `RobinHoodProofs`); and the bucket whose permission is about to be read is that of the path,
or is free and is being filled for it, or was zeroed by a clear (`AtKey`). An update keeps this by moving nothing; one
that does move something turns `met` into one of the values for which nothing is claimed.

The argument for the loader. `SectionsPassed` and `PairsPassed`: all sections before `sec`, and all pairs before
`at`, were whole; `Settled`: after the set-up nothing changes the rules or the saved directory. `Typed` says of the calls of
`get_dir_content` that each opened a directory whose name strictly extends that of its caller (`Descends`), so
that no directory is opened twice in one nesting and the buffers never outgrow the longest name.

`Holds` is the permission that the pairs before a place ask for, and one pair more changes it for the files that pair
covers, and only those (`HoldsPair`). `RulesNow` says that each rule is that of the place of the loops, but while a
directory is read the files already read have the permission of its pair (`Waiting`: those not yet read). `Chain`
says which call reads them: the bottom one, which has the name of the pair; calls above it are for directories below.
This needs `FlatUse`. `strstr` lets a section apply to programs whose name it contains, so a section is to be named
for one program. A directory inside a named one is opened under a name with no slash at its end, so its files get
names that are not theirs; a named directory is to hold none, as `ConfigDeep` shows. Files for which `hashmap_set` ran
out of memory are excepted (`lost`).

The argument for the parser. The two passes are the same loop, and agree because what they compute beside the tree (the
flags, the value in hand, `string_length`, the values with their parents and counts) depends on the bytes alone. Such a
state is a point; the next one is a function of it and of a byte (`After`), if the byte is taken (`Accepts`), and each
action of the loop computes that function, or stops (`PointStep`). The digits of a number, which only the first
pass looks at, lead from one point to the next together. The first pass leaves a trace of points (`Trace`), which is no
variable of the model but a bound variable of the invariant. The second pass reads the same bytes from the same start,
so it is at a point of the whole trace (`SecondAt`): what was accepted it accepts, and it meets no limit that the first has not
met. That gives `PassesAgree`.

For `WritesFit` the second pass is compared with the last point of the trace, whose counts were allocated. Counts only
grow along a trace (`Grows`, followed point by point from the least one where it would not be so), and those of
the present point are what is filled (`SecondHeap`), so there is room for a value. What is allocated is the size
of the counted entries and keys, but an object's goes through an `int` on the way: `Sized` says that it holds it, and only
where it does the call goes on; that it fails to hold only what is too large (`NarrowSmall`) is the first clause of `WritesFit`. A key or string that has begun
is counted only at its end, and the array for a key's value only with the value. It is owed to them (`Owed`, `InText`), and
no accepted byte takes that back before it is counted. The last point owes nothing, since the document is over there
(`KeyPromised`, `TextPromised`).

For `MemorySound`, `LooseOK` says that a value the second pass has begun is linked into the one around it, except those on
the way from the root to the value in hand: they are left behind when memory runs out. `Reach` is what the root leads to,
and `Lost`, which the model defines recursively, is the rest (`LostIs`, again by a least counterexample).
`json_value_free_ex` takes values off the end of an array and goes down to them: those it is in are a path from the root, each
the one just taken off its parent (`Path`), and `Left` says of the others that what is not taken off yet is not
freed, and what is taken off is freed or on the path. A step down lengthens the path (`Descend`), a step up frees its
end (`Ascend`); no value is in two places (`Tree`), so none is freed twice. After an error, the records not yet begun,
which in the first pass are all, hang on a chain of `next` from `alloc` (`Release`). `IInv` has a part for
each phase (`Reading`, `FreeingOK`, `EndOK`).

Assumptions: `Capacity` is positive, a hash map starts with at least 2 buckets and shrinks when a third of it or less is in use
(16 and a tenth in the code), a hash is a natural number, NULL is no value, thread, request, task or rule, the workers are
finitely many and the owner is not one, and the requests, rules and tasks have the right types. The names of files and
directories are sequences of pieces, documents are over sets of bytes, 0 not among them, and the limits of lengths are natural numbers, that of `int` positive. Each is
named where the constant is declared. Some theorems assume more, named in their statement: that one run of `nluser` goes
on at a time (`Alone`), that directories have a bounded depth (`Shallow`), what a configuration and the directories it
names are to look like (`FlatUse`), and how `cache.c` uses its list (`UsedByAgent`). The instances on which TLC checks the
same properties meet them. Without `Alone` or `FlatUse` the code does not do what is claimed.

Only model-checked: `AcceptsGrammar` and `TreeRight` of `JsonGrammar`, which compare what the parser accepts and builds
with a grammar and a denotation defined by recursion over documents, where only an induction over data would do; and
the liveness properties, which are out of the prover's reach.

## 5. Not modelled, and the plan

Not modelled: of the JSON parser comments, which `json_parse` leaves off, the byte order mark, error texts and
the limit on memory, which nobody sets; `kern_utils` (a logging prototype), `perf_test`, logging, `lruc_free`
and `hashmap_free` (never called), `hashmap_probe` and `hashmap_scan` (they change nothing), the memory of the
keys that `cache.c` copies, names longer than the buffers, and `fork` and exit handlers of the program the
agent is loaded into.

Known limits of the code that the models show by their definitions and no run states as a property:
`fopen` of an F path is allowed (`Decide`, from `check.c:65`); a shorter value for a stored key wraps
`required` around (`Update`, from `lru.c:223`); a section applies to every program whose name its name
contains (`Matches`, from `config.c:121`); files created after the set-up have no rule; single names
in the root directory are looked up with two slashes, and relative names with a slash as they are
(`Buffer`, from `check.c:24`); a new target keeps the rules of the old one (`Retarget`, from `cnpv.c:208`).
With two records in the free queue, a new entry is popped with its `next` still pointing to the second, so
its chain runs into the free queue (`PopOrCreate`, from `lru.c:104`); the agent never has two. With two runs of
`nluser` at a time a handler reads the message of the other through `user_t` (`Pointed`, from `cnpv.c:185`), and
rules are stored that nobody sent. An integer too large for its type, behind a number with a point, gets its
last digits as a fraction (`NumberBegins`, from `json.c:680`, keeps the flag of the point); memory that runs
out in the second pass loses the values not yet linked, or crashes when the root got no array (`Release` and
`Descend`, from `json.c:971`); the last letter of a literal may be read behind the end of the file
(`CutLiteral`, from `json.c:612`). The size of an object's entries, 24 bytes each, is put in an `int`: from 89,478,486 pairs it
is negative, so that the object is refused for lack of memory unless its keys outweigh it, and from 178,956,971 the block is
too small and the second pass writes behind it (`Overruns`, from `json.c:153`); the model does not follow a call from
there. `nluser` sends rules for files below a subdirectory under names that are not theirs (`FilesBelow`, from
`nluser.c:85` and `94`), as the agent does in `config_deep`, and gives a pair without AUTHORITY the permission of the pair
before (`ProcessPair`, from `nluser.c:118`), where the agent gives none (`config.c:83`). An unlocked lookup in the kernel's map reads freed memory when the array is
exchanged under it (`ReadAstray`, from `map.c:136` and `map.c:176`).

Next, in this order:

1. `fork` while another thread holds `mut` or the lock of the cache.
2. Two runs of `nluser` over `KernelMap`, whose updates then interleave with each other.
