----------------------------- MODULE ThreadPool -----------------------------
(***************************************************************************)
(* ns_agent/src/tpool.c.  create_tpool starts the workers, which run       *)
(* work_routine: lock, sleep on the condition variable while there is no   *)
(* work, take the first work, run it without the lock, free it.            *)
(* add_task_2_tpool links a work at the end and signals; destroy_tpool     *)
(* sets shutdown without the lock, wakes everybody, joins the workers, and *)
(* frees the works that are left and the pool.                             *)
(*                                                                         *)
(* The threads are the workers and Owner, who creates the pool, adds tasks *)
(* and destroys it, as ns_agent/test/test_tpool.c does.  A task may add    *)
(* another while it runs.  A step is what a thread does between two        *)
(* accesses to shared state that another thread could come between; what   *)
(* queue_lock protects is one step only if no unlocked access can tell.    *)
(***************************************************************************)
EXTENDS Integers, SequencesExt, FiniteSets

CONSTANTS Worker,     \* (*pool)->thread_id
          Owner,      \* the thread that created the pool
          Task,       \* calls of add_task_2_tpool; each has its own work
          Submits,    \* the task that a task adds, if any
          NULL

ASSUME WorkerAssumption == IsFiniteSet(Worker) /\ Worker # {}
ASSUME TaskAssumption == Submits \in [Task -> Task \cup {NULL}]
ASSUME NamesDiffer == Owner \notin Worker /\ NULL \notin Task /\ NULL \notin Worker \cup {Owner}

Thread == Worker \cup {Owner}

\* The tasks that Owner adds.
Roots == {k \in Task : \A j \in Task : Submits[j] # k}

VARIABLES tpool_head,   \* the works queued, first to last
          shutdown,
          queue_lock,   \* the thread that holds the mutex
          pc,
          work,         \* the work a worker has taken, or else NULL
          adding,       \* the work a thread is about to add, or else NULL
          added,        \* history: the works allocated
          freed         \* the works freed

vars == <<tpool_head, shutdown, queue_lock, pc, work, adding, added, freed>>

Queued == ToSet(tpool_head)
Held == {work[w] : w \in Worker} \ {NULL}

Init ==
  /\ tpool_head = <<>> /\ shutdown = FALSE /\ queue_lock = NULL
  /\ pc = [t \in Thread |-> IF t = Owner THEN "create" ELSE "unborn"]
  /\ work = [w \in Worker |-> NULL]
  /\ adding = [t \in Thread |-> NULL]
  /\ added = {} /\ freed = {}

Go(t, label) == pc' = [pc EXCEPT ![t] = label]

-----------------------------------------------------------------------------
(* create_tpool: one pthread_create after the other. *)

Create(w) ==
  /\ pc[Owner] = "create" /\ pc[w] = "unborn"
  /\ pc' = [pc EXCEPT ![w] = "lock",
                      ![Owner] = IF \A v \in Worker \ {w} : pc[v] # "unborn"
                                   THEN "idle" ELSE "create"]
  /\ UNCHANGED <<tpool_head, shutdown, queue_lock, work, adding, added, freed>>

-----------------------------------------------------------------------------
(* work_routine. *)

\* pthread_mutex_lock, or the locking that ends pthread_cond_wait.
Lock(w) ==
  /\ pc[w] \in {"lock", "woken"} /\ queue_lock = NULL
  /\ queue_lock' = w
  /\ Go(w, "test")
  /\ UNCHANGED <<tpool_head, shutdown, work, adding, added, freed>>

\* Faulty variant of Test: does not look at shutdown.
TestHeadOnly(w) ==
  /\ pc[w] = "test"
  /\ Go(w, IF tpool_head = <<>> THEN "wait" ELSE "act")
  /\ UNCHANGED <<tpool_head, shutdown, queue_lock, work, adding, added, freed>>

\* while (!pool->tpool_head && !pool->shutdown)
Test(w) ==
  /\ pc[w] = "test"
  /\ Go(w, IF tpool_head = <<>> /\ ~shutdown THEN "wait" ELSE "act")
  /\ UNCHANGED <<tpool_head, shutdown, queue_lock, work, adding, added, freed>>

\* pthread_cond_wait: unlock and sleep.
Wait(w) ==
  /\ pc[w] = "wait"
  /\ queue_lock' = NULL
  /\ Go(w, "asleep")
  /\ UNCHANGED <<tpool_head, shutdown, work, adding, added, freed>>

\* pthread_cond_wait may return without a signal.
SpuriousWakeup(w) ==
  /\ pc[w] = "asleep"
  /\ Go(w, "woken")
  /\ UNCHANGED <<tpool_head, shutdown, queue_lock, work, adding, added, freed>>

\* if (pool->shutdown): unlock and exit.
Leave(w) ==
  /\ pc[w] = "act" /\ shutdown
  /\ queue_lock' = NULL
  /\ Go(w, "gone")
  /\ UNCHANGED <<tpool_head, shutdown, work, adding, added, freed>>

\* Faulty variant of Take: leaves the work in the queue.
TakeKept(w) ==
  /\ pc[w] = "act" /\ ~shutdown
  /\ work' = [work EXCEPT ![w] = Head(tpool_head)]
  /\ queue_lock' = NULL
  /\ Go(w, "run")
  /\ UNCHANGED <<tpool_head, shutdown, adding, added, freed>>

\* Otherwise take the first work and unlock.
Take(w) ==
  /\ pc[w] = "act" /\ ~shutdown
  /\ work' = [work EXCEPT ![w] = Head(tpool_head)]
  /\ tpool_head' = Tail(tpool_head)
  /\ queue_lock' = NULL
  /\ Go(w, "run")
  /\ UNCHANGED <<shutdown, adding, added, freed>>

\* work->work_routine(work->args): adds a task, or ends.
Run(w) ==
  /\ pc[w] = "run"
  /\ LET k == Submits[work[w]] IN
       IF k = NULL \/ k \in added
         THEN /\ Go(w, "free")
              /\ UNCHANGED <<adding, added>>
         ELSE /\ adding' = [adding EXCEPT ![w] = k]
              /\ added' = added \cup {k}
              /\ Go(w, "add_lock")
  /\ UNCHANGED <<tpool_head, shutdown, queue_lock, work, freed>>

\* free(work)
FreeWork(w) ==
  /\ pc[w] = "free"
  /\ freed' = freed \cup {work[w]}
  /\ work' = [work EXCEPT ![w] = NULL]
  /\ Go(w, "lock")
  /\ UNCHANGED <<tpool_head, shutdown, queue_lock, adding, added>>

-----------------------------------------------------------------------------
(* add_task_2_tpool.  Its early returns, without a routine or without      *)
(* memory, change nothing.                                                 *)

OwnerAdds(k) ==
  /\ pc[Owner] = "idle" /\ k \notin added
  /\ adding' = [adding EXCEPT ![Owner] = k]
  /\ added' = added \cup {k}
  /\ Go(Owner, "add_lock")
  /\ UNCHANGED <<tpool_head, shutdown, queue_lock, work, freed>>

AddLock(t) ==
  /\ pc[t] = "add_lock" /\ queue_lock = NULL
  /\ queue_lock' = t
  /\ Go(t, "link")
  /\ UNCHANGED <<tpool_head, shutdown, work, adding, added, freed>>

\* Faulty variant of Link: before the first.
LinkFirst(t) ==
  /\ pc[t] = "link"
  /\ tpool_head' = <<adding[t]>> \o tpool_head
  /\ adding' = [adding EXCEPT ![t] = NULL]
  /\ Go(t, "signal")
  /\ UNCHANGED <<shutdown, queue_lock, work, added, freed>>

\* Link the work after the last.
Link(t) ==
  /\ pc[t] = "link"
  /\ tpool_head' = Append(tpool_head, adding[t])
  /\ adding' = [adding EXCEPT ![t] = NULL]
  /\ Go(t, "signal")
  /\ UNCHANGED <<shutdown, queue_lock, work, added, freed>>

AfterAdd(t) == IF t = Owner THEN "idle" ELSE "free"
Sleepers == {w \in Worker : pc[w] = "asleep"}

\* Faulty variant of Signal: only when the queue was empty.
SignalFirst(t) ==
  /\ pc[t] = "signal"
  /\ queue_lock' = NULL
  /\ IF Sleepers = {} \/ Len(tpool_head) > 1
       THEN Go(t, AfterAdd(t))
       ELSE \E w \in Sleepers : pc' = [pc EXCEPT ![w] = "woken", ![t] = AfterAdd(t)]
  /\ UNCHANGED <<tpool_head, shutdown, work, adding, added, freed>>

\* pthread_cond_signal wakes one of the threads that sleep; unlock.
Signal(t) ==
  /\ pc[t] = "signal"
  /\ queue_lock' = NULL
  /\ IF Sleepers = {}
       THEN Go(t, AfterAdd(t))
       ELSE \E w \in Sleepers : pc' = [pc EXCEPT ![w] = "woken", ![t] = AfterAdd(t)]
  /\ UNCHANGED <<tpool_head, shutdown, work, adding, added, freed>>

-----------------------------------------------------------------------------
(* destroy_tpool. *)

\* if (pool->shutdown) return, and pool->shutdown = 1, without the lock.
Destroy ==
  /\ pc[Owner] = "idle" /\ ~shutdown
  /\ shutdown' = TRUE
  /\ Go(Owner, "destroy_lock")
  /\ UNCHANGED <<tpool_head, queue_lock, work, adding, added, freed>>

DestroyLock ==
  /\ pc[Owner] = "destroy_lock" /\ queue_lock = NULL
  /\ queue_lock' = Owner
  /\ Go(Owner, "broadcast")
  /\ UNCHANGED <<tpool_head, shutdown, work, adding, added, freed>>

\* pthread_cond_broadcast, and unlock.
Broadcast ==
  /\ pc[Owner] = "broadcast"
  /\ pc' = [t \in Thread |-> IF t = Owner THEN "join"
                             ELSE IF pc[t] = "asleep" THEN "woken" ELSE pc[t]]
  /\ queue_lock' = IF queue_lock = Owner THEN NULL ELSE queue_lock
  /\ UNCHANGED <<tpool_head, shutdown, work, adding, added, freed>>

\* Faulty variant of Join: waits for one worker only.
JoinOne ==
  /\ pc[Owner] = "join"
  /\ \E w \in Worker : pc[w] = "gone"
  /\ Go(Owner, "drain")
  /\ UNCHANGED <<tpool_head, shutdown, queue_lock, work, adding, added, freed>>

\* pthread_join of every worker; free(pool->thread_id).
Join ==
  /\ pc[Owner] = "join"
  /\ \A w \in Worker : pc[w] = "gone"
  /\ Go(Owner, "drain")
  /\ UNCHANGED <<tpool_head, shutdown, queue_lock, work, adding, added, freed>>

\* Free the works that nobody took, from the first.
Drain ==
  /\ pc[Owner] = "drain" /\ tpool_head # <<>>
  /\ freed' = freed \cup {Head(tpool_head)}
  /\ tpool_head' = Tail(tpool_head)
  /\ UNCHANGED <<shutdown, queue_lock, pc, work, adding, added>>

\* pthread_mutex_destroy, pthread_cond_destroy, free(pool).
FreePool ==
  /\ pc[Owner] = "drain" /\ tpool_head = <<>>
  /\ Go(Owner, "freed")
  /\ UNCHANGED <<tpool_head, shutdown, queue_lock, work, adding, added, freed>>

-----------------------------------------------------------------------------
\* The pool is gone: nothing is left to do.
Gone == pc[Owner] = "freed" /\ UNCHANGED vars

WorkerStep(w) == \/ Lock(w) \/ Test(w) \/ Wait(w) \/ Leave(w) \/ Take(w)
                 \/ Run(w) \/ FreeWork(w)
AddStep(t) == AddLock(t) \/ Link(t) \/ Signal(t)
DestroyStep == DestroyLock \/ Broadcast \/ Join \/ Drain \/ FreePool

Next == \/ \E w \in Worker : Create(w) \/ WorkerStep(w) \/ SpuriousWakeup(w)
        \/ \E k \in Roots : OwnerAdds(k)
        \/ \E t \in Thread : AddStep(t)
        \/ Destroy \/ DestroyStep
        \/ Gone

\* Every thread goes on running, and tasks end; Owner need not call anything.
\* Wake-ups without a signal are not so many that a thread never gets the lock.
Fairness == /\ \A w \in Worker : WF_vars(WorkerStep(w) \/ AddStep(w))
            /\ WF_vars(AddStep(Owner)) /\ WF_vars(DestroyStep)
            /\ \A w \in Worker : WF_vars(Create(w)) /\ <>[][~SpuriousWakeup(w)]_vars
Spec == Init /\ [][Next]_vars /\ Fairness
-----------------------------------------------------------------------------
Adding == {"add_lock", "link", "signal"}
WorkerLabel == Adding \cup {"unborn", "lock", "test", "wait", "asleep", "woken", "act",
                            "run", "free", "gone"}
OwnerLabel == Adding \cup {"create", "idle", "destroy_lock", "broadcast", "join", "drain",
                           "freed"}

(***************************************************************************)
(* Type invariant: the fields of the pool and the locals of the threads; a *)
(* worker has a work from taking it to freeing it, a thread one to add     *)
(* until it is linked.                                                     *)
(***************************************************************************)
TypeOK ==
  /\ tpool_head \in Seq(Task)
  /\ shutdown \in BOOLEAN
  /\ queue_lock \in Thread \cup {NULL}
  /\ pc \in [Thread -> WorkerLabel \cup OwnerLabel]
  /\ pc[Owner] \in OwnerLabel /\ \A w \in Worker : pc[w] \in WorkerLabel
  /\ work \in [Worker -> Task \cup {NULL}]
  /\ adding \in [Thread -> Task \cup {NULL}]
  /\ added \subseteq Task /\ freed \subseteq Task
  /\ \A w \in Worker : work[w] # NULL <=> pc[w] \in Adding \cup {"run", "free"}
  /\ \A t \in Thread : adding[t] # NULL <=> pc[t] \in {"add_lock", "link"}

(***************************************************************************)
(* A worker takes a work only if there is one: between its test of         *)
(* tpool_head in the loop and its use below, shutdown may have changed but *)
(* not the queue.                                                          *)
(***************************************************************************)
HeadExists == \A w \in Worker : pc[w] = "act" /\ ~shutdown => tpool_head # <<>>

(***************************************************************************)
(* No work is leaked, freed twice, or used by two threads or after it is   *)
(* freed: each one allocated is, once, in the queue, about to be queued,   *)
(* with one worker, or freed.                                              *)
(***************************************************************************)
WorksOwned ==
  /\ added = freed \cup Queued \cup Held \cup ({adding[t] : t \in Thread} \ {NULL})
  /\ IsInjective(tpool_head)
  /\ \A v, w \in Worker : work[v] = work[w] => v = w \/ work[w] = NULL
  /\ \A s, t \in Thread : adding[s] = adding[t] => s = t \/ adding[t] = NULL
  /\ \A w \in Worker : work[w] \notin freed \cup Queued
  /\ \A t \in Thread : adding[t] \notin freed \cup Queued \cup Held
  /\ freed \cap Queued = {}

(* Together: a worker takes a work that is there, and nobody else has it. *)
WorksSound == TypeOK /\ HeadExists /\ WorksOwned

Seeking == {w \in Worker : pc[w] \in {"lock", "woken", "test", "wait", "act"}}
Unsignalled == IF \E t \in Thread : pc[t] = "signal" THEN 1 ELSE 0

(***************************************************************************)
(* No wake-up is lost: while a worker sleeps, every queued work has an     *)
(* awake worker on its way to the queue, counting the signal that is about *)
(* to be sent for the last one.                                            *)
(***************************************************************************)
NoLostWakeup ==
  ~shutdown /\ Sleepers # {} => Cardinality(Seeking) + Unsignalled >= Len(tpool_head)

(***************************************************************************)
(* "pool shutdown,release the mutex and exit" (tpool.c:25): although       *)
(* shutdown is set without the lock, after the broadcast no worker sleeps  *)
(* or is about to.                                                         *)
(***************************************************************************)
ShutdownSeen ==
  pc[Owner] \in {"join", "drain", "freed"} =>
    /\ shutdown
    /\ \A w \in Worker : pc[w] \notin {"unborn", "wait", "asleep"}

(* Nobody uses the pool when its parts are freed. *)
PoolUnused ==
  pc[Owner] \in {"drain", "freed"} => \A w \in Worker : pc[w] = "gone"

(* Together: destroy_tpool joins only workers that will see shutdown, and waits for all. *)
ShutdownSafe == ShutdownSeen /\ PoolUnused

(* destroy_tpool returns, whatever the workers were doing. *)
DestroyReturns == shutdown ~> pc[Owner] = "freed"

-----------------------------------------------------------------------------
(***************************************************************************)
(* The pool implements TaskPool: works start in the order in which they    *)
(* were added, at most one for each worker, none after shutdown, each      *)
(* queued one starts unless the pool is destroyed, and then is dropped.    *)
(***************************************************************************)
Promise == INSTANCE TaskPool WITH
  Width <- Cardinality(Worker), pending <- tpool_head, running <- Held,
  over <- freed, closed <- shutdown

ImplementsTaskPool == Promise!Spec
=============================================================================
