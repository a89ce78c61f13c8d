-------------------------- MODULE ThreadPoolProofs --------------------------
(***************************************************************************)
(* The safety of tpool.c for any number of workers and any tasks, and that *)
(* every step of it is one of TaskPool or changes nothing there.           *)
(***************************************************************************)
EXTENDS ThreadPool, FiniteSetTheorems, SequenceTheorems, TLAPS

Holding == {"test", "wait", "act", "link", "signal", "broadcast"}

\* queue_lock is held by the thread that is in a critical section, if any.
LockExclusive == \A t \in Thread : queue_lock = t <=> pc[t] \in Holding

\* A worker that is about to sleep has seen an empty queue, which stays empty.
WaitSeesEmpty == \A w \in Worker : pc[w] = "wait" => tpool_head = <<>>

Destroying == {"destroy_lock", "broadcast", "join", "drain", "freed"}

\* shutdown is set exactly from the first step of destroy_tpool on.
ShutdownSet == /\ shutdown <=> pc[Owner] \in Destroying
               /\ pc[Owner] # "create" => \A w \in Worker : pc[w] # "unborn"

Control == TypeOK /\ LockExclusive /\ ShutdownSet

Inv == /\ Control /\ WaitSeesEmpty /\ HeadExists /\ ShutdownSeen /\ PoolUnused
       /\ WorksOwned /\ NoLostWakeup

-----------------------------------------------------------------------------
(* Sequences without repetitions, and what they contain. *)

LEMMA AppendElements ==
  ASSUME NEW S, NEW s \in Seq(S), NEW e \in S
  PROVE  /\ ToSet(Append(s, e)) = ToSet(s) \cup {e}
         /\ IsInjective(s) /\ e \notin ToSet(s) => IsInjective(Append(s, e))
<1>1. /\ Len(Append(s, e)) = Len(s) + 1 /\ Append(s, e) \in Seq(S)
      /\ \A n \in 1 .. Len(s) : Append(s, e)[n] = s[n]
      /\ Append(s, e)[Len(s) + 1] = e
  BY AppendProperties
<1>2. Len(s) \in Nat /\ DOMAIN s = 1 .. Len(s) /\ DOMAIN Append(s, e) = 1 .. (Len(s) + 1)
  BY <1>1, LenProperties
<1>. DEFINE r == Append(s, e)
<1>. HIDE DEF r
<1>3. ToSet(r) = ToSet(s) \cup {e}
  BY <1>1, <1>2 DEF ToSet, r
<1>4. IsInjective(s) /\ e \notin ToSet(s) => IsInjective(r)
  BY <1>1, <1>2 DEF ToSet, IsInjective, r
<1>5. QED BY <1>3, <1>4 DEF r

LEMMA TailElements ==
  ASSUME NEW S, NEW s \in Seq(S), s # <<>>
  PROVE  /\ Head(s) \in S /\ Tail(s) \in Seq(S) /\ Len(Tail(s)) = Len(s) - 1
         /\ ToSet(s) = ToSet(Tail(s)) \cup {Head(s)}
         /\ IsInjective(s) => IsInjective(Tail(s)) /\ Head(s) \notin ToSet(Tail(s))
<1>1. /\ Len(s) \in Nat \ {0} /\ DOMAIN s = 1 .. Len(s)
      /\ Tail(s) \in Seq(S) /\ Len(Tail(s)) = Len(s) - 1
      /\ \A n \in 1 .. (Len(s) - 1) : Tail(s)[n] = s[n + 1]
      /\ DOMAIN Tail(s) = 1 .. (Len(s) - 1)
      /\ Head(s) = s[1] /\ s[1] \in S
  BY EmptySeq, LenProperties, HeadTailProperties
<1>. DEFINE r == Tail(s)
<1>. HIDE DEF r
<1>2. ToSet(s) = ToSet(r) \cup {s[1]}
  <2>1. \A n \in 2 .. Len(s) : n - 1 \in 1 .. (Len(s) - 1) /\ r[n - 1] = s[n]
    BY <1>1 DEF r
  <2>2. ToSet(s) \subseteq ToSet(r) \cup {s[1]}
    <3>. SUFFICES ASSUME NEW n \in 1 .. Len(s) PROVE s[n] \in ToSet(r) \cup {s[1]}
      BY <1>1 DEF ToSet
    <3>1. CASE n = 1
      BY <3>1
    <3>2. CASE n # 1
      <4>1. n \in 2 .. Len(s)
        BY <1>1, <3>2
      <4>2. n - 1 \in DOMAIN r /\ r[n - 1] = s[n]
        BY <1>1, <2>1, <4>1 DEF r
      <4>3. QED BY <4>2 DEF ToSet
    <3>3. QED BY <3>1, <3>2
  <2>3. ToSet(r) \cup {s[1]} \subseteq ToSet(s)
    BY <1>1 DEF ToSet, r
  <2>4. QED BY <2>2, <2>3
<1>3. IsInjective(s) => IsInjective(r) /\ s[1] \notin ToSet(r)
  BY <1>1 DEF ToSet, IsInjective, r
<1>4. QED BY <1>1, <1>2, <1>3 DEF r

-----------------------------------------------------------------------------
(* What the threads do with the lock, and with shutdown. *)

LEMMA InitInv == Init => Inv
<1>. SUFFICES ASSUME Init PROVE Inv
  OBVIOUS
<1>1. Control
  <2>1. pc \in [Thread -> {"create", "unborn"}] /\ pc[Owner] = "create"
        /\ \A w \in Worker : pc[w] = "unborn"
    BY NamesDiffer DEF Init, Thread
  <2>2. TypeOK
    <3>1. tpool_head \in Seq(Task) /\ shutdown \in BOOLEAN
          /\ queue_lock \in Thread \cup {NULL} /\ added \subseteq Task /\ freed \subseteq Task
      BY EmptySeq DEF Init
    <3>2. /\ pc \in [Thread -> WorkerLabel \cup OwnerLabel]
          /\ pc[Owner] \in OwnerLabel /\ \A w \in Worker : pc[w] \in WorkerLabel
      BY <2>1 DEF Thread, WorkerLabel, OwnerLabel
    <3>3. /\ work \in [Worker -> Task \cup {NULL}]
          /\ adding \in [Thread -> Task \cup {NULL}]
          /\ \A w \in Worker : work[w] = NULL
          /\ \A t \in Thread : adding[t] = NULL
      BY DEF Init
    <3>4. /\ \A w \in Worker : pc[w] \notin Adding \cup {"run", "free"}
          /\ \A t \in Thread : pc[t] \notin {"add_lock", "link"}
      BY <2>1 DEF Thread, Adding
    <3>5. QED BY <3>1, <3>2, <3>3, <3>4 DEF TypeOK
  <2>3. LockExclusive /\ ShutdownSet
    BY <2>1, NamesDiffer DEF Init, LockExclusive, ShutdownSet, Thread, Holding, Destroying
  <2>4. QED BY <2>2, <2>3 DEF Control
<1>2. WaitSeesEmpty /\ HeadExists /\ ShutdownSeen /\ PoolUnused
  BY NamesDiffer DEF Init, WaitSeesEmpty, HeadExists, ShutdownSeen, PoolUnused, Thread
<1>3. WorksOwned
  BY NamesDiffer DEF Init, WorksOwned, Queued, Held, ToSet, IsInjective, Thread
<1>4. NoLostWakeup
  BY NamesDiffer DEF Init, NoLostWakeup, Sleepers, Thread
<1>5. QED BY <1>1, <1>2, <1>3, <1>4 DEF Inv

LEMMA NextControl == Control /\ HeadExists /\ [Next]_vars => Control'
<1>. SUFFICES ASSUME Control, HeadExists, [Next]_vars PROVE Control'
  OBVIOUS
<1>. USE NamesDiffer
     DEF Control, TypeOK, LockExclusive, ShutdownSet, Thread, Adding, WorkerLabel,
         OwnerLabel, Holding, Destroying, Go
<1>1. ASSUME NEW w \in Worker, Create(w) PROVE Control'
  BY <1>1 DEF Create
<1>2. ASSUME NEW w \in Worker, Lock(w) PROVE Control'
  BY <1>2 DEF Lock
<1>3. ASSUME NEW w \in Worker, Test(w) PROVE Control'
  BY <1>3 DEF Test
<1>4. ASSUME NEW w \in Worker, Wait(w) PROVE Control'
  BY <1>4 DEF Wait
<1>5. ASSUME NEW w \in Worker, SpuriousWakeup(w) PROVE Control'
  BY <1>5 DEF SpuriousWakeup
<1>6. ASSUME NEW w \in Worker, Leave(w) PROVE Control'
  BY <1>6 DEF Leave
<1>7. ASSUME NEW w \in Worker, Take(w) PROVE Control'
  <2>1. tpool_head # <<>>
    BY <1>7 DEF Take, HeadExists
  <2>2. Head(tpool_head) \in Task /\ Tail(tpool_head) \in Seq(Task)
    BY <2>1, TailElements
  <2>3. QED BY <1>7, <2>2 DEF Take
<1>8. ASSUME NEW w \in Worker, Run(w) PROVE Control'
  BY <1>8, TaskAssumption DEF Run
<1>9. ASSUME NEW w \in Worker, FreeWork(w) PROVE Control'
  BY <1>9 DEF FreeWork
<1>10. ASSUME NEW k \in Roots, OwnerAdds(k) PROVE Control'
  BY <1>10 DEF OwnerAdds, Roots
<1>11. ASSUME NEW t \in Thread, AddLock(t) PROVE Control'
  BY <1>11 DEF AddLock
<1>12. ASSUME NEW t \in Thread, Link(t) PROVE Control'
  <2>1. Append(tpool_head, adding[t]) \in Seq(Task)
    BY <1>12 DEF Link
  <2>2. QED BY <1>12, <2>1 DEF Link
<1>13. ASSUME NEW t \in Thread, Signal(t) PROVE Control'
  <2>1. CASE Sleepers = {}
    BY <1>13, <2>1 DEF Signal, AfterAdd
  <2>2. CASE Sleepers # {}
    BY <1>13, <2>2 DEF Signal, AfterAdd, Sleepers
  <2>3. QED BY <2>1, <2>2
<1>14. ASSUME Destroy PROVE Control'
  BY <1>14 DEF Destroy
<1>15. ASSUME DestroyLock PROVE Control'
  BY <1>15 DEF DestroyLock
<1>16. ASSUME Broadcast PROVE Control'
  BY <1>16 DEF Broadcast
<1>17. ASSUME Join PROVE Control'
  BY <1>17 DEF Join
<1>18. ASSUME Drain PROVE Control'
  BY <1>18, TailElements DEF Drain
<1>19. ASSUME FreePool PROVE Control'
  BY <1>19 DEF FreePool
<1>20. ASSUME UNCHANGED vars PROVE Control'
  BY <1>20 DEF vars
<1>21. QED
  BY <1>1, <1>2, <1>3, <1>4, <1>5, <1>6, <1>7, <1>8, <1>9, <1>10, <1>11, <1>12, <1>13,
     <1>14, <1>15, <1>16, <1>17, <1>18, <1>19, <1>20
     DEF Next, WorkerStep, AddStep, DestroyStep, Gone

-----------------------------------------------------------------------------
(* The order of shutdown, and the queue seen by a worker. *)

LEMMA NextOrder ==
  Inv /\ Control' /\ [Next]_vars =>
    WaitSeesEmpty' /\ HeadExists' /\ ShutdownSeen' /\ PoolUnused'
<1>. SUFFICES ASSUME Inv, Control', [Next]_vars
              PROVE  WaitSeesEmpty' /\ HeadExists' /\ ShutdownSeen' /\ PoolUnused'
  OBVIOUS
<1>. DEFINE Order == WaitSeesEmpty /\ HeadExists /\ ShutdownSeen /\ PoolUnused
<1>. USE NamesDiffer
     DEF Inv, Control, TypeOK, LockExclusive, ShutdownSet, WaitSeesEmpty, HeadExists,
         ShutdownSeen, PoolUnused, Thread, Adding, WorkerLabel, OwnerLabel, Holding,
         Destroying, Go
<1>1. ASSUME NEW w \in Worker, Create(w) PROVE Order'
  BY <1>1 DEF Create
<1>2. ASSUME NEW w \in Worker, Lock(w) PROVE Order'
  BY <1>2 DEF Lock
<1>3. ASSUME NEW w \in Worker, Test(w) PROVE Order'
  BY <1>3 DEF Test
<1>4. ASSUME NEW w \in Worker, Wait(w) PROVE Order'
  BY <1>4 DEF Wait
<1>5. ASSUME NEW w \in Worker, SpuriousWakeup(w) PROVE Order'
  BY <1>5 DEF SpuriousWakeup
<1>6. ASSUME NEW w \in Worker, Leave(w) PROVE Order'
  BY <1>6 DEF Leave
<1>7. ASSUME NEW w \in Worker, Take(w) PROVE Order'
  BY <1>7 DEF Take
<1>8. ASSUME NEW w \in Worker, Run(w) PROVE Order'
  BY <1>8 DEF Run
<1>9. ASSUME NEW w \in Worker, FreeWork(w) PROVE Order'
  BY <1>9 DEF FreeWork
<1>10. ASSUME NEW k \in Roots, OwnerAdds(k) PROVE Order'
  BY <1>10 DEF OwnerAdds
<1>11. ASSUME NEW t \in Thread, AddLock(t) PROVE Order'
  BY <1>11 DEF AddLock
<1>12. ASSUME NEW t \in Thread, Link(t) PROVE Order'
  <2>1. Append(tpool_head, adding[t]) # <<>>
    BY <1>12, AppendProperties DEF Link
  <2>2. QED BY <1>12, <2>1 DEF Link
<1>13. ASSUME NEW t \in Thread, Signal(t) PROVE Order'
  <2>1. CASE Sleepers = {}
    BY <1>13, <2>1 DEF Signal, AfterAdd
  <2>2. CASE Sleepers # {}
    BY <1>13, <2>2 DEF Signal, AfterAdd, Sleepers
  <2>3. QED BY <2>1, <2>2
<1>14. ASSUME Destroy PROVE Order'
  BY <1>14 DEF Destroy
<1>15. ASSUME DestroyLock PROVE Order'
  BY <1>15 DEF DestroyLock
<1>16. ASSUME Broadcast PROVE Order'
  BY <1>16 DEF Broadcast
<1>17. ASSUME Join PROVE Order'
  BY <1>17 DEF Join
<1>18. ASSUME Drain PROVE Order'
  BY <1>18 DEF Drain
<1>19. ASSUME FreePool PROVE Order'
  BY <1>19 DEF FreePool
<1>20. ASSUME UNCHANGED vars PROVE Order'
  BY <1>20 DEF vars
<1>21. QED
  BY <1>1, <1>2, <1>3, <1>4, <1>5, <1>6, <1>7, <1>8, <1>9, <1>10, <1>11, <1>12, <1>13,
     <1>14, <1>15, <1>16, <1>17, <1>18, <1>19, <1>20
     DEF Next, WorkerStep, AddStep, DestroyStep, Gone

-----------------------------------------------------------------------------
(* No wake-up is lost. *)

LEMMA SeekingFinite == IsFiniteSet(Seeking) /\ Cardinality(Seeking) \in Nat
BY WorkerAssumption, FS_Subset, FS_CardinalityType DEF Seeking

\* A step that keeps the queue and wakes nobody, at most makes a worker seek work.
Quiet == /\ UNCHANGED <<tpool_head, shutdown>>
         /\ Seeking \subseteq Seeking' /\ Sleepers' \subseteq Sleepers
         /\ \A t \in Thread : pc'[t] = "signal" <=> pc[t] = "signal"

LEMMA QuietStep ==
  ASSUME TypeOK, TypeOK', NoLostWakeup, Quiet PROVE NoLostWakeup'
<1>1. /\ IsFiniteSet(Seeking') /\ Seeking \subseteq Seeking'
      /\ Cardinality(Seeking) \in Nat /\ Cardinality(Seeking') \in Nat
  BY SeekingFinite, WorkerAssumption, FS_Subset, FS_CardinalityType DEF Seeking, Quiet
<1>2. Cardinality(Seeking) <= Cardinality(Seeking')
  BY <1>1, FS_Subset
<1>3. Unsignalled' = Unsignalled /\ Unsignalled \in {0, 1}
  BY DEF Unsignalled, Quiet
<1>4. Len(tpool_head') = Len(tpool_head) /\ Len(tpool_head) \in Nat
  BY LenProperties DEF Quiet, TypeOK
<1>5. ~shutdown' /\ Sleepers' # {} => ~shutdown /\ Sleepers # {}
  BY DEF Quiet
<1>6. QED BY <1>1, <1>2, <1>3, <1>4, <1>5 DEF NoLostWakeup

LEMMA NextNoLostWakeup ==
  Inv /\ Control' /\ [Next]_vars => NoLostWakeup'
<1>. SUFFICES ASSUME Inv, Control', [Next]_vars PROVE NoLostWakeup'
  OBVIOUS
<1>t. /\ TypeOK /\ TypeOK' /\ LockExclusive /\ ShutdownSet /\ NoLostWakeup
      /\ WaitSeesEmpty /\ HeadExists
  BY DEF Inv, Control
<1>n. /\ Cardinality(Seeking) \in Nat /\ Cardinality(Seeking') \in Nat
      /\ IsFiniteSet(Seeking)
      /\ Len(tpool_head) \in Nat /\ Len(tpool_head') \in Nat
  BY <1>t, SeekingFinite, WorkerAssumption, FS_Subset, FS_CardinalityType, LenProperties
     DEF Seeking, TypeOK
<1>q. ASSUME Quiet PROVE NoLostWakeup'
  BY <1>t, <1>q, QuietStep
<1>c. pc \in [Thread -> WorkerLabel \cup OwnerLabel] /\ Owner \in Thread /\ Worker \subseteq Thread
  BY <1>t DEF TypeOK, Thread
<1>s. ASSUME shutdown' PROVE NoLostWakeup'
  BY <1>s DEF NoLostWakeup
<1>1. ASSUME NEW w \in Worker, Create(w) PROVE NoLostWakeup'
  <2>1. Quiet
    BY <1>1, <1>c DEF Create, Quiet, Seeking, Sleepers
  <2>2. QED BY <1>q, <2>1
<1>2. ASSUME NEW w \in Worker, Lock(w) PROVE NoLostWakeup'
  <2>1. Quiet
    BY <1>2, <1>c DEF Lock, Quiet, Seeking, Sleepers, Go
  <2>2. QED BY <1>q, <2>1
<1>3. ASSUME NEW w \in Worker, Test(w) PROVE NoLostWakeup'
  <2>1. Quiet
    BY <1>3, <1>c DEF Test, Quiet, Seeking, Sleepers, Go
  <2>2. QED BY <1>q, <2>1
<1>4. ASSUME NEW w \in Worker, Wait(w) PROVE NoLostWakeup'
  <2>1. tpool_head' = <<>> /\ Len(tpool_head') = 0
    BY <1>4, <1>t, EmptySeq DEF Wait, WaitSeesEmpty
  <2>2. Unsignalled' \in {0, 1}
    BY DEF Unsignalled
  <2>3. QED BY <1>n, <2>1, <2>2 DEF NoLostWakeup
<1>5. ASSUME NEW w \in Worker, SpuriousWakeup(w) PROVE NoLostWakeup'
  <2>1. Quiet
    BY <1>5, <1>c DEF SpuriousWakeup, Quiet, Seeking, Sleepers, Go
  <2>2. QED BY <1>q, <2>1
<1>6. ASSUME NEW w \in Worker, Leave(w) PROVE NoLostWakeup'
  BY <1>6, <1>s DEF Leave
<1>7. ASSUME NEW w \in Worker, Take(w) PROVE NoLostWakeup'
  <2>1. tpool_head # <<>>
    BY <1>7, <1>t DEF Take, HeadExists
  <2>2. Len(tpool_head') = Len(tpool_head) - 1
    BY <1>7, <1>t, <2>1, TailElements DEF Take, TypeOK
  <2>3. w \in Seeking /\ Seeking' = Seeking \ {w}
    BY <1>7, <1>c DEF Take, Seeking, Go
  <2>4. Cardinality(Seeking') = Cardinality(Seeking) - 1
    BY <2>3, <1>n, FS_RemoveElement
  <2>5. Unsignalled' = Unsignalled /\ Unsignalled \in {0, 1}
    BY <1>7, <1>c DEF Take, Unsignalled, Go
  <2>6. Sleepers' = Sleepers /\ shutdown' = shutdown
    BY <1>7, <1>c DEF Take, Sleepers, Go
  <2>7. QED BY <1>n, <1>t, <2>2, <2>4, <2>5, <2>6 DEF NoLostWakeup
<1>8. ASSUME NEW w \in Worker, Run(w) PROVE NoLostWakeup'
  <2>1. Quiet
    BY <1>8, <1>c DEF Run, Quiet, Seeking, Sleepers, Go
  <2>2. QED BY <1>q, <2>1
<1>9. ASSUME NEW w \in Worker, FreeWork(w) PROVE NoLostWakeup'
  <2>1. Quiet
    BY <1>9, <1>c DEF FreeWork, Quiet, Seeking, Sleepers, Go
  <2>2. QED BY <1>q, <2>1
<1>10. ASSUME NEW k \in Roots, OwnerAdds(k) PROVE NoLostWakeup'
  <2>1. Quiet
    BY <1>10, <1>c, NamesDiffer DEF OwnerAdds, Quiet, Seeking, Sleepers, Go
  <2>2. QED BY <1>q, <2>1
<1>11. ASSUME NEW t \in Thread, AddLock(t) PROVE NoLostWakeup'
  <2>1. Quiet
    BY <1>11, <1>c DEF AddLock, Quiet, Seeking, Sleepers, Go
  <2>2. QED BY <1>q, <2>1
<1>12. ASSUME NEW t \in Thread, Link(t) PROVE NoLostWakeup'
  <2>1. \A u \in Thread : pc[u] # "signal"
    BY <1>12, <1>t, NamesDiffer DEF Link, LockExclusive, Holding
  <2>2. Unsignalled = 0 /\ Unsignalled' = 1
    BY <1>12, <1>c, <2>1 DEF Link, Unsignalled, Go
  <2>3. Len(tpool_head') = Len(tpool_head) + 1
    <3>1. adding[t] \in Task \cup {NULL} /\ tpool_head \in Seq(Task \cup {NULL})
      BY <1>t DEF TypeOK
    <3>2. QED BY <1>12, <3>1, AppendProperties DEF Link
  <2>4. Seeking' = Seeking /\ Sleepers' = Sleepers /\ shutdown' = shutdown
    BY <1>12, <1>c DEF Link, Seeking, Sleepers, Go
  <2>5. QED BY <1>n, <1>t, <2>2, <2>3, <2>4 DEF NoLostWakeup
<1>13. ASSUME NEW t \in Thread, Signal(t) PROVE NoLostWakeup'
  <2>1. AfterAdd(t) \in {"idle", "free"}
    BY DEF AfterAdd
  <2>2. CASE Sleepers = {}
    <3>1. Sleepers' = {}
      BY <1>13, <1>c, <2>1, <2>2 DEF Signal, Sleepers, Go
    <3>2. QED BY <3>1 DEF NoLostWakeup
  <2>3. CASE Sleepers # {}
    <3>1. PICK w \in Sleepers : pc' = [pc EXCEPT ![w] = "woken", ![t] = AfterAdd(t)]
      BY <1>13, <2>3 DEF Signal
    <3>2. pc[t] = "signal" /\ UNCHANGED <<tpool_head, shutdown>>
      BY <1>13 DEF Signal
    <3>3. w \notin Seeking /\ Seeking' = Seeking \cup {w}
      BY <1>c, <2>1, <3>1, <3>2 DEF Sleepers, Seeking
    <3>4. Cardinality(Seeking') = Cardinality(Seeking) + 1
      BY <1>n, <3>3, FS_AddElement
    <3>5. Unsignalled \in {0, 1} /\ Unsignalled' \in {0, 1}
      BY DEF Unsignalled
    <3>6. QED BY <1>n, <1>t, <2>3, <3>2, <3>4, <3>5 DEF NoLostWakeup
  <2>4. QED BY <2>2, <2>3
<1>14. ASSUME Destroy PROVE NoLostWakeup'
  BY <1>14, <1>s DEF Destroy
<1>15. ASSUME DestroyStep PROVE NoLostWakeup'
  <2>1. shutdown'
    BY <1>15, <1>t DEF DestroyStep, DestroyLock, Broadcast, Join, Drain, FreePool, ShutdownSet,
       Destroying
  <2>2. QED BY <1>s, <2>1
<1>16. ASSUME UNCHANGED vars PROVE NoLostWakeup'
  <2>1. Quiet
    BY <1>16 DEF vars, Quiet, Seeking, Sleepers
  <2>2. QED BY <1>q, <2>1
<1>17. QED
  BY <1>1, <1>2, <1>3, <1>4, <1>5, <1>6, <1>7, <1>8, <1>9, <1>10, <1>11, <1>12, <1>13,
     <1>14, <1>15, <1>16 DEF Next, WorkerStep, AddStep, Gone

-----------------------------------------------------------------------------
(* Where the works are. *)

Linking == {adding[t] : t \in Thread} \ {NULL}

LEMMA NextWorksOwned ==
  Inv /\ Control' /\ [Next]_vars => WorksOwned'
<1>. SUFFICES ASSUME Inv, Control', [Next]_vars PROVE WorksOwned'
  OBVIOUS
<1>t. /\ TypeOK /\ TypeOK' /\ LockExclusive /\ ShutdownSet /\ HeadExists /\ WorksOwned
      /\ PoolUnused
  BY DEF Inv, Control
<1>k. /\ work \in [Worker -> Task \cup {NULL}] /\ adding \in [Thread -> Task \cup {NULL}]
      /\ added \subseteq Task /\ freed \subseteq Task /\ NULL \notin Task
      /\ tpool_head \in Seq(Task) /\ Queued \subseteq Task
  BY <1>t, NamesDiffer DEF TypeOK, Queued, ToSet
<1>1. ASSUME UNCHANGED <<tpool_head, work, adding, added, freed>> PROVE WorksOwned'
  BY <1>1, <1>t DEF WorksOwned, Queued, Held, ToSet
<1>2. ASSUME NEW w \in Worker, Take(w) PROVE WorksOwned'
  <2>1. tpool_head # <<>>
    BY <1>2, <1>t DEF Take, HeadExists
  <2>2. /\ Queued = Queued' \cup {Head(tpool_head)}
        /\ IsInjective(tpool_head') /\ Head(tpool_head) \notin Queued'
        /\ Head(tpool_head) \in Task
    BY <1>2, <1>k, <1>t, <2>1, TailElements DEF Take, WorksOwned, Queued
  <2>3. work[w] = NULL
    BY <1>2, <1>t DEF Take, TypeOK, Adding
  <2>4. /\ work' = [work EXCEPT ![w] = Head(tpool_head)]
        /\ UNCHANGED <<adding, added, freed>>
    BY <1>2 DEF Take
  <2>5. Held' = Held \cup {Head(tpool_head)}
    BY <1>k, <2>2, <2>3, <2>4 DEF Held
  <2>6. added' = freed' \cup Queued' \cup Held' \cup Linking'
    BY <1>t, <2>2, <2>4, <2>5 DEF WorksOwned, Linking
  <2>7. \A v, u \in Worker : work'[v] = work'[u] => v = u \/ work'[u] = NULL
    BY <1>k, <1>t, <2>2, <2>4 DEF WorksOwned
  <2>8. QED BY <1>k, <1>t, <2>2, <2>4, <2>5, <2>6, <2>7 DEF WorksOwned, Linking
<1>3. ASSUME NEW w \in Worker, FreeWork(w) PROVE WorksOwned'
  <2>1. /\ freed' = freed \cup {work[w]} /\ work' = [work EXCEPT ![w] = NULL]
        /\ UNCHANGED <<tpool_head, adding, added>> /\ Queued' = Queued
    BY <1>3 DEF FreeWork, Queued
  <2>2. work[w] \in Task
    BY <1>3, <1>k, <1>t DEF FreeWork, TypeOK
  <2>3. Held = Held' \cup {work[w]} /\ work[w] \notin Held'
    BY <1>k, <1>t, <2>1, <2>2 DEF Held, WorksOwned
  <2>4. added' = freed' \cup Queued' \cup Held' \cup Linking'
    BY <1>t, <2>1, <2>3 DEF WorksOwned, Linking
  <2>5. \A v, u \in Worker : work'[v] = work'[u] => v = u \/ work'[u] = NULL
    BY <1>k, <1>t, <2>1 DEF WorksOwned
  <2>6. \A t \in Thread : adding[t] # work[w]
    BY <1>t, <2>3 DEF WorksOwned
  <2>7. QED BY <1>k, <1>t, <2>1, <2>2, <2>3, <2>4, <2>5, <2>6 DEF WorksOwned, Linking
<1>4. ASSUME NEW t \in Thread, NEW k \in Task \ added,
             adding[t] = NULL,
             adding' = [adding EXCEPT ![t] = k], added' = added \cup {k},
             UNCHANGED <<tpool_head, work, freed>>
      PROVE  WorksOwned'
  <2>1. Queued' = Queued /\ Held' = Held
    BY <1>4 DEF Queued, Held
  <2>2. k \notin freed \cup Queued \cup Held \cup Linking
    BY <1>t, <1>4 DEF WorksOwned, Linking
  <2>3. Linking' = Linking \cup {k}
    BY <1>k, <1>4 DEF Linking
  <2>4. added' = freed' \cup Queued' \cup Held' \cup Linking'
    BY <1>t, <1>4, <2>1, <2>3 DEF WorksOwned, Linking
  <2>5. \A s, u \in Thread : adding'[s] = adding'[u] => s = u \/ adding'[u] = NULL
    BY <1>k, <1>t, <1>4, <2>2 DEF WorksOwned, Linking
  <2>6. QED BY <1>k, <1>t, <1>4, <2>1, <2>2, <2>4, <2>5 DEF WorksOwned, Linking
<1>5. ASSUME NEW w \in Worker, Run(w) PROVE WorksOwned'
  <2>1. CASE Submits[work[w]] = NULL \/ Submits[work[w]] \in added
    BY <1>1, <1>5, <2>1 DEF Run
  <2>2. CASE ~(Submits[work[w]] = NULL \/ Submits[work[w]] \in added)
    <3>1. work[w] \in Task /\ adding[w] = NULL /\ w \in Thread
      BY <1>5, <1>k, <1>t DEF Run, TypeOK, Adding, Thread
    <3>2. QED BY <1>4, <1>5, <2>2, <3>1, TaskAssumption DEF Run
  <2>3. QED BY <2>1, <2>2
<1>6. ASSUME NEW k \in Roots, OwnerAdds(k) PROVE WorksOwned'
  <2>1. adding[Owner] = NULL /\ Owner \in Thread
    BY <1>6, <1>t DEF OwnerAdds, TypeOK, Thread
  <2>2. QED BY <1>4, <1>6, <2>1 DEF OwnerAdds, Roots
<1>7. ASSUME NEW t \in Thread, Link(t) PROVE WorksOwned'
  <2>1. /\ adding[t] \in Task /\ tpool_head' = Append(tpool_head, adding[t])
        /\ adding' = [adding EXCEPT ![t] = NULL]
        /\ UNCHANGED <<work, added, freed>> /\ Held' = Held
    BY <1>7, <1>k, <1>t DEF Link, TypeOK, Held
  <2>2. adding[t] \notin freed \cup Queued \cup Held
    BY <1>t DEF WorksOwned
  <2>3. Queued' = Queued \cup {adding[t]} /\ IsInjective(tpool_head')
    BY <1>k, <1>t, <2>1, <2>2, AppendElements DEF Queued, WorksOwned
  <2>4. Linking = Linking' \cup {adding[t]} /\ adding[t] \notin Linking'
    BY <1>k, <1>t, <2>1 DEF Linking, WorksOwned
  <2>5. added' = freed' \cup Queued' \cup Held' \cup Linking'
    BY <1>t, <2>1, <2>3, <2>4 DEF WorksOwned, Linking
  <2>6. \A s, u \in Thread : adding'[s] = adding'[u] => s = u \/ adding'[u] = NULL
    BY <1>k, <1>t, <2>1 DEF WorksOwned
  <2>7. \A u \in Thread : adding'[u] \notin freed' \cup Queued' \cup Held'
    BY <1>k, <1>t, <2>1, <2>3, <2>4 DEF WorksOwned, Linking, Held
  <2>8. \A w \in Worker : work'[w] \notin freed' \cup Queued'
    BY <1>k, <1>t, <2>1, <2>2, <2>3 DEF WorksOwned, Held
  <2>9. QED BY <1>t, <2>1, <2>2, <2>3, <2>5, <2>6, <2>7, <2>8 DEF WorksOwned, Linking
<1>8. ASSUME Drain PROVE WorksOwned'
  <2>1. /\ freed' = freed \cup {Head(tpool_head)} /\ tpool_head' = Tail(tpool_head)
        /\ UNCHANGED <<work, adding, added>> /\ tpool_head # <<>> /\ Held' = Held
    BY <1>8 DEF Drain, Held
  <2>2. /\ Queued = Queued' \cup {Head(tpool_head)}
        /\ IsInjective(tpool_head') /\ Head(tpool_head) \notin Queued'
    BY <1>k, <1>t, <2>1, TailElements DEF WorksOwned, Queued
  <2>3. QED BY <1>t, <2>1, <2>2 DEF WorksOwned
<1>9. QED
  <2>1. ASSUME NEW w \in Worker, WorkerStep(w) PROVE WorksOwned'
    BY <1>1, <1>2, <1>3, <1>5, <2>1 DEF WorkerStep, Lock, Test, Wait, Leave
  <2>2. ASSUME NEW t \in Thread, AddStep(t) PROVE WorksOwned'
    BY <1>1, <1>7, <2>2 DEF AddStep, AddLock, Signal
  <2>3. ASSUME DestroyStep PROVE WorksOwned'
    BY <1>1, <1>8, <2>3 DEF DestroyStep, DestroyLock, Broadcast, Join, FreePool
  <2>4. ASSUME NEW w \in Worker, Create(w) \/ SpuriousWakeup(w) PROVE WorksOwned'
    BY <1>1, <2>4 DEF Create, SpuriousWakeup
  <2>5. ASSUME Destroy \/ UNCHANGED vars PROVE WorksOwned'
    BY <1>1, <2>5 DEF Destroy, vars
  <2>6. QED BY <1>6, <2>1, <2>2, <2>3, <2>4, <2>5 DEF Next, Gone

-----------------------------------------------------------------------------
(* The invariant of the pool, for any number of workers and any tasks. *)
THEOREM Invariance == Spec => []Inv
<1>1. Inv /\ [Next]_vars => Inv'
  <2>. SUFFICES ASSUME Inv, [Next]_vars PROVE Inv'
    OBVIOUS
  <2>1. Control'
    BY NextControl DEF Inv
  <2>2. QED BY <2>1, NextOrder, NextNoLostWakeup, NextWorksOwned DEF Inv
<1>2. QED BY <1>1, InitInv, PTL DEF Spec

(* Type correctness. *)
THEOREM TypeCorrect == Spec => []TypeOK
BY Invariance, PTL DEF Inv, Control

(* While a worker sleeps, every queued work has a worker on its way to the queue. *)
THEOREM NoWakeupLost == Spec => []NoLostWakeup
BY Invariance, PTL DEF Inv

(* WorksSound, for any workers and tasks: each work is used by one thread and freed *)
(* once, and a worker that goes for one finds it. *)
THEOREM WorksUsedOnce == Spec => []WorksSound
BY Invariance, PTL DEF Inv, Control, WorksSound

(* shutdown, though set without the lock, is seen by every worker, and the pool *)
(* is freed when nobody uses it. *)
THEOREM ShutdownSeenByAll == Spec => []ShutdownSafe
BY Invariance, PTL DEF Inv, ShutdownSafe

-----------------------------------------------------------------------------
(* The pool implements TaskPool. *)

\* A worker about to take a work has none, so fewer are running than there are workers.
LEMMA RunningBelowWidth ==
  ASSUME TypeOK, NEW w \in Worker, work[w] = NULL
  PROVE  Cardinality(Held) < Cardinality(Worker)
<1>. DEFINE Busy == {v \in Worker : work[v] # NULL}
            f == [v \in Busy |-> work[v]]
<1>1. f \in Surjection(Busy, Held)
  BY DEF Surjection, Held
<1>2. /\ IsFiniteSet(Busy) /\ Busy \subseteq Worker \ {w}
      /\ IsFiniteSet(Worker \ {w}) /\ Cardinality(Worker \ {w}) = Cardinality(Worker) - 1
      /\ Cardinality(Worker) \in Nat
  BY WorkerAssumption, FS_Subset, FS_RemoveElement, FS_CardinalityType
<1>3. Cardinality(Busy) <= Cardinality(Worker) - 1 /\ Cardinality(Busy) \in Nat
  BY <1>2, FS_Subset, FS_CardinalityType
<1>4. IsFiniteSet(Held) /\ Cardinality(Held) <= Cardinality(Busy)
  BY <1>1, <1>2, FS_Surjection
<1>5. Cardinality(Held) \in Nat
  BY <1>4, FS_CardinalityType
<1>6. QED BY <1>2, <1>3, <1>4, <1>5

LEMMA InitPromise == Init => Promise!Init
BY DEF Init, Promise!Init, Held

LEMMA NextPromise == Inv /\ Inv' /\ [Next]_vars => [Promise!Next]_Promise!vars
<1>. SUFFICES ASSUME Inv, Inv', [Next]_vars PROVE [Promise!Next]_Promise!vars
  OBVIOUS
<1>t. /\ TypeOK /\ TypeOK' /\ LockExclusive /\ ShutdownSet /\ HeadExists /\ WorksOwned
      /\ PoolUnused /\ Queued = Promise!Waiting
  BY DEF Inv, Control, Queued, Promise!Waiting, ToSet, Promise!ToSet
<1>k. /\ work \in [Worker -> Task \cup {NULL}] /\ NULL \notin Task
      /\ tpool_head \in Seq(Task) /\ Held \subseteq Task
  BY <1>t, NamesDiffer DEF TypeOK, Held
<1>. DEFINE Mapped == [Promise!Next]_Promise!vars
<1>1. ASSUME UNCHANGED <<tpool_head, work, freed, shutdown>> PROVE Mapped
  BY <1>1 DEF Promise!vars, Held
<1>2. ASSUME NEW w \in Worker, Take(w) PROVE Mapped
  <2>1. tpool_head # <<>> /\ ~shutdown
    BY <1>2, <1>t DEF Take, HeadExists
  <2>2. work[w] = NULL
    BY <1>2, <1>t DEF Take, TypeOK, Adding
  <2>3. Head(tpool_head) \in Task
    BY <1>k, <2>1, TailElements
  <2>4. Held' = Held \cup {Head(tpool_head)}
    BY <1>2, <1>k, <2>2, <2>3 DEF Take, Held
  <2>5. Cardinality(Held) < Cardinality(Worker)
    BY <1>t, <2>2, RunningBelowWidth
  <2>6. Promise!Start
    <3>1. Promise!Cardinality(Held) = Cardinality(Held)
      BY DEF Cardinality, Promise!Cardinality
    <3>2. QED BY <1>2, <2>1, <2>4, <2>5, <3>1 DEF Take, Promise!Start
  <2>7. QED BY <2>6 DEF Promise!Next
<1>3. ASSUME NEW w \in Worker, FreeWork(w) PROVE Mapped
  <2>1. work[w] \in Held
    BY <1>3, <1>k, <1>t DEF FreeWork, TypeOK, Held
  <2>2. Held' = Held \ {work[w]}
    BY <1>3, <1>k, <1>t, <2>1 DEF FreeWork, Held, WorksOwned
  <2>3. Promise!End(work[w])
    BY <1>3, <2>1, <2>2 DEF FreeWork, Promise!End
  <2>4. QED BY <1>k, <2>1, <2>3 DEF Promise!Next
<1>4. ASSUME NEW t \in Thread, Link(t) PROVE Mapped
  <2>1. adding[t] \in Task
    BY <1>4, <1>t DEF Link, TypeOK
  <2>2. adding[t] \notin Promise!Waiting \cup Held \cup freed
    BY <1>t DEF WorksOwned
  <2>3. ~shutdown \/ Held # {}
    <3>1. CASE t = Owner
      BY <1>4, <1>t, <3>1 DEF Link, ShutdownSet, Destroying
    <3>2. CASE t \in Worker
      <4>1. work[t] # NULL
        BY <1>4, <1>t, <3>2 DEF Link, TypeOK, Adding
      <4>2. QED BY <3>2, <4>1 DEF Held
    <3>3. QED BY <3>1, <3>2 DEF Thread
  <2>4. Promise!Submit(adding[t])
    BY <1>4, <2>2, <2>3 DEF Link, Promise!Submit, Held
  <2>5. QED BY <2>1, <2>4 DEF Promise!Next
<1>5. ASSUME Destroy PROVE Mapped
  <2>1. Promise!Close
    BY <1>5 DEF Destroy, Promise!Close, Held
  <2>2. QED BY <2>1 DEF Promise!Next
<1>6. ASSUME Drain PROVE Mapped
  <2>1. shutdown /\ \A w \in Worker : pc[w] = "gone"
    BY <1>6, <1>t DEF Drain, ShutdownSet, Destroying, PoolUnused
  <2>2. Held = {}
    BY <1>t, <2>1 DEF TypeOK, Adding, Held
  <2>3. Promise!Drop
    BY <1>6, <2>1, <2>2 DEF Drain, Promise!Drop, Held
  <2>4. QED BY <2>3 DEF Promise!Next
<1>7. QED
  <2>1. ASSUME NEW w \in Worker, WorkerStep(w) PROVE Mapped
    BY <1>1, <1>2, <1>3, <2>1 DEF WorkerStep, Lock, Test, Wait, Leave, Run
  <2>2. ASSUME NEW t \in Thread, AddStep(t) PROVE Mapped
    BY <1>1, <1>4, <2>2 DEF AddStep, AddLock, Signal
  <2>3. ASSUME DestroyStep PROVE Mapped
    BY <1>1, <1>6, <2>3 DEF DestroyStep, DestroyLock, Broadcast, Join, FreePool
  <2>4. ASSUME NEW w \in Worker, Create(w) \/ SpuriousWakeup(w) PROVE Mapped
    BY <1>1, <2>4 DEF Create, SpuriousWakeup
  <2>5. ASSUME NEW k \in Roots, OwnerAdds(k) PROVE Mapped
    BY <1>1, <2>5 DEF OwnerAdds
  <2>6. ASSUME UNCHANGED vars PROVE Mapped
    BY <1>1, <2>6 DEF vars
  <2>7. QED BY <1>5, <2>1, <2>2, <2>3, <2>4, <2>5, <2>6 DEF Next, Gone

(* Tasks start in the order in which they were added, at most one for each *)
(* worker, and none after shutdown: tpool.c implements TaskPool.           *)
THEOREM TasksInOrder == Spec => Promise!Init /\ [][Promise!Next]_Promise!vars
BY InitPromise, NextPromise, Invariance, PTL DEF Spec
=============================================================================
