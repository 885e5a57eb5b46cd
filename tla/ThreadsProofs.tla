---------------------------- MODULE ThreadsProofs ----------------------------
(***************************************************************************)
(* Proofs about the programs of Threads, for any number of threads, rounds *)
(* and places.  A behaviour runs one program, so the invariant has a part  *)
(* for each program, and a part is only disturbed by that program's steps. *)
(* The searches for primes have an invariant of their own: which numbers   *)
(* have been tested, and that those of them that are primes were written.  *)
(***************************************************************************)
EXTENDS Threads, FiniteSetTheorems, WellFoundedInduction, TLAPS

CoveredPrograms == CounterPrograms \cup TurnPrograms \cup BufferPrograms

\* The types of the variables.
TypeOK ==
    /\ pc = [t \in Threads |-> pc[t]] /\ asleep = [t \in Threads |-> asleep[t]]
    /\ mutex \in [Workers -> Threads \cup {Nobody}]
    /\ sem \in [{"empty", "full"} -> Int]
    /\ n \in Int /\ m \in Int
    /\ reg \in [Threads -> Int] /\ left \in [Threads -> Int]
    /\ out \in [Numbers -> Nat]

\* Where threads are among the given program points.
In(points) == {t \in Workers : pc[t] \in points}

-----------------------------------------------------------------------------
\* The rings.

\* One letter may be written at a time: main has yet to open the first mutex, or
\* the mutex of the next thread is the one that is free, or all are locked and
\* one thread is past its own.
RingMutexInv ==
    prog = "ring_mutex" =>
      \/ /\ pc[Main] = "unlock" /\ m = THRNUM - 1
         /\ \A w \in Workers : pc[w] = "lock" /\ mutex[w] # Nobody
      \/ /\ pc[Main] = "done" /\ m \in Workers
         /\ \A w \in Workers : pc[w] = "lock" /\ (mutex[w] = Nobody <=> w = next(m))
      \/ /\ pc[Main] = "done" /\ m \in Workers
         /\ \A w \in Workers : pc[w] = (IF w = next(m) THEN "write" ELSE "lock") /\ mutex[w] # Nobody
      \/ /\ pc[Main] = "done" /\ m \in Workers
         /\ \A w \in Workers : pc[w] = (IF w = m THEN "unlock" ELSE "lock") /\ mutex[w] # Nobody

\* num is the thread after the one that wrote last.
RingCondInv == prog = "ring_cond" => m \in Workers /\ n = next(m)

-----------------------------------------------------------------------------
\* The counters.

\* The file is one higher for every thread that has written it, and the one
\* that is about to write has read what is in it.
Wrote == In({"unlock", "fclose", "post", "done"})
CountInv == n = Cardinality(Wrote) \/ \E t \in Workers : pc[t] = "exit"

FileLockInv ==
    prog \in {"add_thread", "add_lockf"} =>
      /\ pc[Main] \in {"none", "exit"}
      /\ \A t \in Workers :
           /\ pc[t] \in {"none", "start", "read", "write", "unlock", "fclose", "done", "failed", "exit"}
           /\ pc[t] \in {"read", "write", "unlock", "fclose"} => mutex[0] = t
           /\ pc[t] = "write" => reg[t] = n
      /\ CountInv

FileSemInv ==
    prog = "add_sem" =>
      /\ pc[Main] = "none"
      /\ sem["empty"] \in {0, 1}
      /\ \A t \in Workers :
           /\ pc[t] \in {"none", "start", "read", "write", "post", "done", "failed"}
           /\ pc[t] \in {"read", "write", "post"} => sem["empty"] = 0
           /\ pc[t] = "write" => reg[t] = n
      /\ \A t, u \in In({"read", "write", "post"}) : t = u
      /\ CountInv

\* The threads that a counter with k of them has.
OnlyFirst(k) == \A t \in Threads : t \notin 0 .. k - 1 => pc[t] = "none"

WithLockInv ==
    prog = "with_lock" =>
      /\ OnlyFirst(2)
      /\ \A t \in 0 .. 1 : pc[t] \in {"start", "add", "unlock", "done"}
      /\ n = (IF pc[0] \in {"unlock", "done"} THEN Rounds ELSE 0)
              + (IF pc[1] \in {"unlock", "done"} THEN Rounds ELSE 0)

\* What thread t has added when no addition is lost.
Added(t) ==
    IF pc[t] = "done" THEN Rounds
    ELSE (Rounds - left[t]) + (IF pc[t] \in {"post", "next"} THEN 1 ELSE 0)

LeftInv(points) ==
    \A t \in 0 .. 1 : pc[t] \in points \cup {"done"} /\ (pc[t] # "done" => left[t] \in 1 .. Rounds)

SemPvInv ==
    prog = "sem_pv" =>
      /\ OnlyFirst(2)
      /\ LeftInv({"start", "load", "store", "post", "next"})
      /\ sem["empty"] \in {0, 1}
      /\ \A t \in 0 .. 1 :
           /\ pc[t] \in {"load", "store", "post"} => sem["empty"] = 0
           /\ pc[t] = "store" => reg[t] = n
      /\ ~(pc[0] \in {"load", "store", "post"} /\ pc[1] \in {"load", "store", "post"})
      /\ n = Added(0) + Added(1)

\* Without a lock nothing is gained; a thread in its last round has read what
\* it or the other had stored, so that whoever stores last stores 2 at least.
WithoutLockInv ==
    prog = "wo_lock" =>
      /\ OnlyFirst(2)
      /\ LeftInv({"start", "store", "next"})
      /\ n >= 0 /\ n <= Added(0) + Added(1)
      /\ \A t \in 0 .. 1 :
           /\ pc[t] = "store" => reg[t] >= 0 /\ reg[t] <= Added(0) + Added(1)
           /\ pc[t] \in {"next", "done"} \/ left[t] < Rounds => n >= 1
           /\ pc[t] = "store" /\ left[t] < Rounds => reg[t] >= 1
      /\ \/ n >= 2
         \/ \E t \in 0 .. 1 : pc[t] \in {"start", "store"} \/ (pc[t] = "next" /\ left[t] > 1)

\* The threads of spin_lock.c that have added, and how many multiples of Rounds
\* that may be.
Counted(t) == IF pc[t] \in {"unlock", "done"} THEN 1 ELSE 0
Most(k) == CASE k = 0 -> 0 [] k = 1 -> 1 [] k = 2 -> 3 [] OTHER -> 7

SpinInv ==
    prog = "spin_lock" =>
      /\ OnlyFirst(3)
      /\ \A t \in 0 .. 2 : pc[t] \in {"start", "lock", "add", "unlock", "done"}
      /\ \E k \in Nat :
           LET added == Counted(0) + Counted(1) + Counted(2) IN
           /\ n = k * Rounds
           /\ added <= k /\ k <= Most(added)
           /\ \A t \in 0 .. 2 : pc[t] \in {"lock", "add"} =>
                \E j \in Nat : j <= k /\ reg[t] = j * Rounds

\* Above what a window has read, and above the tickets left, all are sold;
\* while tickets are left somebody sells, or the lock is there to be taken.
TicketInv ==
    prog = "tickets" =>
      /\ \A t \in Threads : pc[t] \in {"none", "start", "test", "load", "sell", "unlock", "done"}
      /\ pc[0] # "none" /\ pc[Main] = "none"
      /\ \A i \in 1 .. Capacity : i > n => out[i] > 0
      /\ \A t \in Threads : pc[t] = "sell" => \A i \in 1 .. Capacity : i > reg[t] => out[i] > 0
      /\ mutex[0] # Nobody => pc[mutex[0]] \notin {"none", "start"}
      /\ \/ n <= 0
         \/ \E t \in Workers : pc[t] \in {"test", "load", "sell", "unlock"}
         \/ pc[0] = "start" /\ mutex[0] = Nobody

-----------------------------------------------------------------------------
\* The limits.

BufferInv == prog \in {"pc", "parking"} => n \in 0 .. Capacity

\* What is free and what the users hold.
MySemInv ==
    prog = "mysem" =>
      /\ pc[Main] = "none"
      /\ n >= 0 /\ n + HeldBy0 + Cardinality(Holders \ {0}) = Capacity

\* Each item is in the buffer, or its producer or its consumer has passed one
\* of the two semaphores and not the other.
SemPcInv ==
    prog = "sem_pc" =>
      /\ \A t \in Workers : pc[t] \in {"start", "lock", "count", "unlock", "post", "next", "done"}
      /\ pc[Main] = "none"
      /\ sem["empty"] >= 0 /\ sem["full"] >= 0
      /\ n - m = sem["full"] + Cardinality(Producers \cap In({"unlock", "post"}))
                             + Cardinality(Consumers \cap In({"lock", "count"}))
      /\ Capacity - (n - m) = sem["empty"] + Cardinality(Producers \cap In({"lock", "count"}))
                                           + Cardinality(Consumers \cap In({"unlock", "post"}))

SemInv ==
    prog = "sem" =>
      /\ pc[Main] = "none"
      /\ sem["empty"] >= 0 /\ sem["empty"] + Cardinality(At("inside")) = Capacity

\* Thread 0 alone writes, and not while others read.
RwLockInv ==
    prog = "rw_lock" =>
      /\ \A t \in Workers : pc[t] \in {"wrlock", "wrwait", "writing"} <=> t = 0
      /\ pc[0] = "writing" => \A t \in Workers : pc[t] # "reading"

-----------------------------------------------------------------------------
Inv ==
    /\ prog \in CoveredPrograms => TypeOK
    /\ RingMutexInv /\ RingCondInv
    /\ FileLockInv /\ FileSemInv /\ WithLockInv /\ SemPvInv /\ WithoutLockInv /\ SpinInv
    /\ TicketInv
    /\ BufferInv /\ MySemInv /\ SemPcInv /\ SemInv /\ RwLockInv

-----------------------------------------------------------------------------
\* Facts about the constants, and the types.

LEMMA Constants ==
    /\ THRNUM \in Nat /\ THRNUM >= 3 /\ Rounds \in Nat /\ Rounds >= 2
    /\ Capacity \in Nat /\ Capacity >= 1 /\ RIGHT \in Nat /\ Capacity <= RIGHT
  BY ThreadsAssumption

LEMMA ThreadFacts ==
    /\ Main \in Threads /\ Main \notin Workers /\ Nobody \notin Threads
    /\ Workers \subseteq Threads /\ Workers \subseteq Nat
    /\ 0 \in Workers /\ 1 \in Workers /\ 2 \in Workers
    /\ \A t \in Threads : t # Main => t \in Workers
  BY Constants DEF Threads, Workers, Main, Nobody

LEMMA WorkersFinite == IsFiniteSet(Workers)
  BY Constants, FS_Interval DEF Workers

\* What the steps of a thread do to the types.
LEMMA StepType ==
    ASSUME NEW t \in Threads, NEW a, NEW b, Step(t, a, b), pc = [u \in Threads |-> pc[u]]
    PROVE  pc' = [u \in Threads |-> pc'[u]]
  BY DEF Step

LEMMA GotoType ==
    ASSUME TypeOK, NEW t \in Threads, NEW a, NEW b, Goto(t, a, b)
    PROVE  TypeOK'
  BY StepType DEF TypeOK, Goto, locks, data

LEMMA LockType ==
    ASSUME TypeOK, NEW t \in Threads, NEW a, NEW b, NEW k, Lock(t, a, b, k)
    PROVE  TypeOK'
  BY StepType DEF TypeOK, Lock, data

LEMMA UnlockType ==
    ASSUME TypeOK, NEW t \in Threads, NEW a, NEW b, NEW k, Unlock(t, a, b, k)
    PROVE  TypeOK'
  BY StepType DEF TypeOK, Unlock, data

LEMMA CondWaitType ==
    ASSUME TypeOK, NEW t \in Threads, NEW a, NEW b, NEW c, CondWait(t, a, b, c)
    PROVE  TypeOK'
  BY StepType DEF TypeOK, CondWait, data

LEMMA WakeType ==
    ASSUME TypeOK, NEW c, asleep' = Broadcasted(c) \/ asleep' \in Signalled(c)
    PROVE  asleep' = [t \in Threads |-> asleep'[t]]
<1>1. CASE asleep' = Broadcasted(c)
  BY <1>1 DEF Broadcasted
<1>2. CASE asleep' \in Signalled(c)
  BY <1>2 DEF TypeOK, Signalled
<1> QED BY <1>1, <1>2

LEMMA SemType ==
    ASSUME TypeOK, NEW t \in Threads, NEW a, NEW b, NEW s \in {"empty", "full"},
           SemWait(t, a, b, s) \/ SemPost(t, a, b, s)
    PROVE  TypeOK'
<1>1. sem' \in [{"empty", "full"} -> Int]
  BY DEF TypeOK, SemWait, SemPost
<1>2. UNCHANGED <<mutex, asleep, n, m, reg, left, out>> /\ Step(t, a, b)
  BY DEF SemWait, SemPost, data
<1> QED BY <1>1, <1>2, StepType DEF TypeOK

LEMMA LoadType ==
    ASSUME TypeOK, NEW t \in Threads, NEW a, NEW b, Load(t, a, b)
    PROVE  TypeOK'
  BY StepType DEF TypeOK, Load, locks

LEMMA StoreType ==
    ASSUME TypeOK, NEW t \in Threads, NEW a, NEW b, NEW v \in Int, Store(t, a, b, v)
    PROVE  TypeOK'
  BY StepType DEF TypeOK, Store, locks

LEMMA RoundType ==
    ASSUME TypeOK, NEW t \in Threads, NEW a, NEW b, NEW c, Round(t, a, b, c)
    PROVE  TypeOK'
<1>1. left' \in [Threads -> Int]
  BY DEF TypeOK, Round
<1> QED BY <1>1, StepType DEF TypeOK, Round, locks

LEMMA ExitType ==
    ASSUME TypeOK, NEW t \in Threads, NEW a, ExitAll(t, a)
    PROVE  TypeOK'
  BY DEF TypeOK, ExitAll, locks, data

LEMMA CounterType ==
    ASSUME TypeOK, NEW t \in Threads, CounterStep(t)
    PROVE  TypeOK'
<1>0. reg[t] \in Int /\ n \in Int /\ Rounds \in Int
  BY Constants DEF TypeOK
<1>1. CASE thr_func(t)
  BY <1>0, <1>1, LockType, ExitType, LoadType, StoreType, UnlockType DEF thr_func
<1>2. CASE func_add_sem(t)
  BY <1>0, <1>2, SemType, GotoType, LoadType, StoreType DEF func_add_sem, P, V
<1>3. CASE func_add_lockf(t)
  BY <1>0, <1>3, LockType, GotoType, LoadType, StoreType, UnlockType DEF func_add_lockf
<1>4. CASE handler_with_lock(t)
  BY <1>0, <1>4, LockType, StoreType, UnlockType DEF handler_with_lock
<1>5. CASE handler_wo_lock(t)
  BY <1>0, <1>5, LoadType, StoreType, RoundType DEF handler_wo_lock
<1>6. CASE task_spin(t)
  BY <1>0, <1>6, LockType, LoadType, StoreType, UnlockType DEF task_spin
<1>7. CASE task_pv(t)
  BY <1>0, <1>7, SemType, LoadType, StoreType, RoundType DEF task_pv
<1>8. CASE sale_tickets(t)
  <2>1. ASSUME Step(t, "sell", "unlock"), n' = reg[t] - 1, out' = Written(reg[t]),
               UNCHANGED <<locks, m, reg, left>>
        PROVE  TypeOK'
    <3>1. out' \in [Numbers -> Nat]
      BY <2>1 DEF TypeOK, Written
    <3>2. n' \in Int
      BY <1>0, <2>1
    <3> QED BY <2>1, <3>1, <3>2, StepType DEF TypeOK, locks
  <2> QED BY <1>8, <2>1, LockType, GotoType, LoadType, UnlockType DEF sale_tickets
<1> QED BY <1>1, <1>2, <1>3, <1>4, <1>5, <1>6, <1>7, <1>8 DEF CounterStep

LEMMA NextFact ==
    ASSUME NEW w \in Workers
    PROVE  next(w) \in Workers /\ next(w) # w
  BY Constants DEF next, Workers

LEMMA TurnType ==
    ASSUME TypeOK, NEW t \in Threads, TurnStep(t), prog = "ring_cond" => n \in Workers
    PROVE  TypeOK'
<1>0. \A i \in Int : next(i) \in Int
  BY DEF next
<1>1. Letter(t) => m' \in Int
  BY Constants DEF Letter, OutOfTurn, Threads, Workers, Main
<1>2. CASE abcd_func_mutex(t)
  <2>1. ASSUME Step(t, "write", "unlock"), Letter(t), UNCHANGED <<locks, n, reg, left, out>>
        PROVE  TypeOK'
    BY <1>1, <2>1, StepType DEF TypeOK, locks
  <2> QED BY <1>2, <2>1, LockType, UnlockType DEF abcd_func_mutex
<1>3. CASE abcd_func_cond(t)
  <2>1. ASSUME Step(t, "test", "unlock"), Letter(t), n' = next(n), asleep' = Broadcasted("cond"),
               UNCHANGED <<mutex, sem, reg, left, out>>
        PROVE  TypeOK'
    BY <1>0, <1>1, <2>1, StepType, WakeType DEF TypeOK
  <2> QED BY <1>3, <2>1, LockType, CondWaitType, UnlockType DEF abcd_func_cond
<1>4. CASE myRead(t)
  BY <1>4, GotoType DEF myRead, rdlock
<1>5. CASE myWrite(t)
  <2>1. ASSUME wrunlock(t), n' = (n + 1) % 2 PROVE TypeOK'
    <3>1. pc' = [u \in Threads |-> pc'[u]]
      BY <2>1 DEF TypeOK, wrunlock
    <3>2. n' \in Int
      BY <2>1 DEF TypeOK
    <3> QED BY <2>1, <3>1, <3>2 DEF TypeOK, wrunlock, locks
  <2> QED BY <1>5, <2>1, GotoType DEF myWrite, wrlock
<1> QED BY <1>2, <1>3, <1>4, <1>5 DEF TurnStep

LEMMA BufferType ==
    ASSUME TypeOK, NEW t \in Threads, BufferStep(t)
    PROVE  TypeOK'
<1>0. /\ n \in Int /\ m \in Int /\ Amount(t) \in Int
      /\ n - Amount(t) \in Int /\ n + Amount(t) \in Int /\ n + 1 \in Int /\ n - 1 \in Int /\ m + 1 \in Int
  BY Constants DEF TypeOK, Amount
<1>1. CASE mysem_user(t)
  <2>1. ASSUME Step(t, "addnotice", "addunlock"), asleep' = Broadcasted("cond"), n' = n + Amount(t),
               UNCHANGED <<mutex, sem, m, reg, left, out>>
        PROVE  TypeOK'
    BY <1>0, <2>1, StepType, WakeType DEF TypeOK
  <2> QED BY <1>0, <1>1, <2>1, LockType, CondWaitType, StoreType, UnlockType, RoundType
          DEF mysem_user, mysem_sub, mysem_add
<1>2. CASE prod(t) \/ cons(t)
  <2>1. ASSUME NEW c, Step(t, "notify", "next"), asleep' = Broadcasted(c),
               UNCHANGED <<mutex, sem, data>>
        PROVE  TypeOK'
    BY <2>1, StepType, WakeType DEF TypeOK, data
  <2> QED BY <1>0, <1>2, <2>1, LockType, CondWaitType, StoreType, UnlockType, RoundType DEF prod, cons
<1>3. CASE enter_car(t) \/ exit_car(t)
  <2>1. ASSUME NEW c, NEW v \in Int, Step(t, "test", "unlock"), n' = v,
               asleep' \in Signalled(c), UNCHANGED <<mutex, sem, m, reg, left, out>>
        PROVE  TypeOK'
    BY <2>1, StepType, WakeType DEF TypeOK
  <2> QED BY <1>0, <1>3, <2>1, LockType, CondWaitType, UnlockType, RoundType DEF enter_car, exit_car
<1>4. CASE productor(t) \/ consumer(t)
  <2>1. ASSUME Step(t, "count", "unlock"), m' = m + 1, UNCHANGED <<locks, n, reg, left, out>>
        PROVE  TypeOK'
    BY <1>0, <2>1, StepType DEF TypeOK, locks
  <2> QED BY <1>0, <1>4, <2>1, SemType, LockType, StoreType, UnlockType, RoundType
          DEF productor, consumer
<1>5. CASE task_sem(t)
  BY <1>5, SemType DEF task_sem
<1> QED BY <1>1, <1>2, <1>3, <1>4, <1>5 DEF BufferStep

LEMMA SpuriousType ==
    ASSUME TypeOK, NEW t \in Threads, SpuriousWakeup(t)
    PROVE  TypeOK'
  BY DEF TypeOK, SpuriousWakeup, data

-----------------------------------------------------------------------------
\* A step of a thread moves that thread and no other.
LEMMA StepFact ==
    ASSUME TypeOK, NEW t \in Threads, NEW a, NEW b, Step(t, a, b)
    PROVE  /\ pc[t] = a /\ pc'[t] = b /\ prog' = prog
           /\ \A u \in Threads : u # t => pc'[u] = pc[u]
  BY DEF TypeOK, Step

\* A set of threads that differs in one thread at most.
LEMMA CardStep ==
    ASSUME NEW S \in SUBSET Workers, NEW R \in SUBSET Workers, NEW t,
           \A u \in Workers : u # t => (u \in R <=> u \in S)
    PROVE  /\ Cardinality(S) \in Nat /\ Cardinality(R) \in Nat
           /\ t \in R /\ t \notin S => Cardinality(R) = Cardinality(S) + 1
           /\ t \notin R /\ t \in S => Cardinality(R) = Cardinality(S) - 1
           /\ (t \in R <=> t \in S) => Cardinality(R) = Cardinality(S)
<1>1. IsFiniteSet(S) /\ IsFiniteSet(R)
  BY WorkersFinite, FS_Subset
<1>2. Cardinality(S) \in Nat /\ Cardinality(R) \in Nat
  BY <1>1, FS_CardinalityType
<1>3. ASSUME t \in R, t \notin S PROVE Cardinality(R) = Cardinality(S) + 1
  <2>1. R = S \cup {t}
    BY <1>3
  <2> QED BY <1>1, <1>3, <2>1, FS_AddElement
<1>4. ASSUME t \notin R, t \in S PROVE Cardinality(R) = Cardinality(S) - 1
  <2>1. R = S \ {t}
    BY <1>4
  <2> QED BY <1>1, <1>4, <2>1, FS_RemoveElement
<1>5. ASSUME t \in R <=> t \in S PROVE R = S
  BY <1>5
<1> QED BY <1>2, <1>3, <1>4, <1>5

-----------------------------------------------------------------------------
\* The rings.

LEMMA RingMutexStep ==
    ASSUME TypeOK, RingMutexInv, prog = "ring_mutex", NEW t \in Threads, abcd_func_mutex(t)
    PROVE  RingMutexInv'
<1> USE ThreadFacts
<1>0. mutex \in [Workers -> Threads \cup {Nobody}] /\ THRNUM - 1 \in Workers /\ next(THRNUM - 1) = 0
  <2>1. THRNUM - 1 \in 0 .. THRNUM - 1 /\ (THRNUM - 1) + 1 = THRNUM
    BY Constants
  <2> QED BY <2>1 DEF TypeOK, Workers, next
<1>1. ASSUME t # Main, Lock(t, "lock", "write", t) PROVE RingMutexInv'
  <2>1. /\ pc[t] = "lock" /\ pc'[t] = "write" /\ \A u \in Threads : u # t => pc'[u] = pc[u]
        /\ mutex[t] = Nobody /\ m' = m /\ mutex' = [mutex EXCEPT ![t] = t]
    BY <1>1, StepFact DEF Lock, data
  <2>2. /\ pc[Main] = "done" /\ m \in Workers /\ t = next(m)
        /\ \A w \in Workers : pc[w] = "lock" /\ (mutex[w] = Nobody <=> w = next(m))
    BY <1>1, <2>1 DEF RingMutexInv
  <2>3. \A w \in Workers : pc'[w] = (IF w = next(m) THEN "write" ELSE "lock") /\ mutex'[w] # Nobody
    BY <1>0, <1>1, <2>1, <2>2
  <2> QED BY <1>1, <2>1, <2>2, <2>3 DEF RingMutexInv, next
<1>2. ASSUME Step(t, "write", "unlock"), Letter(t), UNCHANGED <<locks, n, reg, left, out>>
      PROVE  RingMutexInv'
  <2>1. /\ pc[t] = "write" /\ pc'[t] = "unlock" /\ \A u \in Threads : u # t => pc'[u] = pc[u]
        /\ mutex' = mutex
    BY <1>2, StepFact DEF locks
  <2>2. /\ pc[Main] = "done" /\ m \in Workers /\ t = next(m) /\ t # Main
        /\ \A w \in Workers : pc[w] = (IF w = next(m) THEN "write" ELSE "lock") /\ mutex[w] # Nobody
    BY <2>1 DEF RingMutexInv
  <2>3. m' = t
    BY <1>2, <2>2 DEF Letter
  <2>4. \A w \in Workers : pc'[w] = (IF w = m' THEN "unlock" ELSE "lock") /\ mutex'[w] # Nobody
    BY <2>1, <2>2, <2>3
  <2> QED BY <2>1, <2>2, <2>3, <2>4 DEF RingMutexInv
<1>3. ASSUME t # Main, Unlock(t, "unlock", "lock", next(t)) PROVE RingMutexInv'
  <2>1. /\ pc[t] = "unlock" /\ pc'[t] = "lock" /\ \A u \in Threads : u # t => pc'[u] = pc[u]
        /\ m' = m /\ mutex' = [mutex EXCEPT ![next(t)] = Nobody]
    BY <1>3, StepFact DEF Unlock, data
  <2>2. /\ pc[Main] = "done" /\ m \in Workers /\ t = m
        /\ \A w \in Workers : pc[w] = (IF w = m THEN "unlock" ELSE "lock") /\ mutex[w] # Nobody
    BY <1>3, <2>1 DEF RingMutexInv
  <2>3. \A w \in Workers : pc'[w] = "lock" /\ (mutex'[w] = Nobody <=> w = next(m))
    BY <1>0, <2>1, <2>2, NextFact
  <2> QED BY <1>3, <2>1, <2>2, <2>3 DEF RingMutexInv, next
<1>4. ASSUME t = Main, Unlock(t, "unlock", "done", 0) PROVE RingMutexInv'
  <2>1. /\ pc[t] = "unlock" /\ pc'[t] = "done" /\ \A u \in Threads : u # t => pc'[u] = pc[u]
        /\ m' = m /\ mutex' = [mutex EXCEPT ![0] = Nobody]
    BY <1>4, StepFact DEF Unlock, data
  <2>2. m = THRNUM - 1 /\ \A w \in Workers : pc[w] = "lock" /\ mutex[w] # Nobody
    BY <1>4, <2>1 DEF RingMutexInv
  <2>3. \A w \in Workers : pc'[w] = "lock" /\ (mutex'[w] = Nobody <=> w = next(m))
    BY <1>0, <1>4, <2>1, <2>2
  <2> QED BY <1>0, <1>4, <2>1, <2>2, <2>3 DEF RingMutexInv, next
<1> QED BY <1>1, <1>2, <1>3, <1>4 DEF abcd_func_mutex

LEMMA RingCondStep ==
    ASSUME TypeOK, RingCondInv, prog = "ring_cond", NEW t \in Threads, abcd_func_cond(t)
    PROVE  RingCondInv'
<1>1. CASE UNCHANGED <<n, m>>
  BY <1>1 DEF RingCondInv, next
<1>2. CASE n = t /\ Letter(t) /\ n' = next(n)
  <2>1. m' = t /\ t \in Workers
    BY <1>2, NextFact DEF RingCondInv, Letter
  <2> QED BY <1>2, <2>1 DEF RingCondInv, next
<1> QED BY <1>1, <1>2 DEF abcd_func_cond, Lock, Unlock, CondWait, data

-----------------------------------------------------------------------------
\* The counters.

LEMMA FileLockStep ==
    ASSUME TypeOK, FileLockInv, prog \in {"add_thread", "add_lockf"}, NEW t \in Threads,
           thr_func(t) \/ func_add_lockf(t)
    PROVE  FileLockInv'
<1> USE ThreadFacts
<1>0. pc[Main] \in {"none", "exit"} /\ mutex \in [Workers -> Threads \cup {Nobody}]
  BY DEF FileLockInv, TypeOK
<1>1. ASSUME Lock(t, "start", "read", 0) PROVE FileLockInv'
  <2>1. /\ pc[t] = "start" /\ pc'[t] = "read" /\ prog' = prog
        /\ \A u \in Threads : u # t => pc'[u] = pc[u]
        /\ mutex[0] = Nobody /\ mutex'[0] = t /\ n' = n /\ reg' = reg
    BY <1>0, <1>1, StepFact DEF Lock, data
  <2>2. Wrote' = Wrote
    BY <2>1 DEF Wrote, In
  <2>3. CountInv'
    BY <2>1, <2>2 DEF FileLockInv, CountInv
  <2> QED BY <1>0, <2>1, <2>3 DEF FileLockInv
<1>2. ASSUME Goto(t, "start", "failed") PROVE FileLockInv'
  <2>1. /\ pc[t] = "start" /\ pc'[t] = "failed" /\ prog' = prog
        /\ \A u \in Threads : u # t => pc'[u] = pc[u]
        /\ mutex' = mutex /\ n' = n /\ reg' = reg
    BY <1>2, StepFact DEF Goto, locks, data
  <2>2. Wrote' = Wrote
    BY <2>1 DEF Wrote, In
  <2>3. CountInv'
    BY <2>1, <2>2 DEF FileLockInv, CountInv
  <2> QED BY <1>0, <2>1, <2>3 DEF FileLockInv
<1>3. ASSUME ExitAll(t, "start") PROVE FileLockInv'
  <2>1. /\ pc[t] = "start" /\ t \in Workers
        /\ \A u \in Threads : pc'[u] = (IF pc[u] = "none" THEN "none" ELSE "exit")
    BY <1>0, <1>3 DEF ExitAll
  <2>2. CountInv'
    BY <2>1 DEF CountInv
  <2> QED BY <2>1, <2>2 DEF FileLockInv
<1>4. ASSUME Load(t, "read", "write") PROVE FileLockInv'
  <2>1. /\ pc[t] = "read" /\ pc'[t] = "write" /\ prog' = prog
        /\ \A u \in Threads : u # t => pc'[u] = pc[u]
        /\ mutex' = mutex /\ n' = n /\ reg'[t] = n /\ \A u \in Threads : u # t => reg'[u] = reg[u]
    BY <1>4, StepFact DEF Load, locks, TypeOK
  <2>2. Wrote' = Wrote
    BY <2>1 DEF Wrote, In
  <2>3. CountInv'
    BY <2>1, <2>2 DEF FileLockInv, CountInv
  <2> QED BY <1>0, <2>1, <2>3 DEF FileLockInv
<1>5. ASSUME NEW b \in {"unlock", "fclose"}, Store(t, "write", b, reg[t] + 1) PROVE FileLockInv'
  <2>1. /\ pc[t] = "write" /\ pc'[t] = b /\ prog' = prog
        /\ \A u \in Threads : u # t => pc'[u] = pc[u]
        /\ mutex' = mutex /\ n' = reg[t] + 1 /\ reg' = reg /\ t \in Workers
    BY <1>0, <1>5, StepFact DEF Store, locks
  <2>2. \A u \in Workers : u # t => pc[u] \notin {"read", "write", "unlock", "fclose"}
    BY <2>1 DEF FileLockInv
  <2>3. \A u \in Workers : u # t => (u \in Wrote' <=> u \in Wrote)
    BY <2>1 DEF Wrote, In
  <2>4. t \in Wrote' /\ t \notin Wrote
    BY <2>1 DEF Wrote, In
  <2>5. Cardinality(Wrote') = Cardinality(Wrote) + 1
    BY <2>3, <2>4, CardStep DEF Wrote, In
  <2>6. n' = n + 1
    BY <2>1 DEF FileLockInv
  <2>7. CountInv'
    BY <2>1, <2>5, <2>6 DEF FileLockInv, CountInv
  <2> QED BY <1>0, <2>1, <2>2, <2>7 DEF FileLockInv
<1>6. ASSUME NEW a \in {"unlock", "fclose"}, Unlock(t, a, "done", 0) PROVE FileLockInv'
  <2>1. /\ pc[t] = a /\ pc'[t] = "done" /\ prog' = prog
        /\ \A u \in Threads : u # t => pc'[u] = pc[u]
        /\ n' = n /\ reg' = reg /\ t \in Workers
    BY <1>0, <1>6, StepFact DEF Unlock, data
  <2>2. \A u \in Workers : u # t => pc[u] \notin {"read", "write", "unlock", "fclose"}
    BY <2>1 DEF FileLockInv
  <2>3. Wrote' = Wrote
    BY <2>1 DEF Wrote, In
  <2>4. CountInv'
    BY <2>1, <2>3 DEF FileLockInv, CountInv
  <2> QED BY <1>0, <2>1, <2>2, <2>4 DEF FileLockInv
<1> QED BY <1>1, <1>2, <1>3, <1>4, <1>5, <1>6 DEF thr_func, func_add_lockf

LEMMA FileSemStep ==
    ASSUME TypeOK, FileSemInv, prog = "add_sem", NEW t \in Threads, func_add_sem(t)
    PROVE  FileSemInv'
<1> USE ThreadFacts
<1>0. pc[Main] = "none" /\ sem \in [{"empty", "full"} -> Int] /\ sem["empty"] \in {0, 1}
  BY DEF FileSemInv, TypeOK
<1>1. ASSUME SemWait(t, "start", "read", "empty") PROVE FileSemInv'
  <2>1. /\ pc[t] = "start" /\ pc'[t] = "read"
        /\ \A u \in Threads : u # t => pc'[u] = pc[u]
        /\ sem["empty"] = 1 /\ sem'["empty"] = 0 /\ n' = n /\ reg' = reg
    BY <1>0, <1>1, StepFact DEF SemWait, data
  <2>2. Wrote' = Wrote
    BY <2>1 DEF Wrote, In
  <2>3. CountInv'
    BY <2>1, <2>2 DEF FileSemInv, CountInv
  <2>4. \A u \in Workers : pc[u] \notin {"read", "write", "post"}
    BY <2>1 DEF FileSemInv
  <2> QED BY <1>0, <2>1, <2>3, <2>4 DEF FileSemInv, In
<1>2. ASSUME Goto(t, "start", "failed") PROVE FileSemInv'
  <2>1. /\ pc[t] = "start" /\ pc'[t] = "failed"
        /\ \A u \in Threads : u # t => pc'[u] = pc[u]
        /\ sem' = sem /\ n' = n /\ reg' = reg
    BY <1>2, StepFact DEF Goto, locks, data
  <2>2. Wrote' = Wrote
    BY <2>1 DEF Wrote, In
  <2>3. CountInv'
    BY <2>1, <2>2 DEF FileSemInv, CountInv
  <2> QED BY <1>0, <2>1, <2>3 DEF FileSemInv, In
<1>3. ASSUME Load(t, "read", "write") PROVE FileSemInv'
  <2>1. /\ pc[t] = "read" /\ pc'[t] = "write"
        /\ \A u \in Threads : u # t => pc'[u] = pc[u]
        /\ sem' = sem /\ n' = n /\ reg'[t] = n /\ \A u \in Threads : u # t => reg'[u] = reg[u]
    BY <1>3, StepFact DEF Load, locks, TypeOK
  <2>2. Wrote' = Wrote
    BY <2>1 DEF Wrote, In
  <2>3. CountInv'
    BY <2>1, <2>2 DEF FileSemInv, CountInv
  <2> QED BY <1>0, <2>1, <2>3 DEF FileSemInv, In
<1>4. ASSUME Store(t, "write", "post", reg[t] + 1) PROVE FileSemInv'
  <2>1. /\ pc[t] = "write" /\ pc'[t] = "post"
        /\ \A u \in Threads : u # t => pc'[u] = pc[u]
        /\ sem' = sem /\ n' = reg[t] + 1 /\ reg' = reg /\ t \in Workers
    BY <1>0, <1>4, StepFact DEF Store, locks
  <2>2. \A u \in Workers : u # t => pc[u] \notin {"read", "write", "post"}
    BY <2>1 DEF FileSemInv, In
  <2>3. \A u \in Workers : u # t => (u \in Wrote' <=> u \in Wrote)
    BY <2>1 DEF Wrote, In
  <2>4. t \in Wrote' /\ t \notin Wrote
    BY <2>1 DEF Wrote, In
  <2>5. Cardinality(Wrote') = Cardinality(Wrote) + 1
    BY <2>3, <2>4, CardStep DEF Wrote, In
  <2>6. n' = n + 1
    BY <2>1 DEF FileSemInv
  <2>7. CountInv'
    BY <2>1, <2>5, <2>6 DEF FileSemInv, CountInv
  <2> QED BY <1>0, <2>1, <2>2, <2>7 DEF FileSemInv, In
<1>5. ASSUME SemPost(t, "post", "done", "empty") PROVE FileSemInv'
  <2>1. /\ pc[t] = "post" /\ pc'[t] = "done" /\ t \in Workers
        /\ \A u \in Threads : u # t => pc'[u] = pc[u]
        /\ sem'["empty"] = sem["empty"] + 1 /\ n' = n /\ reg' = reg
    BY <1>0, <1>5, StepFact DEF SemPost, data
  <2>2. \A u \in Workers : u # t => pc[u] \notin {"read", "write", "post"}
    BY <2>1 DEF FileSemInv, In
  <2>3. Wrote' = Wrote
    BY <2>1 DEF Wrote, In
  <2>4. CountInv'
    BY <2>1, <2>3 DEF FileSemInv, CountInv
  <2>5. sem["empty"] = 0
    BY <2>1 DEF FileSemInv
  <2> QED BY <1>0, <2>1, <2>2, <2>4, <2>5 DEF FileSemInv, In
<1> QED BY <1>1, <1>2, <1>3, <1>4, <1>5 DEF func_add_sem, P, V

\* The counters in memory have two or three threads.
LEMMA TwoThreads ==
    /\ 0 .. 1 = {0, 1} /\ 0 .. 2 = {0, 1, 2}
    /\ 0 \in Threads /\ 1 \in Threads /\ 2 \in Threads
  BY ThreadFacts

LEMMA WithLockStep ==
    ASSUME TypeOK, WithLockInv, prog = "with_lock", NEW t \in Threads, handler_with_lock(t)
    PROVE  WithLockInv'
<1> USE TwoThreads, Constants DEF OnlyFirst
<1>0. t \in {0, 1}
  BY DEF WithLockInv, handler_with_lock, Lock, Store, Unlock, Step
<1>1. ASSUME NEW a \in {"start", "unlock"}, NEW b \in {"add", "done"}, a = "start" <=> b = "add",
             Step(t, a, b), n' = n
      PROVE  WithLockInv'
  BY <1>0, <1>1, StepFact DEF WithLockInv
<1>2. ASSUME Store(t, "add", "unlock", n + Rounds) PROVE WithLockInv'
  <2>1. /\ pc[t] = "add" /\ pc'[t] = "unlock" /\ \A u \in Threads : u # t => pc'[u] = pc[u]
        /\ n' = n + Rounds
    BY <1>2, StepFact DEF Store
  <2> QED BY <1>0, <2>1 DEF WithLockInv
<1> QED BY <1>1, <1>2 DEF handler_with_lock, Lock, Unlock, data

LEMMA SemPvStep ==
    ASSUME TypeOK, SemPvInv, prog = "sem_pv", NEW t \in Threads, task_pv(t)
    PROVE  SemPvInv'
<1> USE TwoThreads, Constants DEF OnlyFirst
<1>0. /\ t \in {0, 1} /\ sem \in [{"empty", "full"} -> Int] /\ left \in [Threads -> Int]
      /\ n \in Int /\ reg \in [Threads -> Int]
  BY DEF SemPvInv, LeftInv, task_pv, SemWait, Load, Store, SemPost, Round, Step, TypeOK
<1>1. ASSUME SemWait(t, "start", "load", "empty") PROVE SemPvInv'
  <2>1. /\ pc[t] = "start" /\ pc'[t] = "load" /\ \A u \in Threads : u # t => pc'[u] = pc[u]
        /\ sem["empty"] > 0 /\ sem'["empty"] = sem["empty"] - 1 /\ UNCHANGED <<n, reg, left>>
    BY <1>0, <1>1, StepFact DEF SemWait, data
  <2>2. Added(0)' = Added(0) /\ Added(1)' = Added(1)
    BY <1>0, <2>1 DEF Added
  <2> QED BY <1>0, <2>1, <2>2 DEF SemPvInv, LeftInv
<1>2. ASSUME Load(t, "load", "store") PROVE SemPvInv'
  <2>1. /\ pc[t] = "load" /\ pc'[t] = "store" /\ \A u \in Threads : u # t => pc'[u] = pc[u]
        /\ reg'[t] = n /\ UNCHANGED <<sem, n, left>> /\ \A u \in Threads : u # t => reg'[u] = reg[u]
    BY <1>0, <1>2, StepFact DEF Load, locks
  <2>2. Added(0)' = Added(0) /\ Added(1)' = Added(1)
    BY <1>0, <2>1 DEF Added
  <2> QED BY <1>0, <2>1, <2>2 DEF SemPvInv, LeftInv
<1>3. ASSUME Store(t, "store", "post", reg[t] + 1) PROVE SemPvInv'
  <2>1. /\ pc[t] = "store" /\ pc'[t] = "post" /\ \A u \in Threads : u # t => pc'[u] = pc[u]
        /\ n' = reg[t] + 1 /\ UNCHANGED <<sem, reg, left>>
    BY <1>0, <1>3, StepFact DEF Store, locks
  <2>2. Added(t)' = Added(t) + 1 /\ \A u \in {0, 1} : u # t => Added(u)' = Added(u)
    BY <1>0, <2>1 DEF Added
  <2>3. Added(0) \in Int /\ Added(1) \in Int
    BY <1>0 DEF Added
  <2>4. n' = Added(0)' + Added(1)'
    BY <1>0, <2>1, <2>2, <2>3 DEF SemPvInv
  <2> QED BY <1>0, <2>1, <2>4 DEF SemPvInv, LeftInv
<1>4. ASSUME SemPost(t, "post", "next", "empty") PROVE SemPvInv'
  <2>1. /\ pc[t] = "post" /\ pc'[t] = "next" /\ \A u \in Threads : u # t => pc'[u] = pc[u]
        /\ sem'["empty"] = sem["empty"] + 1 /\ UNCHANGED <<n, reg, left>>
    BY <1>0, <1>4, StepFact DEF SemPost, data
  <2>2. Added(0)' = Added(0) /\ Added(1)' = Added(1)
    BY <1>0, <2>1 DEF Added
  <2> QED BY <1>0, <2>1, <2>2 DEF SemPvInv, LeftInv
<1>5. ASSUME Round(t, "next", "start", "done") PROVE SemPvInv'
  <2>1. /\ pc[t] = "next" /\ pc'[t] = (IF left[t] > 1 THEN "start" ELSE "done")
        /\ \A u \in Threads : u # t => pc'[u] = pc[u] /\ left'[u] = left[u]
        /\ left'[t] = left[t] - 1 /\ UNCHANGED <<sem, n, reg>>
    BY <1>0, <1>5, StepFact DEF Round, locks
  <2>2. left[t] \in 1 .. Rounds
    BY <1>0, <2>1 DEF SemPvInv, LeftInv
  <2>3. Added(0)' = Added(0) /\ Added(1)' = Added(1)
    BY <1>0, <2>1, <2>2 DEF Added
  <2> QED BY <1>0, <2>1, <2>2, <2>3 DEF SemPvInv, LeftInv
<1> QED BY <1>1, <1>2, <1>3, <1>4, <1>5 DEF task_pv

LEMMA WithoutLockStep ==
    ASSUME TypeOK, WithoutLockInv, prog = "wo_lock", NEW t \in Threads, handler_wo_lock(t)
    PROVE  WithoutLockInv'
<1> USE TwoThreads, Constants DEF OnlyFirst
<1>0. /\ t \in {0, 1} /\ left \in [Threads -> Int] /\ n \in Int /\ reg \in [Threads -> Int]
      /\ Added(0) \in Int /\ Added(1) \in Int
  <2>1. t \in {0, 1}
    BY DEF WithoutLockInv, handler_wo_lock, Load, Store, Round, Step
  <2>2. left \in [Threads -> Int] /\ n \in Int /\ reg \in [Threads -> Int]
    BY DEF TypeOK
  <2> QED BY <2>1, <2>2 DEF Added
<1>1. ASSUME Load(t, "start", "store") PROVE WithoutLockInv'
  <2>1. /\ pc[t] = "start" /\ pc'[t] = "store" /\ \A u \in Threads : u # t => pc'[u] = pc[u]
        /\ reg'[t] = n /\ UNCHANGED <<n, left>> /\ \A u \in Threads : u # t => reg'[u] = reg[u]
    BY <1>0, <1>1, StepFact DEF Load, locks
  <2>2. Added(0)' = Added(0) /\ Added(1)' = Added(1)
    BY <1>0, <2>1 DEF Added
  <2> QED BY <1>0, <2>1, <2>2 DEF WithoutLockInv, LeftInv
<1>2. ASSUME Store(t, "store", "next", reg[t] + 1) PROVE WithoutLockInv'
  <2>1. /\ pc[t] = "store" /\ pc'[t] = "next" /\ \A u \in Threads : u # t => pc'[u] = pc[u]
        /\ n' = reg[t] + 1 /\ UNCHANGED <<reg, left>>
    BY <1>0, <1>2, StepFact DEF Store, locks
  <2>2. Added(t)' = Added(t) + 1 /\ \A u \in {0, 1} : u # t => Added(u)' = Added(u)
    BY <1>0, <2>1 DEF Added
  <2>3. /\ left[t] \in 1 .. Rounds /\ reg[t] >= 0 /\ reg[t] <= Added(0) + Added(1)
        /\ left[t] < Rounds => reg[t] >= 1
    BY <1>0, <2>1 DEF WithoutLockInv, LeftInv
  <2>4. Added(0)' + Added(1)' = (Added(0) + Added(1)) + 1
    BY <1>0, <2>2
  <2> QED BY <1>0, <2>1, <2>3, <2>4 DEF WithoutLockInv, LeftInv
<1>3. ASSUME left[t] = Rounds, Store(t, "store", "done", reg[t] + Rounds) PROVE WithoutLockInv'
  <2>1. /\ pc[t] = "store" /\ pc'[t] = "done" /\ \A u \in Threads : u # t => pc'[u] = pc[u]
        /\ n' = reg[t] + Rounds /\ UNCHANGED <<reg, left>>
    BY <1>0, <1>3, StepFact DEF Store, locks
  <2>2. Added(t)' = Added(t) + Rounds /\ \A u \in {0, 1} : u # t => Added(u)' = Added(u)
    BY <1>0, <1>3, <2>1 DEF Added
  <2>3. reg[t] >= 0 /\ reg[t] <= Added(0) + Added(1)
    BY <1>0, <2>1 DEF WithoutLockInv
  <2>4. Added(0)' + Added(1)' = (Added(0) + Added(1)) + Rounds
    BY <1>0, <2>2
  <2> QED BY <1>0, <2>1, <2>3, <2>4 DEF WithoutLockInv, LeftInv
<1>4. ASSUME Round(t, "next", "start", "done") PROVE WithoutLockInv'
  <2>1. /\ pc[t] = "next" /\ pc'[t] = (IF left[t] > 1 THEN "start" ELSE "done")
        /\ \A u \in Threads : u # t => pc'[u] = pc[u] /\ left'[u] = left[u]
        /\ left'[t] = left[t] - 1 /\ UNCHANGED <<n, reg>>
    BY <1>0, <1>4, StepFact DEF Round, locks
  <2>2. left[t] \in 1 .. Rounds
    BY <1>0, <2>1 DEF WithoutLockInv, LeftInv
  <2>3. Added(0)' = Added(0) /\ Added(1)' = Added(1)
    BY <1>0, <2>1, <2>2 DEF Added
  <2> QED BY <1>0, <2>1, <2>2, <2>3 DEF WithoutLockInv, LeftInv
<1> QED BY <1>1, <1>2, <1>3, <1>4 DEF handler_wo_lock

\* The t-th addition is of 1 to 2^(t-1) times Rounds.
LEMMA SpinStep ==
    ASSUME TypeOK, SpinInv, prog = "spin_lock", NEW t \in Threads, task_spin(t)
    PROVE  SpinInv'
<1> USE TwoThreads, Constants DEF OnlyFirst
<1> DEFINE added == Counted(0) + Counted(1) + Counted(2)
<1>0. /\ t \in {0, 1, 2} /\ n \in Int /\ reg \in [Threads -> Int]
  BY DEF SpinInv, task_spin, Load, Lock, Store, Unlock, Step, TypeOK
<1>1. PICK k \in Nat :
        /\ n = k * Rounds /\ added <= k /\ k <= Most(added)
        /\ \A u \in {0, 1, 2} : pc[u] \in {"lock", "add"} =>
             \E j \in Nat : j <= k /\ reg[u] = j * Rounds
  BY DEF SpinInv
<1>2. ASSUME Load(t, "start", "lock") PROVE SpinInv'
  <2>1. /\ pc[t] = "start" /\ pc'[t] = "lock" /\ \A u \in Threads : u # t => pc'[u] = pc[u]
        /\ reg'[t] = n /\ n' = n /\ \A u \in Threads : u # t => reg'[u] = reg[u]
    BY <1>0, <1>2, StepFact DEF Load
  <2>2. Counted(0)' = Counted(0) /\ Counted(1)' = Counted(1) /\ Counted(2)' = Counted(2)
    BY <1>0, <2>1 DEF Counted
  <2>3. \A u \in {0, 1, 2} : pc'[u] \in {"lock", "add"} => \E j \in Nat : j <= k /\ reg'[u] = j * Rounds
    <3>1. k <= k /\ reg'[t] = k * Rounds
      BY <1>1, <2>1
    <3>2. \A u \in {0, 1, 2} : u # t => pc'[u] = pc[u] /\ reg'[u] = reg[u]
      BY <2>1
    <3> QED BY <1>1, <3>1, <3>2
  <2>4. \A u \in {0, 1, 2} : pc'[u] \in {"start", "lock", "add", "unlock", "done"}
    BY <1>0, <2>1 DEF SpinInv
  <2>5. OnlyFirst(3)'
    BY <1>0, <2>1 DEF SpinInv
  <2> QED BY <1>1, <2>1, <2>2, <2>3, <2>4, <2>5 DEF SpinInv, Most
<1>3. ASSUME NEW a \in {"lock", "unlock"}, NEW b \in {"add", "done"}, a = "lock" <=> b = "add",
             Step(t, a, b), UNCHANGED <<n, reg>>
      PROVE  SpinInv'
  <2>1. pc[t] = a /\ pc'[t] = b /\ \A u \in Threads : u # t => pc'[u] = pc[u]
    BY <1>3, StepFact
  <2>2. Counted(0)' = Counted(0) /\ Counted(1)' = Counted(1) /\ Counted(2)' = Counted(2)
    BY <1>0, <1>3, <2>1 DEF Counted
  <2>3. \A u \in {0, 1, 2} : pc'[u] \in {"lock", "add"} => \E j \in Nat : j <= k /\ reg'[u] = j * Rounds
    BY <1>0, <1>1, <1>3, <2>1
  <2>4. \A u \in {0, 1, 2} : pc'[u] \in {"start", "lock", "add", "unlock", "done"}
    BY <1>0, <1>3, <2>1 DEF SpinInv
  <2>5. OnlyFirst(3)'
    BY <1>0, <2>1 DEF SpinInv
  <2> QED BY <1>1, <1>3, <2>2, <2>3, <2>4, <2>5 DEF SpinInv, Most
<1>4. ASSUME Store(t, "add", "unlock", n + reg[t] + Rounds) PROVE SpinInv'
  <2>1. /\ pc[t] = "add" /\ pc'[t] = "unlock" /\ \A u \in Threads : u # t => pc'[u] = pc[u]
        /\ n' = n + reg[t] + Rounds /\ reg' = reg
    BY <1>0, <1>4, StepFact DEF Store
  <2>2. PICK j \in Nat : j <= k /\ reg[t] = j * Rounds
    BY <1>0, <1>1, <2>1
  <2>3. added' = added + 1 /\ added \in 0 .. 2
    BY <1>0, <2>1 DEF Counted
  <2>4. k + j + 1 \in Nat /\ n' = (k + j + 1) * Rounds
    <3>1. (k + j + 1) * Rounds = k * Rounds + j * Rounds + Rounds
      OBVIOUS
    <3> QED BY <1>1, <2>1, <2>2, <3>1
  <2>5. added' <= k + j + 1 /\ k + j + 1 <= Most(added')
    <3>1. ASSUME NEW e \in 0 .. 2, e <= k, k <= Most(e)
          PROVE  e + 1 <= k + j + 1 /\ k + j + 1 <= Most(e + 1)
      <4>1. Most(0) = 0 /\ Most(1) = 1 /\ Most(2) = 3 /\ Most(3) = 7
        BY DEF Most
      <4>2. e \in {0, 1, 2}
        OBVIOUS
      <4> QED BY <2>2, <3>1, <4>1, <4>2
    <3> HIDE DEF added
    <3> QED BY <1>1, <2>3, <3>1
  <2>6. \A u \in {0, 1, 2} : pc'[u] \in {"lock", "add"} =>
          \E i \in Nat : i <= k + j + 1 /\ reg'[u] = i * Rounds
    <3> SUFFICES ASSUME NEW u \in {0, 1, 2}, pc'[u] \in {"lock", "add"}
                 PROVE  \E i \in Nat : i <= k + j + 1 /\ reg'[u] = i * Rounds
      OBVIOUS
    <3>1. PICK i \in Nat : i <= k /\ reg[u] = i * Rounds
      BY <1>1, <2>1
    <3>2. i <= k + j + 1
      BY <3>1
    <3> QED BY <2>1, <3>1, <3>2
  <2>7. \A u \in {0, 1, 2} : pc'[u] \in {"start", "lock", "add", "unlock", "done"}
    BY <1>0, <2>1 DEF SpinInv
  <2>8. OnlyFirst(3)'
    BY <1>0, <2>1 DEF SpinInv
  <2> QED BY <2>4, <2>5, <2>6, <2>7, <2>8 DEF SpinInv, Most
<1> QED BY <1>2, <1>3, <1>4 DEF task_spin, Lock, Unlock, data

LEMMA TicketStep ==
    ASSUME TypeOK, TicketInv, prog = "tickets", NEW t \in Threads, sale_tickets(t)
    PROVE  TicketInv'
<1> USE ThreadFacts, Constants
<1>0. /\ t \in Workers /\ n \in Int /\ reg \in [Threads -> Int] /\ out \in [Numbers -> Nat]
      /\ mutex \in [Workers -> Threads \cup {Nobody}]
  BY DEF TypeOK, TicketInv, sale_tickets, Lock, Goto, Load, Unlock, Step
<1>1. ASSUME Lock(t, "start", "test", 0) PROVE TicketInv'
  <2>1. /\ pc[t] = "start" /\ pc'[t] = "test" /\ \A u \in Threads : u # t => pc'[u] = pc[u]
        /\ mutex'[0] = t /\ UNCHANGED <<n, reg, out>>
    BY <1>0, <1>1, StepFact DEF Lock, data
  <2> QED BY <1>0, <2>1 DEF TicketInv
<1>2. ASSUME n <= 0, Goto(t, "test", "done") PROVE TicketInv'
  <2>1. /\ pc[t] = "test" /\ pc'[t] = "done" /\ \A u \in Threads : u # t => pc'[u] = pc[u]
        /\ UNCHANGED <<mutex, n, reg, out>>
    BY <1>0, <1>2, StepFact DEF Goto, locks, data
  <2> QED BY <1>0, <1>2, <2>1 DEF TicketInv
<1>3. ASSUME Goto(t, "test", "load") PROVE TicketInv'
  <2>1. /\ pc[t] = "test" /\ pc'[t] = "load" /\ \A u \in Threads : u # t => pc'[u] = pc[u]
        /\ UNCHANGED <<mutex, n, reg, out>>
    BY <1>0, <1>3, StepFact DEF Goto, locks, data
  <2> QED BY <1>0, <2>1 DEF TicketInv
<1>4. ASSUME Load(t, "load", "sell") PROVE TicketInv'
  <2>1. /\ pc[t] = "load" /\ pc'[t] = "sell" /\ \A u \in Threads : u # t => pc'[u] = pc[u]
        /\ UNCHANGED <<mutex, n, out>> /\ reg'[t] = n /\ \A u \in Threads : u # t => reg'[u] = reg[u]
    BY <1>0, <1>4, StepFact DEF Load, locks
  <2> QED BY <1>0, <2>1 DEF TicketInv
<1>5. ASSUME Step(t, "sell", "unlock"), n' = reg[t] - 1, out' = Written(reg[t]),
             UNCHANGED <<locks, m, reg, left>>
      PROVE  TicketInv'
  <2>1. /\ pc[t] = "sell" /\ pc'[t] = "unlock" /\ \A u \in Threads : u # t => pc'[u] = pc[u]
        /\ UNCHANGED <<mutex, reg>>
    BY <1>0, <1>5, StepFact DEF locks
  <2>2. \A i \in 1 .. Capacity : i \in Numbers
    BY DEF Numbers
  <2>3. \A i \in 1 .. Capacity : out'[i] = IF i = reg[t] THEN (IF out[i] = 0 THEN 1 ELSE 2) ELSE out[i]
    BY <1>0, <1>5, <2>2 DEF Written
  <2>4. \A i \in 1 .. Capacity : out[i] > 0 \/ i = reg[t] => out'[i] > 0
    BY <2>3
  <2>5. \A i \in 1 .. Capacity : i > n' => i > reg[t] \/ i = reg[t]
    BY <1>0, <1>5
  <2>6. \A i \in 1 .. Capacity : i > n' => out'[i] > 0
    BY <2>1, <2>4, <2>5 DEF TicketInv
  <2>7. \A u \in Threads : pc'[u] = "sell" => \A i \in 1 .. Capacity : i > reg'[u] => out'[i] > 0
    BY <2>1, <2>4 DEF TicketInv
  <2> QED BY <1>0, <2>1, <2>6, <2>7 DEF TicketInv
<1>6. ASSUME Unlock(t, "unlock", "test", 0) PROVE TicketInv'
  <2>1. /\ pc[t] = "unlock" /\ pc'[t] = "test" /\ \A u \in Threads : u # t => pc'[u] = pc[u]
        /\ mutex'[0] = Nobody /\ UNCHANGED <<n, reg, out>>
    BY <1>0, <1>6, StepFact DEF Unlock, data
  <2> QED BY <1>0, <2>1 DEF TicketInv
<1> QED BY <1>1, <1>2, <1>3, <1>4, <1>5, <1>6 DEF sale_tickets

-----------------------------------------------------------------------------
\* The limits.

LEMMA BufferLimitStep ==
    ASSUME TypeOK, BufferInv, prog \in {"pc", "parking"}, NEW t \in Threads,
           prod(t) \/ cons(t) \/ enter_car(t) \/ exit_car(t)
    PROVE  BufferInv'
<1>0. n \in 0 .. Capacity
  BY DEF BufferInv
<1>1. CASE n' = n
  BY <1>0, <1>1 DEF BufferInv
<1>2. CASE n # Capacity /\ n' = n + 1
  BY <1>0, <1>2, Constants DEF BufferInv
<1>3. CASE n # 0 /\ n' = n - 1
  BY <1>0, <1>3, Constants DEF BufferInv
<1>4. prod(t) => n' = n \/ (n # Capacity /\ n' = n + 1)
  BY DEF prod, Lock, CondWait, Store, Unlock, Round, data
<1>5. cons(t) => n' = n \/ (n # 0 /\ n' = n - 1)
  BY DEF cons, Lock, CondWait, Store, Unlock, Round, data
<1>6. enter_car(t) => n' = n \/ (n # 0 /\ n' = n - 1)
  BY DEF enter_car, Lock, CondWait, Store, Unlock, Round, data
<1>7. exit_car(t) => n' = n \/ (n # Capacity /\ n' = n + 1)
  BY DEF exit_car, Lock, CondWait, Store, Unlock, Round, data
<1> QED BY <1>1, <1>2, <1>3, <1>4, <1>5, <1>6, <1>7

LEMMA MySemStep ==
    ASSUME TypeOK, MySemInv, prog = "mysem", NEW t \in Threads, mysem_user(t)
    PROVE  MySemInv'
<1> USE ThreadFacts, Constants
<1> DEFINE holding == {"subunlock", "holding", "addnotice"}
           held == HeldBy0 + Cardinality(Holders \ {0})
<1>a. /\ HeldBy0 \in Int /\ Cardinality(Holders \ {0}) \in Int
      /\ HeldBy0' \in Int /\ Cardinality(Holders' \ {0}) \in Int
  BY WorkersFinite, FS_Subset, FS_CardinalityType DEF HeldBy0, Holders, Amount
<1>0. n \in Int /\ pc[Main] = "none" /\ n >= 0 /\ n + held = Capacity
  BY <1>a DEF TypeOK, MySemInv
<1>b. ASSUME n' \in Int PROVE n' + held' = n' + HeldBy0' + Cardinality(Holders' \ {0})
  BY <1>a, <1>b
\* What a step does to the sum.
<1>1. ASSUME NEW a, NEW b, Step(t, a, b), a # "none"
      PROVE  /\ pc'[Main] = "none" /\ prog' = prog
             /\ held \in Int /\ held' \in Int
             /\ (a \in holding <=> b \in holding) => held' = held
             /\ a \notin holding /\ b \in holding => held' = held + Amount(t)
             /\ a \in holding /\ b \notin holding => held' = held - Amount(t)
  <2>1. pc[t] = a /\ pc'[t] = b /\ prog' = prog /\ \A u \in Threads : u # t => pc'[u] = pc[u]
    BY <1>1, StepFact
  <2>2. t \in Workers /\ pc'[Main] = "none"
    BY <1>0, <1>1, <2>1
  <2>3. /\ t \in Holders <=> a \in holding
        /\ t \in Holders' <=> b \in holding
        /\ \A u \in Workers : u # t => (u \in Holders' <=> u \in Holders)
    BY <2>1, <2>2 DEF Holders
  <2>4. Holders \subseteq Workers /\ Holders' \subseteq Workers
    BY DEF Holders
  <2> DEFINE S == Holders \ {0}
             R == Holders' \ {0}
  <2>5. S \in SUBSET Workers /\ R \in SUBSET Workers
    BY <2>4
  <2>6. \A u \in Workers : u # t => (u \in R <=> u \in S)
    BY <2>3
  <2>7. /\ Cardinality(S) \in Nat /\ Cardinality(R) \in Nat
        /\ t \in R /\ t \notin S => Cardinality(R) = Cardinality(S) + 1
        /\ t \notin R /\ t \in S => Cardinality(R) = Cardinality(S) - 1
        /\ (t \in R <=> t \in S) => Cardinality(R) = Cardinality(S)
    <3> HIDE DEF S, R
    <3> QED BY <2>5, <2>6, CardStep
  <2>8. HeldBy0 = (IF 0 \in Holders THEN Capacity ELSE 0) /\ HeldBy0' = (IF 0 \in Holders' THEN Capacity ELSE 0)
    BY DEF HeldBy0, Amount
  <2>9. Amount(t) = IF t = 0 THEN Capacity ELSE 1
    BY DEF Amount
  <2>10. held = HeldBy0 + Cardinality(S) /\ held' = HeldBy0' + Cardinality(R)
    OBVIOUS
  <2>11. CASE t = 0
    <3>1. Cardinality(R) = Cardinality(S) /\ Amount(t) = Capacity
      BY <2>7, <2>9, <2>11
    <3> HIDE DEF S, R, held
    <3> QED BY <2>1, <2>2, <2>3, <2>7, <2>8, <2>10, <2>11, <3>1
  <2>12. CASE t # 0
    <3>1. (t \in R <=> b \in holding) /\ (t \in S <=> a \in holding) /\ HeldBy0' = HeldBy0 /\ Amount(t) = 1
      BY <2>2, <2>3, <2>8, <2>9, <2>12
    <3>2. HeldBy0 \in Int
      BY <2>8
    <3> HIDE DEF S, R, held, holding
    <3> QED BY <2>1, <2>2, <2>7, <2>10, <2>12, <3>1, <3>2
  <2> QED BY <2>11, <2>12
<1>2. ASSUME NEW a, NEW b, Step(t, a, b), a # "none", n' = n, a \in holding <=> b \in holding
      PROVE  MySemInv'
  <2>1. pc'[Main] = "none" /\ held' = held
    BY <1>1, <1>2
  <2>2. n' \in Int /\ n' >= 0 /\ n' + held' = Capacity
    <3> HIDE DEF held
    <3> QED BY <1>0, <1>2, <2>1
  <2> QED BY <1>b, <2>1, <2>2 DEF MySemInv
<1>3. ASSUME n >= Amount(t), Store(t, "subtest", "subunlock", n - Amount(t)) PROVE MySemInv'
  <2>1. Amount(t) \in Int /\ Step(t, "subtest", "subunlock") /\ n' = n - Amount(t)
    BY <1>3 DEF Store, Amount
  <2>2. held' = held + Amount(t) /\ held \in Int /\ pc'[Main] = "none"
    BY <1>1, <2>1
  <2>3. n' \in Int /\ n' >= 0 /\ n' + held' = Capacity
    <3> HIDE DEF held
    <3> QED BY <1>0, <1>3, <2>1, <2>2
  <2> QED BY <1>b, <2>2, <2>3 DEF MySemInv
<1>4. ASSUME Step(t, "addnotice", "addunlock"), n' = n + Amount(t) PROVE MySemInv'
  <2>1. Amount(t) \in Int /\ Amount(t) >= 0
    BY DEF Amount
  <2>2. held' = held - Amount(t) /\ held \in Int /\ pc'[Main] = "none"
    BY <1>1, <1>4
  <2>3. n' \in Int /\ n' >= 0 /\ n' + held' = Capacity
    <3> HIDE DEF held
    <3> QED BY <1>0, <1>4, <2>1, <2>2
  <2> QED BY <1>b, <2>2, <2>3 DEF MySemInv
<1>5. CASE mysem_sub(t, "start", "holding", Amount(t))
  BY <1>2, <1>3, <1>5 DEF mysem_sub, Lock, CondWait, Unlock, data
<1>6. CASE mysem_add(t, "holding", "next", Amount(t))
  BY <1>2, <1>4, <1>6 DEF mysem_add, Lock, Unlock, data
<1>7. CASE Round(t, "next", "start", "done")
  BY <1>2, <1>7 DEF Round
<1> QED BY <1>5, <1>6, <1>7 DEF mysem_user

\* The counts of SemPcInv, one number for each of its four groups.
LEMMA SemPcStep ==
    ASSUME TypeOK, SemPcInv, prog = "sem_pc", NEW t \in Threads,
           \/ t \in Producers /\ productor(t)
           \/ t \in Consumers /\ consumer(t)
    PROVE  SemPcInv'
<1> USE ThreadFacts, Constants
<1> DEFINE points == {"start", "lock", "count", "unlock", "post", "next", "done"}
           pb == Cardinality(Producers \cap In({"lock", "count"}))
           pa == Cardinality(Producers \cap In({"unlock", "post"}))
           cb == Cardinality(Consumers \cap In({"lock", "count"}))
           ca == Cardinality(Consumers \cap In({"unlock", "post"}))
<1>0. /\ n \in Int /\ m \in Int /\ sem \in [{"empty", "full"} -> Int]
      /\ sem["empty"] >= 0 /\ sem["full"] >= 0
      /\ n - m = sem["full"] + pa + cb /\ Capacity - (n - m) = sem["empty"] + pb + ca
  BY DEF TypeOK, SemPcInv
<1>1. /\ Producers \in SUBSET Workers /\ Consumers \in SUBSET Workers
      /\ t \in Producers => t \notin Consumers
  BY DEF Producers, Consumers
<1>g. ASSUME NEW a, NEW b, Step(t, a, b)
      PROVE  LET before == {"lock", "count"}
                 after  == {"unlock", "post"} IN
             /\ pa \in Nat /\ pb \in Nat /\ ca \in Nat /\ cb \in Nat
             /\ t \in Producers /\ a \notin before /\ b \in before => pb' = pb + 1
             /\ t \in Producers /\ a \in before /\ b \notin before => pb' = pb - 1
             /\ t \notin Producers \/ (a \in before <=> b \in before) => pb' = pb
             /\ t \in Producers /\ a \notin after /\ b \in after => pa' = pa + 1
             /\ t \in Producers /\ a \in after /\ b \notin after => pa' = pa - 1
             /\ t \notin Producers \/ (a \in after <=> b \in after) => pa' = pa
             /\ t \in Consumers /\ a \notin before /\ b \in before => cb' = cb + 1
             /\ t \in Consumers /\ a \in before /\ b \notin before => cb' = cb - 1
             /\ t \notin Consumers \/ (a \in before <=> b \in before) => cb' = cb
             /\ t \in Consumers /\ a \notin after /\ b \in after => ca' = ca + 1
             /\ t \in Consumers /\ a \in after /\ b \notin after => ca' = ca - 1
             /\ t \notin Consumers \/ (a \in after <=> b \in after) => ca' = ca
  <2>1. ASSUME NEW CONSTANT C \in SUBSET Workers, NEW CONSTANT pts
        PROVE  LET S == C \cap In(pts)
                   R == C \cap In(pts)' IN
               /\ Cardinality(S) \in Nat
               /\ t \in C /\ a \notin pts /\ b \in pts => Cardinality(R) = Cardinality(S) + 1
               /\ t \in C /\ a \in pts /\ b \notin pts => Cardinality(R) = Cardinality(S) - 1
               /\ t \notin C \/ (a \in pts <=> b \in pts) => Cardinality(R) = Cardinality(S)
    <3> DEFINE S == C \cap In(pts)
               R == C \cap In(pts)'
    <3>1. pc[t] = a /\ pc'[t] = b /\ \A u \in Threads : u # t => pc'[u] = pc[u]
      BY <1>g, StepFact
    <3>2. /\ S \in SUBSET Workers /\ R \in SUBSET Workers
          /\ \A u \in Workers : u # t => (u \in R <=> u \in S)
          /\ t \in S <=> t \in C /\ a \in pts
          /\ t \in R <=> t \in C /\ b \in pts
      BY <3>1 DEF In
    <3> HIDE DEF S, R
    <3>3. /\ Cardinality(S) \in Nat /\ Cardinality(R) \in Nat
          /\ t \in R /\ t \notin S => Cardinality(R) = Cardinality(S) + 1
          /\ t \notin R /\ t \in S => Cardinality(R) = Cardinality(S) - 1
          /\ (t \in R <=> t \in S) => Cardinality(R) = Cardinality(S)
      BY <3>2, CardStep
    <3>4. /\ Cardinality(S) \in Nat
          /\ t \in C /\ a \notin pts /\ b \in pts => Cardinality(R) = Cardinality(S) + 1
          /\ t \in C /\ a \in pts /\ b \notin pts => Cardinality(R) = Cardinality(S) - 1
          /\ t \notin C \/ (a \in pts <=> b \in pts) => Cardinality(R) = Cardinality(S)
      BY <3>2, <3>3
    <3> QED BY <3>4 DEF S, R
  <2> QED BY <1>1, <2>1 DEF In
<1>2. ASSUME NEW a \in points, NEW b \in points, Step(t, a, b),
             sem'["empty"] >= 0, sem'["full"] >= 0,
             n' - m' = sem'["full"] + pa' + cb',
             Capacity - (n' - m') = sem'["empty"] + pb' + ca'
      PROVE  SemPcInv'
  <2>1. pc[t] = a /\ pc'[t] = b /\ \A u \in Threads : u # t => pc'[u] = pc[u]
    BY <1>2, StepFact
  <2>2. \A u \in Workers : pc'[u] \in points
    BY <2>1 DEF SemPcInv
  <2>3. pc[Main] = "none"
    BY DEF SemPcInv
  <2>4. pc'[Main] = "none"
    BY <2>1, <2>3
  <2> QED BY <1>2, <2>2, <2>4 DEF SemPcInv
<1>3. ASSUME t \in Producers, productor(t)
      PROVE  \E a \in points, b \in points :
               /\ Step(t, a, b)
               /\ sem'["empty"] >= 0 /\ sem'["full"] >= 0
               /\ n' - m' = sem'["full"] + pa' + cb'
               /\ Capacity - (n' - m') = sem'["empty"] + pb' + ca'
  <2>0. t \in Producers /\ t \notin Consumers
    BY <1>1, <1>3
  <2>1. ASSUME NEW a, NEW b, Step(t, a, b)
        PROVE  /\ pa \in Nat /\ pb \in Nat /\ ca \in Nat /\ cb \in Nat
               /\ ca' = ca /\ cb' = cb
               /\ a \notin {"lock", "count"} /\ b \in {"lock", "count"} => pb' = pb + 1
               /\ a \in {"lock", "count"} /\ b \notin {"lock", "count"} => pb' = pb - 1
               /\ (a \in {"lock", "count"} <=> b \in {"lock", "count"}) => pb' = pb
               /\ a \notin {"unlock", "post"} /\ b \in {"unlock", "post"} => pa' = pa + 1
               /\ a \in {"unlock", "post"} /\ b \notin {"unlock", "post"} => pa' = pa - 1
               /\ (a \in {"unlock", "post"} <=> b \in {"unlock", "post"}) => pa' = pa
    BY <1>g, <2>0, <2>1
  <2> HIDE DEF pa, pb, ca, cb
  <2>2. CASE SemWait(t, "start", "lock", "empty")
    <3>1. Step(t, "start", "lock")
      BY <2>2 DEF SemWait
    <3>2. /\ sem'["empty"] = sem["empty"] - 1 /\ sem["empty"] > 0 /\ sem'["full"] = sem["full"]
          /\ n' = n /\ m' = m
      BY <1>0, <2>2 DEF SemWait, data
    <3>3. pb' = pb + 1 /\ pa' = pa /\ ca' = ca /\ cb' = cb /\ {pa, pb, ca, cb} \subseteq Nat
      BY <2>1, <3>1
    <3> QED BY <1>0, <3>1, <3>2, <3>3
  <2>3. CASE Lock(t, "lock", "count", 0)
    <3>1. Step(t, "lock", "count") /\ UNCHANGED <<sem, n, m>>
      BY <2>3 DEF Lock, data
    <3>3. pb' = pb /\ pa' = pa /\ ca' = ca /\ cb' = cb /\ {pa, pb, ca, cb} \subseteq Nat
      BY <2>1, <3>1
    <3> QED BY <1>0, <3>1, <3>3
  <2>4. CASE Store(t, "count", "unlock", n + 1)
    <3>1. Step(t, "count", "unlock") /\ UNCHANGED <<sem, m>> /\ n' = n + 1
      BY <2>4 DEF Store, locks
    <3>3. pb' = pb - 1 /\ pa' = pa + 1 /\ ca' = ca /\ cb' = cb /\ {pa, pb, ca, cb} \subseteq Nat
      BY <2>1, <3>1
    <3> QED BY <1>0, <3>1, <3>3
  <2>5. CASE Unlock(t, "unlock", "post", 0)
    <3>1. Step(t, "unlock", "post") /\ UNCHANGED <<sem, n, m>>
      BY <2>5 DEF Unlock, data
    <3>3. pb' = pb /\ pa' = pa /\ ca' = ca /\ cb' = cb /\ {pa, pb, ca, cb} \subseteq Nat
      BY <2>1, <3>1
    <3> QED BY <1>0, <3>1, <3>3
  <2>6. CASE SemPost(t, "post", "next", "full")
    <3>1. Step(t, "post", "next")
      BY <2>6 DEF SemPost
    <3>2. sem'["full"] = sem["full"] + 1 /\ sem'["empty"] = sem["empty"] /\ n' = n /\ m' = m
      BY <1>0, <2>6 DEF SemPost, data
    <3>3. pb' = pb /\ pa' = pa - 1 /\ ca' = ca /\ cb' = cb /\ {pa, pb, ca, cb} \subseteq Nat
      BY <2>1, <3>1
    <3> QED BY <1>0, <3>1, <3>2, <3>3
  <2>7. CASE Round(t, "next", "start", "done")
    <3>1. PICK b \in {"start", "done"} : Step(t, "next", b)
      BY <2>7 DEF Round
    <3>2. UNCHANGED <<sem, n, m>>
      BY <2>7 DEF Round, locks
    <3>3. pb' = pb /\ pa' = pa /\ ca' = ca /\ cb' = cb /\ {pa, pb, ca, cb} \subseteq Nat
      BY <2>1, <3>1
    <3> QED BY <1>0, <3>1, <3>2, <3>3
  <2> QED BY <1>3, <2>2, <2>3, <2>4, <2>5, <2>6, <2>7 DEF productor
<1>4. ASSUME t \in Consumers, consumer(t)
      PROVE  \E a \in points, b \in points :
               /\ Step(t, a, b)
               /\ sem'["empty"] >= 0 /\ sem'["full"] >= 0
               /\ n' - m' = sem'["full"] + pa' + cb'
               /\ Capacity - (n' - m') = sem'["empty"] + pb' + ca'
  <2>0. t \in Consumers /\ t \notin Producers
    BY <1>1, <1>4
  <2>1. ASSUME NEW a, NEW b, Step(t, a, b)
        PROVE  /\ pa \in Nat /\ pb \in Nat /\ ca \in Nat /\ cb \in Nat
               /\ pa' = pa /\ pb' = pb
               /\ a \notin {"lock", "count"} /\ b \in {"lock", "count"} => cb' = cb + 1
               /\ a \in {"lock", "count"} /\ b \notin {"lock", "count"} => cb' = cb - 1
               /\ (a \in {"lock", "count"} <=> b \in {"lock", "count"}) => cb' = cb
               /\ a \notin {"unlock", "post"} /\ b \in {"unlock", "post"} => ca' = ca + 1
               /\ a \in {"unlock", "post"} /\ b \notin {"unlock", "post"} => ca' = ca - 1
               /\ (a \in {"unlock", "post"} <=> b \in {"unlock", "post"}) => ca' = ca
    BY <1>g, <2>0, <2>1
  <2> HIDE DEF pa, pb, ca, cb
  <2>2. CASE SemWait(t, "start", "lock", "full")
    <3>1. Step(t, "start", "lock")
      BY <2>2 DEF SemWait
    <3>2. /\ sem'["full"] = sem["full"] - 1 /\ sem["full"] > 0 /\ sem'["empty"] = sem["empty"]
          /\ n' = n /\ m' = m
      BY <1>0, <2>2 DEF SemWait, data
    <3>3. cb' = cb + 1 /\ ca' = ca /\ pa' = pa /\ pb' = pb /\ {pa, pb, ca, cb} \subseteq Nat
      BY <2>1, <3>1
    <3> QED BY <1>0, <3>1, <3>2, <3>3
  <2>3. CASE Lock(t, "lock", "count", 0)
    <3>1. Step(t, "lock", "count") /\ UNCHANGED <<sem, n, m>>
      BY <2>3 DEF Lock, data
    <3>3. pb' = pb /\ pa' = pa /\ ca' = ca /\ cb' = cb /\ {pa, pb, ca, cb} \subseteq Nat
      BY <2>1, <3>1
    <3> QED BY <1>0, <3>1, <3>3
  <2>4. CASE /\ Step(t, "count", "unlock")
             /\ m' = m + 1
             /\ UNCHANGED <<locks, n, reg, left, out>>
    <3>1. Step(t, "count", "unlock") /\ UNCHANGED <<sem, n>> /\ m' = m + 1
      BY <2>4 DEF locks
    <3>3. cb' = cb - 1 /\ ca' = ca + 1 /\ pa' = pa /\ pb' = pb /\ {pa, pb, ca, cb} \subseteq Nat
      BY <2>1, <3>1
    <3> QED BY <1>0, <3>1, <3>3
  <2>5. CASE Unlock(t, "unlock", "post", 0)
    <3>1. Step(t, "unlock", "post") /\ UNCHANGED <<sem, n, m>>
      BY <2>5 DEF Unlock, data
    <3>3. pb' = pb /\ pa' = pa /\ ca' = ca /\ cb' = cb /\ {pa, pb, ca, cb} \subseteq Nat
      BY <2>1, <3>1
    <3> QED BY <1>0, <3>1, <3>3
  <2>6. CASE SemPost(t, "post", "next", "empty")
    <3>1. Step(t, "post", "next")
      BY <2>6 DEF SemPost
    <3>2. sem'["empty"] = sem["empty"] + 1 /\ sem'["full"] = sem["full"] /\ n' = n /\ m' = m
      BY <1>0, <2>6 DEF SemPost, data
    <3>3. pb' = pb /\ pa' = pa /\ ca' = ca - 1 /\ cb' = cb /\ {pa, pb, ca, cb} \subseteq Nat
      BY <2>1, <3>1
    <3> QED BY <1>0, <3>1, <3>2, <3>3
  <2>7. CASE Round(t, "next", "start", "done")
    <3>1. PICK b \in {"start", "done"} : Step(t, "next", b)
      BY <2>7 DEF Round
    <3>2. UNCHANGED <<sem, n, m>>
      BY <2>7 DEF Round, locks
    <3>3. pb' = pb /\ pa' = pa /\ ca' = ca /\ cb' = cb /\ {pa, pb, ca, cb} \subseteq Nat
      BY <2>1, <3>1
    <3> QED BY <1>0, <3>1, <3>2, <3>3
  <2> QED BY <1>4, <2>2, <2>3, <2>4, <2>5, <2>6, <2>7 DEF consumer
<1> QED BY <1>2, <1>3, <1>4

LEMMA SemStep ==
    ASSUME TypeOK, SemInv, prog = "sem", NEW t \in Threads, task_sem(t)
    PROVE  SemInv'
<1> USE ThreadFacts, Constants
<1> DEFINE inside == Cardinality(Workers \cap In({"inside"}))
<1>0. At("inside") = Workers \cap In({"inside"}) /\ At("inside")' = Workers \cap In({"inside"})'
  BY DEF At, In
<1>1. /\ pc[Main] = "none" /\ sem \in [{"empty", "full"} -> Int]
      /\ sem["empty"] >= 0 /\ sem["empty"] + inside = Capacity
  BY <1>0 DEF SemInv, TypeOK
<1>2. ASSUME NEW a, NEW b, Step(t, a, b), a # "none"
      PROVE  /\ pc'[Main] = "none" /\ inside \in Nat
             /\ a # "inside" /\ b = "inside" => inside' = inside + 1
             /\ a = "inside" /\ b # "inside" => inside' = inside - 1
  <2>1. t \in Workers /\ pc'[Main] = "none"
    BY <1>1, <1>2, StepFact
  <2> DEFINE S == {u \in Workers : pc[u] \in {"inside"}}
             R == {u \in Workers : pc'[u] \in {"inside"}}
  <2>2. /\ Cardinality(S) \in Nat
        /\ a # "inside" /\ b = "inside" => Cardinality(R) = Cardinality(S) + 1
        /\ a = "inside" /\ b # "inside" => Cardinality(R) = Cardinality(S) - 1
    <3>1. pc[t] = a /\ pc'[t] = b /\ \A u \in Threads : u # t => pc'[u] = pc[u]
      BY <1>2, StepFact
    <3>2. /\ S \in SUBSET Workers /\ R \in SUBSET Workers
          /\ \A u \in Workers : u # t => (u \in R <=> u \in S)
          /\ t \in S <=> a = "inside"
          /\ t \in R <=> b = "inside"
      BY <2>1, <3>1
    <3> HIDE DEF S, R
    <3> QED BY <3>2, CardStep
  <2>3. inside = Cardinality(S) /\ inside' = Cardinality(R)
    <3>1. Workers \cap In({"inside"}) = S /\ Workers \cap In({"inside"})' = R
      BY DEF In
    <3> QED BY <3>1
  <2> QED BY <2>1, <2>2, <2>3
<1> HIDE DEF inside
<1>3. CASE SemWait(t, "start", "inside", "empty")
  <2>1. sem'["empty"] = sem["empty"] - 1 /\ sem["empty"] > 0 /\ Step(t, "start", "inside")
    BY <1>1, <1>3 DEF SemWait
  <2>2. pc'[Main] = "none" /\ sem'["empty"] >= 0 /\ sem'["empty"] + inside' = Capacity
    BY <1>1, <1>2, <2>1
  <2> QED BY <1>0, <2>2 DEF SemInv, inside
<1>4. CASE SemPost(t, "inside", "done", "empty")
  <2>1. sem'["empty"] = sem["empty"] + 1 /\ Step(t, "inside", "done")
    BY <1>1, <1>4 DEF SemPost
  <2>2. pc'[Main] = "none" /\ sem'["empty"] >= 0 /\ sem'["empty"] + inside' = Capacity
    BY <1>1, <1>2, <2>1
  <2> QED BY <1>0, <2>2 DEF SemInv, inside
<1> QED BY <1>3, <1>4 DEF task_sem

LEMMA RwLockStep ==
    ASSUME TypeOK, RwLockInv, prog = "rw_lock", NEW t \in Workers, myRead(t) \/ myWrite(t)
    PROVE  RwLockInv'
<1> USE ThreadFacts
<1>1. ASSUME At("writing") \cup At("wrwait") = {}, Goto(t, "rdlock", "reading") PROVE RwLockInv'
  BY <1>1, StepFact DEF RwLockInv, Goto, At
<1>2. ASSUME NEW a, NEW b, Goto(t, a, b),
             a \in {"rdlock", "reading"} /\ b \in {"rdwait", "rdlock"}
      PROVE  RwLockInv'
  BY <1>2, StepFact DEF RwLockInv, Goto
<1>3. ASSUME Goto(t, "wrlock", "wrwait") PROVE RwLockInv'
  BY <1>3, StepFact DEF RwLockInv, Goto
<1>4. ASSUME At("reading") \cup At("writing") = {}, Goto(t, "wrwait", "writing") PROVE RwLockInv'
  BY <1>4, StepFact DEF RwLockInv, Goto, At
<1>5. ASSUME wrunlock(t) PROVE RwLockInv'
  <2>1. \A u \in Workers : pc'[u] = CASE u = t -> "wrlock" [] pc[u] = "rdwait" -> "reading" [] OTHER -> pc[u]
    BY <1>5 DEF wrunlock
  <2> QED BY <1>5, <2>1 DEF RwLockInv, wrunlock
<1> QED BY <1>1, <1>2, <1>3, <1>4, <1>5 DEF myRead, myWrite, rdlock, wrlock

-----------------------------------------------------------------------------
\* All programs.

\* The program stays what it is.
LEMMA ProgFixed ==
    ASSUME NEW t \in Threads, ThreadStep(t)
    PROVE  prog' = prog
<1>1. /\ \A a, b : Step(t, a, b) => prog' = prog
      /\ \A a, b : Goto(t, a, b) => prog' = prog
      /\ \A a, b : Goto(Main, a, b) => prog' = prog
      /\ \A a, b, k : Lock(t, a, b, k) \/ Unlock(t, a, b, k) => prog' = prog
      /\ \A a, b, c : CondWait(t, a, b, c) \/ Round(t, a, b, c) => prog' = prog
      /\ \A a, b, c : SemWait(t, a, b, c) \/ SemPost(t, a, b, c) => prog' = prog
      /\ \A a, b : Load(t, a, b) => prog' = prog
      /\ \A a, b, v : Store(t, a, b, v) \/ Set(t, a, b, v) => prog' = prog
      /\ \A a, b, k, v : Test(t, a, b, k, v) => prog' = prog
  BY DEF Step, Goto, Lock, Unlock, CondWait, Round, SemWait, SemPost, Load, Store, Set, Test
<1>2. \A a, b : Join(a, b) => prog' = prog
  BY <1>1 DEF Join
<1>3. CASE CounterStep(t)
  BY <1>1, <1>3 DEF CounterStep, thr_func, func_add_sem, P, V, func_add_lockf, handler_with_lock,
     handler_wo_lock, task_spin, task_pv, sale_tickets, ExitAll
<1>4. CASE TurnStep(t)
  BY <1>1, <1>4 DEF TurnStep, abcd_func_mutex, abcd_func_cond, myRead, myWrite, rdlock, wrlock, wrunlock
<1>5. CASE BufferStep(t)
  BY <1>1, <1>5 DEF BufferStep, mysem_user, mysem_sub, mysem_add, prod, cons, enter_car, exit_car,
     productor, consumer, task_sem
<1>6. CASE PrimeStep(t)
  <2>1. \A c, last : Fork(c, last) => prog' = prog
    BY DEF Fork
  <2>2. AloneStep => prog' = prog
    BY <1>1 DEF AloneStep, primer0, primer1, thread0, Test, Step
  <2>3. primer_by_one(t) => prog' = prog
    BY <1>1 DEF primer_by_one
  <2>4. thread1(t) \/ thread3(t) \/ thread4(t) => prog' = prog
    BY <1>1, <1>2, <2>1 DEF thread1, thread3, thread4
  <2>5. primer_by_four(t) \/ primer_second(t) => prog' = prog
    BY <1>1, <1>2 DEF primer_by_four, primer_second
  <2>6. main_busy(t) \/ thr_primer_busy(t) => prog' = prog
    BY <1>1, <1>2 DEF main_busy, thr_primer_busy
  <2>7. main_notice(t) \/ thr_primer_notice(t) => prog' = prog
    BY <1>1, <1>2 DEF main_notice, thr_primer_notice
  <2> QED BY <1>2, <1>6, <2>2, <2>3, <2>4, <2>5, <2>6, <2>7 DEF PrimeStep
<1> QED BY <1>3, <1>4, <1>5, <1>6 DEF ThreadStep

\* The step is one of the program that runs.
LEMMA OwnStep ==
    ASSUME NEW t \in Threads, ThreadStep(t)
    PROVE  /\ prog = "ring_mutex" => abcd_func_mutex(t)
           /\ prog = "ring_cond" => abcd_func_cond(t)
           /\ prog = "rw_lock" => t # Main /\ (myRead(t) \/ myWrite(t))
           /\ prog = "add_thread" => thr_func(t)
           /\ prog = "add_lockf" => func_add_lockf(t)
           /\ prog = "add_sem" => func_add_sem(t)
           /\ prog = "with_lock" => handler_with_lock(t)
           /\ prog = "sem_pv" => task_pv(t)
           /\ prog = "wo_lock" => handler_wo_lock(t)
           /\ prog = "spin_lock" => task_spin(t)
           /\ prog = "tickets" => sale_tickets(t)
           /\ prog = "pc" => prod(t) \/ cons(t)
           /\ prog = "parking" => enter_car(t) \/ exit_car(t)
           /\ prog = "mysem" => mysem_user(t)
           /\ prog = "sem_pc" => (t \in Producers /\ productor(t)) \/ (t \in Consumers /\ consumer(t))
           /\ prog = "sem" => task_sem(t)
           /\ prog \in CoveredPrograms => CounterStep(t) \/ TurnStep(t) \/ BufferStep(t)
<1>1. CounterStep(t) => prog \in CounterPrograms
  BY DEF CounterStep, CounterPrograms
<1>2. TurnStep(t) => prog \in TurnPrograms
  BY DEF TurnStep, TurnPrograms
<1>3. BufferStep(t) => prog \in BufferPrograms
  BY DEF BufferStep, BufferPrograms
<1>4. PrimeStep(t) => prog \in PrimePrograms
  BY DEF PrimeStep, PrimePrograms, Alone
<1>5. /\ CounterPrograms \cap TurnPrograms = {} /\ CounterPrograms \cap BufferPrograms = {}
      /\ TurnPrograms \cap BufferPrograms = {} /\ CoveredPrograms \cap PrimePrograms = {}
  BY DEF CounterPrograms, TurnPrograms, BufferPrograms, PrimePrograms, CoveredPrograms
<1>6. prog \in CoveredPrograms => CounterStep(t) \/ TurnStep(t) \/ BufferStep(t)
  BY <1>4, <1>5 DEF ThreadStep
<1>7. prog \in CounterPrograms => CounterStep(t)
  BY <1>2, <1>3, <1>5, <1>6 DEF CoveredPrograms
<1>8. prog \in TurnPrograms => TurnStep(t)
  BY <1>1, <1>3, <1>5, <1>6 DEF CoveredPrograms
<1>9. prog \in BufferPrograms => BufferStep(t)
  BY <1>1, <1>2, <1>5, <1>6 DEF CoveredPrograms
<1>10. /\ prog = "ring_mutex" => abcd_func_mutex(t)
       /\ prog = "ring_cond" => abcd_func_cond(t)
       /\ prog = "rw_lock" => t # Main /\ (myRead(t) \/ myWrite(t))
  BY <1>8 DEF TurnStep, TurnPrograms
<1>11. /\ prog = "add_thread" => thr_func(t)
       /\ prog = "add_lockf" => func_add_lockf(t)
       /\ prog = "add_sem" => func_add_sem(t)
       /\ prog = "with_lock" => handler_with_lock(t)
       /\ prog = "sem_pv" => task_pv(t)
       /\ prog = "wo_lock" => handler_wo_lock(t)
       /\ prog = "spin_lock" => task_spin(t)
       /\ prog = "tickets" => sale_tickets(t)
  BY <1>7 DEF CounterStep, CounterPrograms
<1>12. /\ prog = "pc" => prod(t) \/ cons(t)
       /\ prog = "parking" => enter_car(t) \/ exit_car(t)
       /\ prog = "mysem" => mysem_user(t)
       /\ prog = "sem_pc" => (t \in Producers /\ productor(t)) \/ (t \in Consumers /\ consumer(t))
       /\ prog = "sem" => task_sem(t)
  BY <1>9 DEF BufferStep, BufferPrograms
<1> QED BY <1>6, <1>10, <1>11, <1>12

\* The searches for primes are in none of the parts.
LEMMA Uncovered ==
    ASSUME prog \notin CoveredPrograms
    PROVE  Inv
  BY DEF Inv, CoveredPrograms, CounterPrograms, TurnPrograms, BufferPrograms,
     RingMutexInv, RingCondInv, FileLockInv, FileSemInv, WithLockInv, SemPvInv, WithoutLockInv,
     SpinInv, TicketInv, BufferInv, MySemInv, SemPcInv, SemInv, RwLockInv

LEMMA UncoveredNext ==
    ASSUME prog \notin CoveredPrograms, prog' = prog
    PROVE  Inv'
  BY DEF Inv, CoveredPrograms, CounterPrograms, TurnPrograms, BufferPrograms,
     RingMutexInv, RingCondInv, FileLockInv, FileSemInv, WithLockInv, SemPvInv, WithoutLockInv,
     SpinInv, TicketInv, BufferInv, MySemInv, SemPcInv, SemInv, RwLockInv

\* A spurious wake-up changes nothing the invariants are about.
LEMMA QuietStep ==
    ASSUME Inv, UNCHANGED <<prog, pc, mutex, sem, n, m, reg, left, out>>,
           asleep' = [t \in Threads |-> asleep'[t]]
    PROVE  Inv'
<1>1. (prog \in CoveredPrograms => TypeOK)'
  BY DEF Inv, TypeOK
<1>2. RingMutexInv' /\ RingCondInv'
  BY DEF Inv, RingMutexInv, RingCondInv, next
<1>3. FileLockInv' /\ FileSemInv'
  <2>1. Wrote' = Wrote /\ (CountInv' <=> CountInv)
    BY DEF Wrote, In, CountInv
  <2> QED BY <2>1 DEF Inv, FileLockInv, FileSemInv, In
<1>4. WithLockInv' /\ SemPvInv' /\ WithoutLockInv' /\ SpinInv'
  <2>1. Added(0)' = Added(0) /\ Added(1)' = Added(1) /\ (OnlyFirst(2)' <=> OnlyFirst(2))
    BY DEF Added, OnlyFirst
  <2>2. SpinInv'
    BY DEF Inv, SpinInv, OnlyFirst, Counted, Most
  <2> QED BY <2>1, <2>2 DEF Inv, WithLockInv, SemPvInv, WithoutLockInv, LeftInv
<1>5. TicketInv'
  BY DEF Inv, TicketInv
<1>6. BufferInv' /\ RwLockInv' /\ SemInv'
  BY DEF Inv, BufferInv, RwLockInv, SemInv, At
<1>7. MySemInv'
  BY DEF Inv, MySemInv, HeldBy0, Holders, Amount
<1>8. SemPcInv'
  BY DEF Inv, SemPcInv, In
<1> QED BY <1>1, <1>2, <1>3, <1>4, <1>5, <1>6, <1>7, <1>8 DEF Inv

LEMMA StepInv ==
    ASSUME Inv, [Next]_vars
    PROVE  Inv'
<1>1. ASSUME NEW t \in Threads, ThreadStep(t) PROVE Inv'
  <2>1. prog' = prog
    BY <1>1, ProgFixed
  <2>2. CASE prog \notin CoveredPrograms
    BY <2>1, <2>2, UncoveredNext
  <2>3. CASE prog \in CoveredPrograms
    <3>0. TypeOK
      BY <2>3 DEF Inv
    <3>1. TypeOK'
      <4>1. prog = "ring_cond" => n \in Workers
        BY NextFact DEF Inv, RingCondInv
      <4> QED BY <1>1, <2>3, <3>0, <4>1, OwnStep, CounterType, TurnType, BufferType
    <3>2. RingMutexInv'
      <4>1. CASE prog = "ring_mutex" BY <1>1, <3>0, <4>1, OwnStep, RingMutexStep DEF Inv
      <4>2. CASE prog # "ring_mutex" BY <2>1, <4>2 DEF RingMutexInv
      <4> QED BY <4>1, <4>2
    <3>3. RingCondInv'
      <4>1. CASE prog = "ring_cond" BY <1>1, <3>0, <4>1, OwnStep, RingCondStep DEF Inv
      <4>2. CASE prog # "ring_cond" BY <2>1, <4>2 DEF RingCondInv
      <4> QED BY <4>1, <4>2
    <3>4. FileLockInv'
      <4>1. CASE prog \in {"add_thread", "add_lockf"} BY <1>1, <3>0, <4>1, OwnStep, FileLockStep DEF Inv
      <4>2. CASE prog \notin {"add_thread", "add_lockf"} BY <2>1, <4>2 DEF FileLockInv
      <4> QED BY <4>1, <4>2
    <3>5. FileSemInv'
      <4>1. CASE prog = "add_sem" BY <1>1, <3>0, <4>1, OwnStep, FileSemStep DEF Inv
      <4>2. CASE prog # "add_sem" BY <2>1, <4>2 DEF FileSemInv
      <4> QED BY <4>1, <4>2
    <3>6. WithLockInv'
      <4>1. CASE prog = "with_lock" BY <1>1, <3>0, <4>1, OwnStep, WithLockStep DEF Inv
      <4>2. CASE prog # "with_lock" BY <2>1, <4>2 DEF WithLockInv
      <4> QED BY <4>1, <4>2
    <3>7. SemPvInv'
      <4>1. CASE prog = "sem_pv" BY <1>1, <3>0, <4>1, OwnStep, SemPvStep DEF Inv
      <4>2. CASE prog # "sem_pv" BY <2>1, <4>2 DEF SemPvInv
      <4> QED BY <4>1, <4>2
    <3>8. WithoutLockInv'
      <4>1. CASE prog = "wo_lock" BY <1>1, <3>0, <4>1, OwnStep, WithoutLockStep DEF Inv
      <4>2. CASE prog # "wo_lock" BY <2>1, <4>2 DEF WithoutLockInv
      <4> QED BY <4>1, <4>2
    <3>9. SpinInv'
      <4>1. CASE prog = "spin_lock" BY <1>1, <3>0, <4>1, OwnStep, SpinStep DEF Inv
      <4>2. CASE prog # "spin_lock" BY <2>1, <4>2 DEF SpinInv
      <4> QED BY <4>1, <4>2
    <3>10. TicketInv'
      <4>1. CASE prog = "tickets" BY <1>1, <3>0, <4>1, OwnStep, TicketStep DEF Inv
      <4>2. CASE prog # "tickets" BY <2>1, <4>2 DEF TicketInv
      <4> QED BY <4>1, <4>2
    <3>11. BufferInv'
      <4>1. CASE prog \in {"pc", "parking"} BY <1>1, <3>0, <4>1, OwnStep, BufferLimitStep DEF Inv
      <4>2. CASE prog \notin {"pc", "parking"} BY <2>1, <4>2 DEF BufferInv
      <4> QED BY <4>1, <4>2
    <3>12. MySemInv'
      <4>1. CASE prog = "mysem" BY <1>1, <3>0, <4>1, OwnStep, MySemStep DEF Inv
      <4>2. CASE prog # "mysem" BY <2>1, <4>2 DEF MySemInv
      <4> QED BY <4>1, <4>2
    <3>13. SemPcInv'
      <4>1. CASE prog = "sem_pc" BY <1>1, <3>0, <4>1, OwnStep, SemPcStep DEF Inv
      <4>2. CASE prog # "sem_pc" BY <2>1, <4>2 DEF SemPcInv
      <4> QED BY <4>1, <4>2
    <3>14. SemInv'
      <4>1. CASE prog = "sem" BY <1>1, <3>0, <4>1, OwnStep, SemStep DEF Inv
      <4>2. CASE prog # "sem" BY <2>1, <4>2 DEF SemInv
      <4> QED BY <4>1, <4>2
    <3>15. RwLockInv'
      <4>1. CASE prog = "rw_lock" BY <1>1, <3>0, <4>1, OwnStep, RwLockStep, ThreadFacts DEF Inv
      <4>2. CASE prog # "rw_lock" BY <2>1, <4>2 DEF RwLockInv
      <4> QED BY <4>1, <4>2
    <3> QED BY <3>1, <3>2, <3>3, <3>4, <3>5, <3>6, <3>7, <3>8, <3>9, <3>10, <3>11, <3>12, <3>13,
               <3>14, <3>15 DEF Inv
  <2> QED BY <2>2, <2>3
<1>2. ASSUME NEW t \in Threads, SpuriousWakeup(t) PROVE Inv'
  <2>1. CASE prog \in CoveredPrograms
    <3>1. TypeOK /\ TypeOK'
      BY <1>2, <2>1, SpuriousType DEF Inv
    <3> QED BY <1>2, <3>1, QuietStep DEF SpuriousWakeup, data, TypeOK
  <2>2. CASE prog \notin CoveredPrograms
    BY <1>2, <2>2, UncoveredNext DEF SpuriousWakeup
  <2> QED BY <2>1, <2>2
<1>3. ASSUME UNCHANGED vars PROVE Inv'
  <2>1. CASE prog \in CoveredPrograms
    <3>1. TypeOK /\ asleep' = asleep
      BY <1>3, <2>1 DEF Inv, vars, locks
    <3> QED BY <1>3, <3>1, QuietStep DEF vars, locks, data, TypeOK
  <2>2. CASE prog \notin CoveredPrograms
    BY <1>3, <2>2, UncoveredNext DEF vars
  <2> QED BY <2>1, <2>2
<1> QED BY <1>1, <1>2, <1>3 DEF Next

LEMMA InitInv ==
    ASSUME Init
    PROVE  Inv
<1> USE ThreadFacts, Constants
<1>0. Rounds \in Int /\ Capacity \in Int /\ 0 \in Int /\ THRNUM - 1 \in Int /\ Cardinality({}) = 0
  BY FS_EmptySet
<1>a. ASSUME NEW v \in Int, NEW start, start = [t \in Threads |-> start[t]], StartAt(start, v),
             sem \in [{"empty", "full"} -> Int]
      PROVE  TypeOK
  <2>1. pc = [t \in Threads |-> pc[t]] /\ asleep = [t \in Threads |-> asleep[t]]
    BY <1>a DEF StartAt
  <2>2. n \in Int /\ m \in Int /\ reg \in [Threads -> Int] /\ left \in [Threads -> Int]
    BY <1>a DEF StartAt
  <2>3. mutex \in [Workers -> Threads \cup {Nobody}] /\ out \in [Numbers -> Nat]
    BY <1>a DEF StartAt
  <2> QED BY <1>a, <2>1, <2>2, <2>3 DEF TypeOK
<1>1. CASE CountersInit
  <2>1. prog \in CounterPrograms /\ prog \notin TurnPrograms /\ prog \notin BufferPrograms
    BY <1>1 DEF CountersInit, CounterPrograms, TurnPrograms, BufferPrograms
  <2>2. PICK k \in IF prog \in {"add_thread", "add_sem", "add_lockf"} THEN 0 .. Size ELSE {Size} :
          StartAt(Created(k, "start"), IF prog = "tickets" THEN Capacity ELSE 0)
    BY <1>1 DEF CountersInit
  <2>3. /\ \A t \in Threads : pc[t] = IF t \in 0 .. k - 1 THEN "start" ELSE "none"
        /\ n = (IF prog = "tickets" THEN Capacity ELSE 0)
        /\ mutex = [w \in Workers |-> Nobody] /\ left = [t \in Threads |-> Rounds]
        /\ k \in 0 .. 3 /\ (prog \notin {"add_thread", "add_sem", "add_lockf"} => k = Size)
    BY <2>2 DEF StartAt, Created, Size
  <2>4. sem["empty"] = 1 /\ sem \in [{"empty", "full"} -> Int]
    BY <1>1 DEF CountersInit
  <2>5. TypeOK
    <3>1. Created(k, "start") = [t \in Threads |-> Created(k, "start")[t]]
      BY DEF Created
    <3>2. (IF prog = "tickets" THEN Capacity ELSE 0) \in Int
      BY <1>0
    <3> QED BY <1>a, <2>2, <2>4, <3>1, <3>2
  <2>6. pc[Main] = "none" /\ \A t \in Threads : pc[t] \in {"start", "none"}
    BY <2>3 DEF Main
  <2>7. FileLockInv /\ FileSemInv
    <3>1. Wrote = {}
      BY <2>6 DEF Wrote, In
    <3>2. prog \in {"add_thread", "add_lockf", "add_sem"} => n = 0 /\ CountInv
      BY <1>0, <2>3, <3>1 DEF CountInv
    <3> QED BY <2>4, <2>6, <3>2 DEF FileLockInv, FileSemInv, In
  <2>8. WithLockInv /\ SemPvInv /\ WithoutLockInv
    <3> SUFFICES ASSUME prog \in {"with_lock", "sem_pv", "wo_lock"}
                 PROVE  WithLockInv /\ SemPvInv /\ WithoutLockInv
      BY DEF WithLockInv, SemPvInv, WithoutLockInv
    <3>1. k = 2 /\ n = 0
      BY <2>3 DEF Size
    <3>2. OnlyFirst(2) /\ pc[0] = "start" /\ pc[1] = "start" /\ left[0] = Rounds /\ left[1] = Rounds
      BY <2>3, <3>1, TwoThreads DEF OnlyFirst
    <3>3. Added(0) = 0 /\ Added(1) = 0
      BY <3>2 DEF Added
    <3> QED BY <2>4, <3>1, <3>2, <3>3, TwoThreads DEF WithLockInv, SemPvInv, WithoutLockInv, LeftInv
  <2>9. SpinInv
    <3> SUFFICES ASSUME prog = "spin_lock" PROVE SpinInv
      BY DEF SpinInv
    <3>1. k = 3 /\ n = 0
      BY <2>3 DEF Size
    <3>2. OnlyFirst(3) /\ pc[0] = "start" /\ pc[1] = "start" /\ pc[2] = "start"
      BY <2>3, <3>1, TwoThreads DEF OnlyFirst
    <3>3. Counted(0) + Counted(1) + Counted(2) = 0 /\ n = 0 * Rounds /\ Most(0) = 0
      BY <3>1, <3>2 DEF Counted, Most
    <3> QED BY <3>2, <3>3, TwoThreads DEF SpinInv
  <2>10. TicketInv
    <3> SUFFICES ASSUME prog = "tickets" PROVE TicketInv
      BY DEF TicketInv
    <3>1. k = 3 /\ n = Capacity /\ mutex[0] = Nobody
      BY <2>3 DEF Size
    <3>2. pc[0] = "start"
      BY <2>3, <3>1
    <3> QED BY <2>6, <3>1, <3>2 DEF TicketInv
  <2>11. RingMutexInv /\ RingCondInv /\ RwLockInv
    BY <2>1 DEF TurnPrograms, RingMutexInv, RingCondInv, RwLockInv
  <2>12. BufferInv /\ MySemInv /\ SemPcInv /\ SemInv
    BY <2>1 DEF BufferPrograms, BufferInv, MySemInv, SemPcInv, SemInv
  <2> QED BY <2>5, <2>7, <2>8, <2>9, <2>10, <2>11, <2>12 DEF Inv
<1>2. CASE TurnsInit
  <2>1. prog \in TurnPrograms /\ prog \notin CounterPrograms /\ prog \notin BufferPrograms
    BY <1>2 DEF TurnsInit, CounterPrograms, TurnPrograms, BufferPrograms
  <2>2. TypeOK
    <3>1. pc = [t \in Threads |-> pc[t]] /\ asleep = [t \in Threads |-> asleep[t]]
      BY <1>2 DEF TurnsInit
    <3>2. n \in Int /\ m \in Int /\ reg \in [Threads -> Int] /\ left \in [Threads -> Int]
      BY <1>2 DEF TurnsInit
    <3>3. mutex \in [Workers -> Threads \cup {Nobody}] /\ out \in [Numbers -> Nat]
      BY <1>2 DEF TurnsInit
    <3>4. sem \in [{"empty", "full"} -> Int]
      BY <1>2 DEF TurnsInit
    <3> QED BY <3>1, <3>2, <3>3, <3>4 DEF TypeOK
  <2>3. m = THRNUM - 1 /\ n = 0 /\ m \in Workers /\ next(m) = 0
    <3>1. THRNUM - 1 \in 0 .. THRNUM - 1 /\ (THRNUM - 1) + 1 = THRNUM
      OBVIOUS
    <3>2. m = THRNUM - 1 /\ n = 0
      BY <1>2 DEF TurnsInit
    <3> QED BY <3>1, <3>2 DEF Workers, next
  <2>4. /\ prog = "ring_mutex" => /\ pc[Main] = "unlock"
                                  /\ \A w \in Workers : pc[w] = "lock" /\ mutex[w] = Main
        /\ prog = "rw_lock" => \A w \in Workers : pc[w] = IF w = 0 THEN "wrlock" ELSE "rdlock"
    BY <1>2 DEF TurnsInit
  <2>5. RingMutexInv /\ RingCondInv /\ RwLockInv
    BY <2>3, <2>4 DEF RingMutexInv, RingCondInv, RwLockInv
  <2>6. /\ FileLockInv /\ FileSemInv /\ WithLockInv /\ SemPvInv /\ WithoutLockInv /\ SpinInv
        /\ TicketInv
    BY <2>1 DEF CounterPrograms, FileLockInv, FileSemInv, WithLockInv, SemPvInv, WithoutLockInv,
       SpinInv, TicketInv
  <2>7. BufferInv /\ MySemInv /\ SemPcInv /\ SemInv
    BY <2>1 DEF BufferPrograms, BufferInv, MySemInv, SemPcInv, SemInv
  <2> QED BY <2>2, <2>5, <2>6, <2>7 DEF Inv
<1>3. CASE BuffersInit
  <2>1. prog \in BufferPrograms /\ prog \notin CounterPrograms /\ prog \notin TurnPrograms
    BY <1>3 DEF BuffersInit, CounterPrograms, TurnPrograms, BufferPrograms
  <2>2. /\ \A t \in Threads : pc[t] = IF t \in 0 .. THRNUM - 1 THEN "start" ELSE "none"
        /\ n = (IF prog \in {"mysem", "parking"} THEN Capacity ELSE 0) /\ m = 0
        /\ sem["empty"] = Capacity /\ sem["full"] = 0 /\ sem \in [{"empty", "full"} -> Int]
    BY <1>3 DEF BuffersInit, StartAt, Created
  <2>3. TypeOK
    <3>1. Created(THRNUM, "start") = [t \in Threads |-> Created(THRNUM, "start")[t]]
      BY DEF Created
    <3>2. (IF prog \in {"mysem", "parking"} THEN Capacity ELSE 0) \in Int
      BY <1>0
    <3> QED BY <1>3, <1>a, <2>2, <3>1, <3>2 DEF BuffersInit
  <2>4. pc[Main] = "none" /\ \A t \in Workers : pc[t] = "start"
    BY <2>2 DEF Main, Workers
  <2>5. BufferInv
    BY <2>2 DEF BufferInv
  <2>6. MySemInv
    <3>1. Holders \ {0} = {} /\ HeldBy0 = 0
      BY <2>4 DEF Holders, HeldBy0
    <3>2. Cardinality(Holders \ {0}) = 0
      BY <1>0, <3>1
    <3> QED BY <2>2, <2>4, <3>1, <3>2 DEF MySemInv
  <2>7. SemPcInv
    <3>1. /\ Producers \cap In({"unlock", "post"}) = {} /\ Consumers \cap In({"lock", "count"}) = {}
          /\ Producers \cap In({"lock", "count"}) = {} /\ Consumers \cap In({"unlock", "post"}) = {}
      BY <2>4 DEF In
    <3>2. /\ Cardinality(Producers \cap In({"unlock", "post"})) = 0
          /\ Cardinality(Consumers \cap In({"lock", "count"})) = 0
          /\ Cardinality(Producers \cap In({"lock", "count"})) = 0
          /\ Cardinality(Consumers \cap In({"unlock", "post"})) = 0
      BY <1>0, <3>1, Zenon
    <3> SUFFICES ASSUME prog = "sem_pc" PROVE SemPcInv
      BY DEF SemPcInv
    <3>3. n = 0 /\ m = 0 /\ Capacity - (0 - 0) = Capacity + 0 + 0 /\ 0 - 0 = 0 + 0 + 0
      BY <2>2
    <3> QED BY <2>2, <2>4, <3>2, <3>3 DEF SemPcInv
  <2>8. SemInv
    <3>1. At("inside") = {}
      BY <2>4 DEF At
    <3> QED BY <1>0, <2>2, <2>4, <3>1 DEF SemInv
  <2>9. /\ FileLockInv /\ FileSemInv /\ WithLockInv /\ SemPvInv /\ WithoutLockInv /\ SpinInv
        /\ TicketInv
    BY <2>1 DEF CounterPrograms, FileLockInv, FileSemInv, WithLockInv, SemPvInv, WithoutLockInv,
       SpinInv, TicketInv
  <2>10. RingMutexInv /\ RingCondInv /\ RwLockInv
    BY <2>1 DEF TurnPrograms, RingMutexInv, RingCondInv, RwLockInv
  <2> QED BY <2>3, <2>5, <2>6, <2>7, <2>8, <2>9, <2>10 DEF Inv
<1>4. CASE PrimesInit
  <2>1. prog \notin CoveredPrograms
    BY <1>4 DEF PrimesInit, PrimePrograms, CoveredPrograms, CounterPrograms, TurnPrograms, BufferPrograms
  <2> QED BY <2>1, Uncovered
<1> QED BY <1>1, <1>2, <1>3, <1>4 DEF Init

LEMMA Invariance == Spec => []Inv
<1>1. Init => Inv
  BY InitInv
<1>2. Inv /\ [Next]_vars => Inv'
  BY StepInv
<1> QED BY <1>1, <1>2, PTL DEF Spec

-----------------------------------------------------------------------------
\* The two rings write their letters in order, whatever the number of threads:
\* the mutexes of abcd_race.c let one thread at a time past its lock, the one
\* after the last writer; num of abcd_race_notice.c is always that thread.
THEOREM LettersWritten == Spec => []LettersInTurn
<1>1. Inv => LettersInTurn
  <2>1. OutOfTurn \notin Workers /\ THRNUM - 1 # OutOfTurn
    BY Constants DEF OutOfTurn, Workers
  <2> QED BY <2>1 DEF Inv, RingMutexInv, RingCondInv, LettersInTurn
<1> QED BY <1>1, Invariance, PTL

\* What the counting programs leave: the files of the three add_race.c are one
\* higher for each thread that finished, the counters with a mutex and with a
\* semaphore are exact, the one without a lock is between 2 and the sum, and
\* the spin lock's is a multiple of Rounds between 3 and 7.
THEOREM CountsFinal == Spec => []FinalCounts
<1>1. ASSUME Inv PROVE FinalCounts
  <2> SUFFICES ASSUME Ended, prog \in CounterPrograms
               PROVE  CASE prog \in {"add_thread", "add_sem", "add_lockf"} ->
                             n = Cardinality(Finished) \/ \E t \in Workers : pc[t] = "exit"
                       [] prog \in {"with_lock", "sem_pv"} -> n = Size * Rounds
                       [] prog = "wo_lock"   -> n \in 2 .. Size * Rounds
                       [] prog = "spin_lock" -> \E k \in Size .. 1 + 2 + 4 : n = k * Rounds
                       [] OTHER -> TRUE
    BY DEF FinalCounts
  <2>0. /\ \A t \in Threads : pc[t] \in {"none", "done", "failed", "exit"}
        /\ n \in Int /\ left \in [Threads -> Int]
    BY <1>1 DEF Ended, Over, Inv, CoveredPrograms, TypeOK
  <2>1. CASE prog \in {"add_thread", "add_sem", "add_lockf"}
    <3>1. Wrote = Finished
      BY <2>0, ThreadFacts DEF Wrote, In, Finished
    <3>2. CountInv
      BY <1>1, <2>1 DEF Inv, FileLockInv, FileSemInv
    <3> QED BY <2>1, <3>1, <3>2 DEF CountInv
  <2>2. CASE prog \in {"with_lock", "sem_pv"}
    <3>1. pc[0] = "done" /\ pc[1] = "done"
      BY <1>1, <2>0, <2>2, TwoThreads DEF Inv, WithLockInv, SemPvInv, LeftInv
    <3>2. n = Rounds + Rounds
      BY <1>1, <2>2, <3>1 DEF Inv, WithLockInv, SemPvInv, Added
    <3>3. Size * Rounds = Rounds + Rounds
      BY <2>2, Constants DEF Size
    <3> QED BY <2>2, <3>2, <3>3
  <2>3. CASE prog = "wo_lock"
    <3>1. pc[0] = "done" /\ pc[1] = "done"
      BY <1>1, <2>0, <2>3, TwoThreads DEF Inv, WithoutLockInv, LeftInv
    <3>2. n >= 2 /\ n <= Rounds + Rounds
      BY <1>1, <2>3, <3>1, TwoThreads DEF Inv, WithoutLockInv, Added
    <3>3. Size * Rounds = Rounds + Rounds
      BY <2>3, Constants DEF Size
    <3>4. n \in 2 .. Size * Rounds
      BY <2>0, <3>2, <3>3, Constants
    <3> QED BY <2>3, <3>4
  <2>4. CASE prog = "spin_lock"
    <3>1. pc[0] = "done" /\ pc[1] = "done" /\ pc[2] = "done"
      BY <1>1, <2>0, <2>4, TwoThreads DEF Inv, SpinInv
    <3>2. Counted(0) + Counted(1) + Counted(2) = 3 /\ Most(3) = 7
      BY <3>1 DEF Counted, Most
    <3>3. PICK k \in Nat : n = k * Rounds /\ 3 <= k /\ k <= 7
      BY <1>1, <2>4, <3>2 DEF Inv, SpinInv
    <3>4. k \in Size .. 1 + 2 + 4
      BY <2>4, <3>3 DEF Size
    <3> QED BY <2>4, <3>3, <3>4
  <2>5. CASE prog = "tickets"
    BY <2>5
  <2> QED BY <2>1, <2>2, <2>3, <2>4, <2>5 DEF CounterPrograms
<1> QED BY <1>1, Invariance, PTL

\* When the ticket office of tickets.c comes to rest every ticket is sold, for
\* any number of tickets; who is left waiting waits for a window that has gone.
THEOREM TicketsAllSold == Spec => []TicketsSold
<1>1. ASSUME Inv PROVE TicketsSold
  <2> SUFFICES ASSUME prog = "tickets", OfficeAtRest
               PROVE  /\ \A i \in 1 .. Capacity : out[i] > 0
                      /\ (\E t \in Workers : pc[t] = "start") => pc[mutex[0]] = "done"
    BY DEF TicketsSold
  <2>0. TicketInv /\ TypeOK
    BY <1>1 DEF Inv, CoveredPrograms, CounterPrograms
  <2>1. \A t \in Workers : pc[t] \in {"none", "done"} \/ (pc[t] = "start" /\ mutex[0] # Nobody)
    BY <2>0, ThreadFacts DEF OfficeAtRest, Over, TicketInv
  <2>2. n <= 0
    BY <2>0, <2>1, ThreadFacts DEF TicketInv
  <2>3. \A i \in 1 .. Capacity : out[i] > 0
    BY <2>0, <2>2, Constants DEF TicketInv, TypeOK
  <2>4. ASSUME NEW t \in Workers, pc[t] = "start" PROVE pc[mutex[0]] = "done"
    <3>1. mutex[0] # Nobody /\ mutex[0] \in Threads
      BY <2>0, <2>1, <2>4, ThreadFacts DEF TypeOK
    <3>2. mutex[0] \in Workers
      BY <2>0, <3>1, ThreadFacts DEF TicketInv
    <3> QED BY <2>0, <2>1, <3>1, <3>2 DEF TicketInv
  <2> QED BY <2>3, <2>4
<1> QED BY <1>1, Invariance, PTL

\* The limits hold for any capacity and any number of threads: the buffer and
\* the parking lot, the counting semaphore, the two semaphores between
\* producers and consumers, the semaphore that lets a few in, the write lock.
THEOREM LimitsKept == Spec => []WithinLimits
<1>1. ASSUME Inv PROVE WithinLimits
  <2>1. prog = "sem_pc" => n - m \in 0 .. Capacity
    <3> SUFFICES ASSUME prog = "sem_pc" PROVE n - m \in 0 .. Capacity
      OBVIOUS
    <3>1. SemPcInv /\ TypeOK
      BY <1>1 DEF Inv, CoveredPrograms, BufferPrograms
    <3> DEFINE pa == Cardinality(Producers \cap In({"unlock", "post"}))
               pb == Cardinality(Producers \cap In({"lock", "count"}))
               ca == Cardinality(Consumers \cap In({"unlock", "post"}))
               cb == Cardinality(Consumers \cap In({"lock", "count"}))
    <3>2. \A S : S \subseteq Workers => Cardinality(S) \in Nat
      BY WorkersFinite, FS_Subset, FS_CardinalityType
    <3>3. pa \in Nat /\ pb \in Nat /\ ca \in Nat /\ cb \in Nat
      BY <3>2 DEF In
    <3>4. /\ sem["empty"] \in Int /\ sem["full"] \in Int /\ sem["empty"] >= 0 /\ sem["full"] >= 0
          /\ n \in Int /\ m \in Int
          /\ n - m = sem["full"] + pa + cb /\ Capacity - (n - m) = sem["empty"] + pb + ca
      BY <3>1 DEF SemPcInv, TypeOK
    <3> HIDE DEF pa, pb, ca, cb
    <3> QED BY <3>3, <3>4, Constants
  <2>2. prog = "sem" => Cardinality(At("inside")) <= Capacity
    <3>1. Cardinality(At("inside")) \in Nat
      BY WorkersFinite, FS_Subset, FS_CardinalityType DEF At
    <3>2. prog = "sem" => sem["empty"] \in Int
      BY <1>1 DEF Inv, CoveredPrograms, BufferPrograms, TypeOK
    <3> QED BY <1>1, <3>1, <3>2, Constants DEF Inv, SemInv
  <2>3. prog = "rw_lock" => At("writing") = {} \/ Cardinality(At("writing") \cup At("reading")) = 1
    <3> SUFFICES ASSUME prog = "rw_lock", At("writing") # {}
                 PROVE  Cardinality(At("writing") \cup At("reading")) = 1
      OBVIOUS
    <3>1. RwLockInv
      BY <1>1 DEF Inv
    <3>2. pc[0] = "writing"
      BY <3>1, ThreadFacts DEF RwLockInv, At
    <3>3. At("writing") \cup At("reading") = {0}
      BY <3>1, <3>2, ThreadFacts DEF RwLockInv, At
    <3> QED BY <3>3, FS_Singleton
  <2>4. prog \in {"pc", "parking"} => n \in 0 .. Capacity
    BY <1>1 DEF Inv, BufferInv
  <2>5. prog = "mysem" => n >= 0 /\ n + HeldBy0 + Cardinality(Holders \ {0}) = Capacity
    BY <1>1 DEF Inv, MySemInv
  <2> QED BY <2>1, <2>2, <2>3, <2>4, <2>5 DEF WithinLimits
<1> QED BY <1>1, Invariance, PTL

-----------------------------------------------------------------------------
\* The searches.  For each, the numbers that have been tested, and which of them
\* the file holds.

SearchTypeOK ==
    /\ pc = [t \in Threads |-> pc[t]]
    /\ n \in Int /\ reg \in [Threads -> Int] /\ out \in [Numbers -> Nat]

\* The numbers of S have been written, each once, and no others.
Only(S) == \A i \in Numbers : out[i] = IF i \in S THEN 1 ELSE 0

\* Who has waited for the threads has waited for all of them.
Joined == \A w \in Workers : Over(w)

Good(i) == IF prog = "thread0" THEN \A j \in LEFT .. i : Found(j) ELSE Found(i)
AloneSet == {i \in LEFT .. reg[Main] - 1 : Good(i)}
AloneInv ==
    prog \in Alone =>
      /\ pc[Main] \in {"test", "done"}
      /\ reg[Main] \in LEFT .. RIGHT + 1 /\ (pc[Main] = "done" => reg[Main] = RIGHT + 1)
      /\ prog = "thread0" => (m = 0 <=> \A j \in LEFT .. reg[Main] - 1 : Found(j))
      /\ Only(AloneSet)

ByOneSet == {i \in 2 .. RIGHT : Prime(i) /\ pc[0] \in {"test", "done"} /\ i < reg[0]}
ByOneInv ==
    prog = "by_one" =>
      /\ pc[Main] \in {"join", "done"} /\ pc[0] \in {"start", "test", "done", "failed"}
      /\ \A w \in Workers : w # 0 => pc[w] = "none"
      /\ pc[0] \in {"test", "done"} => reg[0] >= 3 /\ reg[0] % 2 = 1
      /\ pc[0] = "done" => reg[0] > RIGHT
      /\ pc[Main] = "done" => Joined
      /\ Only(ByOneSet)

\* The children 0, 1, ... have been forked up to the parent's number.
Forked(points) ==
    \A w \in Workers : IF LEFT + w < reg[Main] THEN pc[w] \in points ELSE pc[w] = "none"

ForkSet == {i \in LEFT .. RIGHT : Found(i) /\ pc[i - LEFT] \in {"sleep", "done"}}
ForkInv ==
    prog \in PerNumber =>
      /\ RIGHT - LEFT < THRNUM
      /\ pc[Main] \in {"fork", "forked", "done", "failed"}
      /\ reg[Main] \in LEFT .. RIGHT + 1
      /\ pc[Main] = "fork" => reg[Main] <= RIGHT
      /\ pc[Main] \in {"forked", "done"} => reg[Main] = RIGHT + 1
      /\ Forked({"test", "sleep", "done"})
      /\ \A w \in Workers : pc[w] = "test" => reg[w] = LEFT + w
      /\ prog = "thread3" /\ pc[Main] = "done" => Joined
      /\ Only(ForkSet)

\* The child that tests number i.
Child(i) == (i - LEFT) % N
StrideSet ==
    {i \in LEFT .. RIGHT : Found(i) /\ pc[Child(i)] \in {"test", "done"} /\ i < reg[Child(i)]}
StrideInv ==
    prog = "thread4" =>
      /\ pc[Main] \in {"fork", "forked", "done", "failed"}
      /\ reg[Main] \in LEFT .. LEFT + N
      /\ pc[Main] = "fork" => reg[Main] < LEFT + N
      /\ pc[Main] \in {"forked", "done"} => reg[Main] = LEFT + N
      /\ Forked({"test", "done"})
      /\ \A w \in Workers : pc[w] \in {"test", "done"} => reg[w] >= LEFT + w /\ Child(reg[w]) = w
      /\ \A w \in Workers : pc[w] = "done" => reg[w] > RIGHT
      /\ pc[Main] = "done" => Joined
      /\ Only(StrideSet)

Lies(i, w) == i \in left_of(w) .. right(w)
RangeSet ==
    {i \in 3 .. RIGHT : Prime(i) /\ \E w \in Workers :
        Lies(i, w) /\ pc[w] \in {"test", "done"} /\ i < reg[w]}
RangeInv ==
    prog = "by_four" =>
      /\ pc[Main] \in {"join", "cat", "done"}
      /\ \A w \in Workers :
           /\ pc[w] \in {"start", "test", "done", "failed"}
           /\ pc[w] \in {"test", "done"} => reg[w] >= left_of(w) /\ reg[w] % 2 = 1
           /\ pc[w] = "done" => reg[w] > right(w)
      /\ pc[Main] \in {"cat", "done"} => Joined
      /\ pc[Main] = "done" => m = Cardinality({i \in Numbers : out[i] > 0})
      /\ Only(RangeSet)

\* Thread w has a number to test, and no other thread has it.
Has(w) == pc[w] \in {"unlock", "test"}
Apart  == \A w, v \in Workers : Has(w) /\ Has(v) /\ reg[w] = reg[v] => w = v

\* Of the numbers below last, those that are not waiting to be tested.
TestedBelow(last) ==
    {i \in LEFT .. RIGHT : Prime(i) /\ i < last /\ \A w \in Workers : Has(w) => reg[w] # i}

SecondInv ==
    prog = "second" =>
      /\ pc[Main] \in {"join", "done"} /\ n >= 0
      /\ \A w \in Workers :
           /\ pc[w] \in {"start", "claim", "unlock", "test", "done"}
           /\ Has(w) => reg[w] \in LEFT .. LEFT + n - 1
           /\ pc[w] = "done" => LEFT + n > RIGHT
      /\ Apart
      /\ pc[Main] = "done" => Joined
      /\ Only(TestedBelow(LEFT + n))

\* main has put the numbers below Handed into num.
Handed == IF pc[Main] \in {"unlock", "more"} THEN reg[Main] + 1 ELSE reg[Main]
PoolInv ==
    prog \in {"pool_busy", "pool_notice"} =>
      /\ pc[Main] \in {"lock", "look", "unlock", "more", "join", "done"}
      /\ reg[Main] \in LEFT .. RIGHT + 1
      /\ pc[Main] = "more" => reg[Main] <= RIGHT
      /\ pc[Main] \in {"join", "done"} \/ (pc[Main] = "unlock" /\ reg[Main] > RIGHT) => n = -1
      /\ n \in {-1, 0} \/ (n \in LEFT .. RIGHT /\ n < Handed)
      /\ n = -1 => reg[Main] = RIGHT + 1
      /\ \A w \in Workers :
           /\ pc[w] \in {"start", "look", "unlock", "test", "done"}
           /\ Has(w) => reg[w] \in LEFT .. RIGHT /\ reg[w] < Handed /\ reg[w] # n
      /\ Apart
      /\ pc[Main] = "done" => Joined
      /\ Only(TestedBelow(Handed) \ {n})

PrimesInv ==
    /\ prog \in PrimePrograms => SearchTypeOK
    /\ AloneInv /\ ByOneInv /\ ForkInv /\ StrideInv /\ RangeInv /\ SecondInv /\ PoolInv

-----------------------------------------------------------------------------
\* The loops of the programs find the primes.

LEMMA DivMod ==
    ASSUME NEW a \in Nat, NEW b \in Nat \ {0}
    PROVE  /\ a \div b \in Nat /\ a % b \in 0 .. b - 1
           /\ a = b * (a \div b) + (a % b)
  BY SMT
LEMMA Product ==
    ASSUME NEW a \in Nat, NEW b \in Nat, NEW c \in Nat, b <= c
    PROVE  a * b <= a * c /\ a * b \in Nat /\ a * c \in Nat
  BY SMT
LEMMA Multiple ==
    ASSUME NEW a \in Nat \ {0}, NEW b \in Nat
    PROVE  (a * b) % a = 0
  BY SMT
LEMMA Cofactor ==
    ASSUME NEW i \in Nat, NEW j \in 2 .. i - 1, i % j = 0
    PROVE  \E k \in 2 .. i - 1 : i = j * k /\ i = k * j /\ i % k = 0
<1> DEFINE k == i \div j
<1>1. k \in Nat /\ i = j * k
  BY DivMod
<1> HIDE DEF k
<1>2. k # 0 /\ k # 1
  BY <1>1
<1>3. k < i
  BY <1>1, <1>2
<1>4. i = k * j
  BY <1>1
<1>5. i % k = 0
  BY <1>1, <1>2, <1>4, Multiple
<1> QED BY <1>1, <1>2, <1>3, <1>4, <1>5

LEMMA HalfFact ==
    ASSUME NEW i \in Nat, i >= 2
    PROVE  mark_to_half(i) <=> Prime(i)
<1>1. ASSUME NEW j \in 2 .. i - 1, i % j = 0 PROVE j \in 2 .. i \div 2
  <2>1. PICK k \in 2 .. i - 1 : i = j * k
    BY <1>1, Cofactor
  <2>2. j * 2 <= j * k
    BY Product
  <2> QED BY <2>1, <2>2
<1>2. 2 .. i \div 2 \subseteq 2 .. i - 1
  OBVIOUS
<1>3. \A j \in 2 .. i - 1 : i % j = 0 => j \in 2 .. i \div 2
  BY <1>1
<1>4. i > 1
  OBVIOUS
<1> QED BY <1>2, <1>3, <1>4, Zenon DEF mark_to_half, Prime

LEMMA BelowHalfFact ==
    ASSUME NEW i \in Nat, i >= 2
    PROVE  mark_below_half(i) <=> Prime(i) \/ i = 4
<1>1. ASSUME NEW j \in 2 .. i - 1, i % j = 0, i # 4 PROVE \E k \in 2 .. i \div 2 - 1 : i % k = 0
  <2>1. PICK k \in 2 .. i - 1 : i = j * k /\ i % k = 0
    BY <1>1, Cofactor
  <2>2. j * 2 <= j * k /\ (k >= 3 => j * 3 <= j * k)
    BY Product
  <2>3. CASE j \in 2 .. i \div 2 - 1
    BY <1>1, <2>3
  <2>4. CASE j \notin 2 .. i \div 2 - 1
    <3>1. k = 2
      BY <2>1, <2>2, <2>4
    <3>2. i >= 6
      BY <1>1, <2>1, <3>1
    <3> QED BY <2>1, <3>1, <3>2
  <2> QED BY <2>3, <2>4
<1>2. 2 .. i \div 2 - 1 \subseteq 2 .. i - 1
  OBVIOUS
<1>3. CASE i = 4
  BY <1>3 DEF mark_below_half
<1>4. CASE i # 4
  BY <1>1, <1>2, <1>4, SMTT(30) DEF mark_below_half, Prime
<1> QED BY <1>3, <1>4

LEMMA RootDivisor ==
    ASSUME NEW i \in Nat, NEW j \in 2 .. i - 1, i % j = 0
    PROVE  \E k \in 2 .. i - 1 : k * k <= i /\ i % k = 0
<1>1. PICK k \in 2 .. i - 1 : i = j * k /\ i = k * j /\ i % k = 0
  BY Cofactor
<1>2. CASE j <= k
  <2>1. j * j <= j * k
    BY <1>2, Product
  <2> QED BY <1>1, <2>1
<1>3. CASE k <= j
  <2>1. k * k <= k * j
    BY <1>3, Product
  <2> QED BY <1>1, <2>1
<1> QED BY <1>2, <1>3

LEMMA RootFact ==
    ASSUME NEW i \in Nat, i >= 2
    PROVE  mark_to_root(i) <=> Prime(i)
<1>1. ASSUME NEW j \in 2 .. i, j * j <= i PROVE j \in 2 .. i - 1
  <2>1. j # i \/ i * 2 <= i * i
    BY Product
  <2> QED BY <1>1, <2>1
<1>2. ASSUME NEW j \in 2 .. i - 1, i % j = 0, mark_to_root(i) PROVE FALSE
  <2>1. PICK k \in 2 .. i - 1 : k * k <= i /\ i % k = 0
    BY <1>2, RootDivisor
  <2>2. k \in 2 .. i
    OBVIOUS
  <2> QED BY <1>2, <2>1, <2>2, Zenon DEF mark_to_root
<1>3. i > 1
  OBVIOUS
<1>4. ASSUME Prime(i) PROVE mark_to_root(i)
  BY <1>1, <1>4, Zenon DEF mark_to_root, Prime
<1> QED BY <1>2, <1>3, <1>4, Zenon DEF Prime

LEMMA OddRootFact ==
    ASSUME NEW i \in Int
    PROVE  mark_odd_to_root(i) <=> Prime(i)
<1>1. CASE i < 2
  BY <1>1 DEF mark_odd_to_root, Prime
<1>2. CASE i = 2
  BY <1>2 DEF mark_odd_to_root, Prime
<1>3. CASE i > 2 /\ i % 2 = 0
  <2>1. 2 \in 2 .. i - 1
    BY <1>3
  <2>2. ~Prime(i)
    BY <1>3, <2>1 DEF Prime
  <2>3. mark_odd_to_root(i) = FALSE
    BY <1>3 DEF mark_odd_to_root
  <2> QED BY <2>2, <2>3
<1>4. CASE i > 2 /\ i % 2 = 1
  <2>1. mark_odd_to_root(i) <=> \A j \in {k \in 3 .. i : k % 2 = 1 /\ k * k <= i} : i % j # 0
    BY <1>4 DEF mark_odd_to_root
  <2>2. ASSUME NEW j \in 2 .. i - 1, i % j = 0
        PROVE  \E k \in 3 .. i : k % 2 = 1 /\ k * k <= i /\ i % k = 0
    <3>1. PICK k \in 2 .. i - 1 : k * k <= i /\ i % k = 0
      <4>1. i \in Nat
        BY <1>4
      <4> QED BY <2>2, <4>1, RootDivisor, Zenon
    <3>2. PICK q \in Nat : i = k * q
      BY <1>4, <3>1, DivMod
    <3>3. k % 2 = 1
      <4>1. SUFFICES ASSUME k % 2 = 0 PROVE FALSE
        OBVIOUS
      <4>2. PICK h \in Nat : k = 2 * h
        BY <4>1
      <4>3. i = 2 * (h * q) /\ h * q \in Nat
        BY <3>2, <4>2
      <4> QED BY <1>4, <4>3
    <3>4. k \in 3 .. i
      BY <1>4, <3>3
    <3> QED BY <3>1, <3>3, <3>4, Zenon
  <2>3. ASSUME NEW j \in 3 .. i, j * j <= i PROVE j \in 2 .. i - 1
    <3>1. j # i \/ i * 2 <= i * i
      BY <1>4, Product
    <3> QED BY <2>3, <3>1
  <2>4. i > 1
    BY <1>4
  <2> QED BY <2>1, <2>2, <2>3, <2>4, Zenon DEF Prime
<1> QED BY <1>1, <1>2, <1>3, <1>4

-----------------------------------------------------------------------------
\* The searches: what their steps have in common.

LEMMA SearchFacts ==
    /\ LEFT \in Nat /\ RIGHT \in Nat /\ 2 <= LEFT /\ LEFT <= RIGHT
    /\ N \in Nat /\ N >= 2 /\ N = THRNUM - 1
    /\ \A i \in Int : 0 <= i /\ i <= RIGHT => i \in Numbers
    /\ Numbers \subseteq Int
<1>1. LEFT \in Nat /\ RIGHT \in Nat /\ THRNUM \in Nat /\ THRNUM >= 3
  BY ThreadsAssumption
<1>2. 2 <= LEFT /\ LEFT <= RIGHT
  BY <1>1, ThreadsAssumption, PrimesAssumption
<1> QED BY <1>1, <1>2 DEF N, Numbers

Moved(t, a, b) ==
    /\ pc[t] = a /\ pc'[t] = b /\ \A u \in Threads : u # t => pc'[u] = pc[u]
    /\ prog' = prog
Quiet == UNCHANGED <<n, m, reg, out>>

LEMMA Moves ==
    ASSUME SearchTypeOK, NEW t \in Threads, NEW a, NEW b, Step(t, a, b)
    PROVE  Moved(t, a, b) /\ pc' = [u \in Threads |-> pc'[u]]
  BY DEF SearchTypeOK, Step, Moved

LEMMA QuietMoves ==
    ASSUME SearchTypeOK, NEW t \in Threads, NEW a, NEW b
    PROVE  /\ Goto(t, a, b) => Moved(t, a, b) /\ Quiet /\ SearchTypeOK'
           /\ \A k : Lock(t, a, b, k) \/ Unlock(t, a, b, k) => Moved(t, a, b) /\ Quiet /\ SearchTypeOK'
           /\ \A c : CondWait(t, a, b, c) => Moved(t, a, b) /\ Quiet /\ SearchTypeOK'
<1>1. ASSUME Step(t, a, b), Quiet PROVE Moved(t, a, b) /\ Quiet /\ SearchTypeOK'
  BY <1>1, Moves DEF SearchTypeOK, Quiet
<1> QED BY <1>1 DEF Goto, Lock, Unlock, CondWait, Quiet, locks, data

\* A number that was not written before is tested.
Tested(t, mark, following) ==
    /\ out' = IF mark THEN Written(reg[t]) ELSE out
    /\ reg' = [reg EXCEPT ![t] = following]

LEMMA TestMoves ==
    ASSUME SearchTypeOK, NEW t \in Threads, NEW a, NEW b, NEW mark, NEW f \in Int, Test(t, a, b, mark, f)
    PROVE  Moved(t, a, b) /\ SearchTypeOK' /\ Tested(t, mark, f) /\ UNCHANGED <<n, m>>
<1>1. Written(reg[t]) \in [Numbers -> Nat]
  BY DEF SearchTypeOK, Written
<1> QED BY <1>1, Moves DEF SearchTypeOK, Test, Tested

LEMMA WrittenOnce ==
    ASSUME SearchTypeOK, NEW r \in Numbers, NEW mark \in BOOLEAN, NEW S, NEW T, Only(S), r \notin S,
           out' = IF mark THEN Written(r) ELSE out,
           \A i \in Numbers : i \in T <=> i \in S \/ (i = r /\ mark)
    PROVE  \A i \in Numbers : out'[i] = IF i \in T THEN 1 ELSE 0
<1> SUFFICES ASSUME NEW i \in Numbers PROVE out'[i] = IF i \in T THEN 1 ELSE 0
  OBVIOUS
<1>1. out[i] = (IF i \in S THEN 1 ELSE 0) /\ out[r] = 0
  BY DEF Only
<1>2. CASE mark /\ i = r
  BY <1>1, <1>2 DEF SearchTypeOK, Written
<1>3. CASE ~mark \/ i # r
  <2>1. out'[i] = out[i]
    BY <1>3 DEF SearchTypeOK, Written
  <2> QED BY <1>1, <1>3, <2>1
<1> QED BY <1>2, <1>3

LEMMA AddedOnce ==
    ASSUME SearchTypeOK, NEW r \in Numbers, NEW S, NEW T, Only(S), r \notin S, out' = Written(r),
           \A i \in Numbers : i \in T <=> i \in S \/ i = r
    PROVE  \A i \in Numbers : out'[i] = IF i \in T THEN 1 ELSE 0
<1>1. PICK mark \in BOOLEAN : mark
  OBVIOUS
<1>2. out' = IF mark THEN Written(r) ELSE out
  BY <1>1
<1>3. \A i \in Numbers : i \in T <=> i \in S \/ (i = r /\ mark)
  BY <1>1
<1> QED BY <1>2, <1>3, WrittenOnce

LEMMA FoundOnce ==
    ASSUME SearchTypeOK, NEW r \in Numbers, NEW S, NEW T, Only(S), r \notin S,
           out' = IF Found(r) THEN Written(r) ELSE out,
           \A i \in Numbers : i \in T <=> i \in S \/ (i = r /\ Found(r))
    PROVE  \A i \in Numbers : out'[i] = IF i \in T THEN 1 ELSE 0
<1>1. PICK mark \in BOOLEAN : mark <=> Found(r)
  OBVIOUS
<1>2. out' = IF mark THEN Written(r) ELSE out
  BY <1>1
<1>3. \A i \in Numbers : i \in T <=> i \in S \/ (i = r /\ mark)
  BY <1>1
<1> QED BY <1>2, <1>3, WrittenOnce

LEMMA PrimeOnce ==
    ASSUME SearchTypeOK, NEW r \in Numbers, NEW S, NEW T, Only(S), r \notin S,
           out' = IF Prime(r) THEN Written(r) ELSE out,
           \A i \in Numbers : i \in T <=> i \in S \/ (i = r /\ Prime(r))
    PROVE  \A i \in Numbers : out'[i] = IF i \in T THEN 1 ELSE 0
<1>1. PICK mark \in BOOLEAN : mark <=> Prime(r)
  OBVIOUS
<1>2. out' = IF mark THEN Written(r) ELSE out
  BY <1>1
<1>3. \A i \in Numbers : i \in T <=> i \in S \/ (i = r /\ mark)
  BY <1>1
<1> QED BY <1>2, <1>3, WrittenOnce

LEMMA MarkFacts ==
    ASSUME NEW i \in Int, i >= 2
    PROVE  /\ mark_to_half(i) <=> Prime(i)
           /\ mark_to_root(i) <=> Prime(i)
           /\ mark_odd_to_root(i) <=> Prime(i)
           /\ mark_below_half(i) <=> Prime(i) \/ i = 4
           /\ prog \in BelowHalf => (mark_below_half(i) <=> Found(i))
           /\ prog \notin BelowHalf => (Prime(i) <=> Found(i))
<1>1. i \in Nat
  OBVIOUS
<1> QED BY <1>1, HalfFact, RootFact, OddRootFact, BelowHalfFact DEF Found

LEMMA JoinMoves ==
    ASSUME SearchTypeOK, NEW a, NEW b, Join(a, b), a \notin {"none", "done", "failed", "exit"}
    PROVE  Moved(Main, a, b) /\ Quiet /\ SearchTypeOK' /\ Joined /\ Joined'
<1>1. Moved(Main, a, b) /\ Quiet /\ SearchTypeOK' /\ Joined
  BY QuietMoves, ThreadFacts DEF Join, Joined
<1> QED BY <1>1, ThreadFacts DEF Moved, Joined, Over

-----------------------------------------------------------------------------
\* One process.

LEMMA AloneSearch ==
    ASSUME SearchTypeOK, AloneInv, prog \in Alone, AloneStep
    PROVE  SearchTypeOK' /\ AloneInv'
<1> DEFINE r == reg[Main]
<1> USE SearchFacts, ThreadFacts
<1>0. /\ r \in LEFT .. RIGHT + 1 /\ pc[Main] \in {"test", "done"} /\ Only(AloneSet)
      /\ AloneSet = {i \in LEFT .. r - 1 : Good(i)}
      /\ prog = "thread0" => (m = 0 <=> \A j \in LEFT .. r - 1 : Found(j))
  BY DEF AloneInv, AloneSet
<1>1. CASE r > RIGHT /\ Goto(Main, "test", "done")
  <2>1. Moved(Main, "test", "done") /\ Quiet /\ SearchTypeOK'
    BY <1>1, QuietMoves
  <2>2. AloneSet' = AloneSet /\ \A j : Found(j)' <=> Found(j)
    BY <2>1 DEF AloneSet, Moved, Quiet, Good, Found
  <2>3. Only(AloneSet)'
    BY <1>0, <2>1, <2>2 DEF Only, Quiet
  <2>4. r = RIGHT + 1 /\ reg' = reg /\ m' = m /\ prog' = prog /\ pc'[Main] = "done"
    BY <1>0, <1>1, <2>1 DEF Quiet, Moved
  <2> QED BY <1>0, <2>1, <2>2, <2>3, <2>4 DEF AloneInv
<1>2. ASSUME NEW mark \in BOOLEAN, r <= RIGHT, mark <=> Good(r), Moved(Main, "test", "test"),
             SearchTypeOK', Tested(Main, mark, r + 1), prog = "thread0" => (m' = 0 <=> mark)
      PROVE  AloneInv'
  <2>1. reg'[Main] = r + 1 /\ out' = IF mark THEN Written(r) ELSE out
    BY <1>2 DEF Tested, SearchTypeOK
  <2>2. prog' = prog /\ pc'[Main] = "test" /\ \A j : Good(j)' <=> Good(j)
    BY <1>2 DEF Moved, Good, Found
  <2>3. AloneSet' = {i \in LEFT .. r : Good(i)}
    <3>1. r + 1 - 1 = r
      BY <1>0
    <3>2. reg'[Main] - 1 = r
      BY <1>0, <2>1, <3>1
    <3> QED BY <2>2, <3>2, Zenon DEF AloneSet
  <2>4. \A i \in Numbers : i \in AloneSet' <=> i \in AloneSet \/ (i = r /\ mark)
    BY <1>0, <1>2, <2>3
  <2>5. r \in Numbers /\ r \notin AloneSet
    BY <1>0, <1>2
  <2>6. Only(AloneSet)'
    <3>1. \A i \in Numbers : out'[i] = IF i \in AloneSet' THEN 1 ELSE 0
      BY <1>0, <1>2, <2>1, <2>4, <2>5, WrittenOnce
    <3> QED BY <3>1 DEF Only
  <2>7. prog' = "thread0" => (m' = 0 <=> \A j \in LEFT .. r : Found(j)')
    BY <1>2, <2>2 DEF Good, Found
  <2>8. r + 1 \in LEFT .. RIGHT + 1 /\ (r + 1) - 1 = r
    BY <1>0, <1>2
  <2> QED BY <2>1, <2>2, <2>6, <2>7, <2>8 DEF AloneInv
<1>3. CASE prog = "primer0" /\ primer0
  <2>1. r <= RIGHT /\ Test(Main, "test", "test", mark_odd_to_root(r), r + 1)
    BY <1>3 DEF primer0
  <2>2. mark_odd_to_root(r) <=> Found(r)
    BY <1>0, <1>3, MarkFacts DEF BelowHalf
  <2>3. r + 1 \in Int
    BY <1>0
  <2>4. Test(Main, "test", "test", Found(r), r + 1)
    BY <2>1, <2>2 DEF Test
  <2>5. Moved(Main, "test", "test") /\ SearchTypeOK' /\ Tested(Main, Found(r), r + 1)
    BY <2>3, <2>4, TestMoves
  <2>6. Found(r) \in BOOLEAN
    BY DEF Found, Prime
  <2>7. Found(r) <=> Good(r)
    BY <1>3 DEF Good
  <2> QED BY <1>2, <1>3, <2>1, <2>5, <2>6, <2>7
<1>4. CASE prog = "primer1" /\ primer1
  <2>1. r <= RIGHT /\ Test(Main, "test", "test", mark_below_half(r), r + 1)
    BY <1>4 DEF primer1
  <2>2. mark_below_half(r) <=> Found(r)
    BY <1>0, <1>4, MarkFacts DEF BelowHalf
  <2>3. r + 1 \in Int
    BY <1>0
  <2>4. Test(Main, "test", "test", Found(r), r + 1)
    BY <2>1, <2>2 DEF Test
  <2>5. Moved(Main, "test", "test") /\ SearchTypeOK' /\ Tested(Main, Found(r), r + 1)
    BY <2>3, <2>4, TestMoves
  <2>6. Found(r) \in BOOLEAN
    BY DEF Found, Prime
  <2>7. Found(r) <=> Good(r)
    BY <1>4 DEF Good
  <2> QED BY <1>2, <1>4, <2>1, <2>5, <2>6, <2>7
<1>5. CASE prog = "thread0" /\ thread0
  <2>1. /\ r <= RIGHT /\ Step(Main, "test", "test")
        /\ m' = (IF mark_below_half(r) THEN m ELSE 1) /\ n' = n
        /\ out' = (IF m' = 0 THEN Written(r) ELSE out) /\ reg' = [reg EXCEPT ![Main] = @ + 1]
    BY <1>5 DEF thread0
  <2>2. mark_below_half(r) <=> Found(r)
    BY <1>0, <1>5, MarkFacts DEF BelowHalf
  <2>3. m' = 0 <=> \A j \in LEFT .. r : Found(j)
    BY <1>0, <1>5, <2>1, <2>2
  <2>4. Written(r) \in [Numbers -> Nat]
    BY DEF SearchTypeOK, Written
  <2>5. SearchTypeOK'
    BY <1>0, <2>1, <2>4, Moves DEF SearchTypeOK
  <2>6. Tested(Main, m' = 0, r + 1) /\ Moved(Main, "test", "test")
    BY <2>1, Moves DEF Tested
  <2>7. (m' = 0) \in BOOLEAN
    OBVIOUS
  <2>8. (m' = 0) <=> Good(r)
    BY <1>5, <2>3 DEF Good
  <2>9. AloneInv'
    BY <1>2, <2>1, <2>5, <2>6, <2>7, <2>8
  <2> QED BY <2>5, <2>9
<1> QED BY <1>1, <1>3, <1>4, <1>5 DEF AloneStep

\* A thread that moves on was not over, so main has not joined it.
LEMMA NotJoined ==
    ASSUME NEW t \in Workers, pc[t] \notin {"none", "done", "failed", "exit"}
    PROVE  ~Joined
  BY DEF Joined, Over

LEMMA SmallPrimes == Prime(2) /\ Prime(3) /\ \A i \in Int : Prime(i) => i >= 2 /\ (i = 2 \/ i % 2 = 1)
<1>1. ASSUME NEW i \in Int, Prime(i) PROVE i >= 2 /\ (i = 2 \/ i % 2 = 1)
  <2>1. i >= 2
    BY <1>1 DEF Prime
  <2>2. i # 2 => 2 \in 2 .. i - 1
    BY <2>1
  <2>3. i # 2 => i % 2 # 0
    BY <1>1, <2>2 DEF Prime
  <2> QED BY <2>1, <2>3
<1>2. Prime(2) /\ Prime(3)
  BY DEF Prime
<1> QED BY <1>1, <1>2

LEMMA ByOneSearch ==
    ASSUME SearchTypeOK, ByOneInv, prog = "by_one", NEW t \in Threads,
           IF t = Main THEN Join("join", "done") ELSE primer_by_one(t)
    PROVE  SearchTypeOK' /\ ByOneInv'
<1> USE SearchFacts, ThreadFacts
<1>0. /\ pc[Main] \in {"join", "done"} /\ pc[0] \in {"start", "test", "done", "failed"}
      /\ \A w \in Workers : w # 0 => pc[w] = "none"
      /\ pc[0] \in {"test", "done"} => reg[0] \in Int /\ reg[0] >= 3 /\ reg[0] % 2 = 1
      /\ pc[0] = "done" => reg[0] > RIGHT
      /\ pc[Main] = "done" => Joined
      /\ Only(ByOneSet)
  BY DEF ByOneInv, SearchTypeOK
<1>1. CASE t = Main
  <2>1. Moved(Main, "join", "done") /\ Quiet /\ SearchTypeOK' /\ Joined'
    BY <1>1, JoinMoves
  <2>2. ByOneSet' = ByOneSet
    BY <2>1 DEF Moved, Quiet, ByOneSet
  <2>3. Only(ByOneSet)'
    BY <1>0, <2>1, <2>2 DEF Only, Quiet
  <2>4. UNCHANGED <<n, m, reg, out>> /\ prog' = prog /\ pc'[Main] = "done" /\ pc'[0] = pc[0]
        /\ \A w \in Workers : pc'[w] = pc[w]
    BY <2>1 DEF Moved, Quiet
  <2> QED BY <1>0, <2>1, <2>3, <2>4 DEF ByOneInv
<1>2. CASE t # Main /\ primer_by_one(t)
  <2>0. t = 0 /\ pc[0] \in {"start", "test"} /\ pc[Main] = "join"
    <3>1. pc[t] \in {"start", "test"}
      BY <1>2 DEF primer_by_one, Goto, Step, Test
    <3>2. t = 0
      BY <1>0, <1>2, <3>1
    <3> QED BY <1>0, <3>1, <3>2, NotJoined
  <2>1. ASSUME NEW b \in {"test", "done", "failed"}, Moved(0, pc[0], b), SearchTypeOK',
               b # "failed" => reg'[0] >= 3 /\ reg'[0] % 2 = 1,
               b = "done" => reg'[0] > RIGHT, Only(ByOneSet)'
        PROVE  ByOneInv'
    <3>1. /\ pc'[0] = b /\ pc'[Main] = "join" /\ \A w \in Workers : w # 0 => pc'[w] = "none"
          /\ prog' = prog
      BY <1>0, <2>0, <2>1 DEF Moved
    <3> QED BY <2>1, <3>1 DEF ByOneInv
  <2>2. CASE Goto(t, "start", "failed")
    <3>1. Moved(0, "start", "failed") /\ Quiet /\ SearchTypeOK'
      BY <2>0, <2>2, QuietMoves
    <3>2. \A i \in Numbers : i \in ByOneSet' <=> i \in ByOneSet
      BY <3>1 DEF ByOneSet, Moved
    <3>3. Only(ByOneSet)'
      BY <1>0, <3>1, <3>2 DEF Only, Quiet
    <3>4. pc[0] = "start"
      BY <3>1 DEF Moved
    <3> QED BY <2>1, <3>1, <3>3, <3>4
  <2>3. CASE Step(t, "start", "test") /\ out' = Written(2) /\ reg' = [reg EXCEPT ![t] = 3]
             /\ UNCHANGED <<locks, n, m, left>>
    <3>1. Moved(0, "start", "test") /\ pc' = [u \in Threads |-> pc'[u]] /\ reg'[0] = 3
      BY <2>0, <2>3, Moves DEF SearchTypeOK
    <3>2. SearchTypeOK'
      <4>1. Written(2) \in [Numbers -> Nat]
        BY DEF SearchTypeOK, Written
      <4>2. reg' \in [Threads -> Int] /\ n' = n /\ out' = Written(2)
        BY <2>3 DEF SearchTypeOK
      <4> QED BY <3>1, <4>1, <4>2 DEF SearchTypeOK
    <3>3. pc[0] = "start" /\ pc'[0] = "test"
      BY <3>1 DEF Moved
    <3>4. \A i \in Numbers : i \in ByOneSet' <=> i \in ByOneSet \/ i = 2
      BY <3>1, <3>3, SmallPrimes DEF ByOneSet
    <3>5. 2 \in Numbers /\ 2 \notin ByOneSet
      BY <3>3 DEF ByOneSet
    <3>6. \A i \in Numbers : out'[i] = IF i \in ByOneSet' THEN 1 ELSE 0
      <4>1. out' = Written(2) /\ Only(ByOneSet)
        BY <1>0, <2>3
      <4> HIDE SearchFacts, ThreadFacts
      <4> QED BY <3>4, <3>5, <4>1, AddedOnce, Zenon
    <3>7. Only(ByOneSet)'
      BY <3>6 DEF Only
    <3> QED BY <2>1, <3>1, <3>2, <3>3, <3>7
  <2>4. CASE reg[t] <= RIGHT /\ Test(t, "test", "test", mark_odd_to_root(reg[t]), reg[t] + 2)
    <3> DEFINE r == reg[0]
    <3>0. pc[0] = "test"
      BY <2>0, <2>4 DEF Test, Step
    <3>1. r \in Int /\ r >= 3 /\ r % 2 = 1 /\ r <= RIGHT /\ r + 2 \in Int
      BY <1>0, <2>0, <2>4, <3>0
    <3>2. mark_odd_to_root(r) <=> Prime(r)
      BY <3>1, MarkFacts
    <3>3. Test(0, "test", "test", Prime(r), r + 2)
      BY <2>0, <2>4, <3>2 DEF Test
    <3>4. Moved(0, "test", "test") /\ SearchTypeOK' /\ Tested(0, Prime(r), r + 2)
      BY <3>1, <3>3, TestMoves
    <3>5. reg'[0] = r + 2 /\ out' = (IF Prime(r) THEN Written(r) ELSE out) /\ pc'[0] = "test"
      BY <3>4 DEF Tested, SearchTypeOK, Moved
    <3>6. \A i \in Numbers : i \in ByOneSet' <=> i \in ByOneSet \/ (i = r /\ Prime(r))
      <4>1. \A i \in Int : Prime(i) /\ i < r + 2 => i < r \/ i = r
        BY <3>1, SmallPrimes
      <4>2. \A i \in Int : i < r \/ i = r => i < r + 2
        BY <3>1
      <4>3. r \in 2 .. RIGHT
        BY <3>1
      <4> QED BY <3>0, <3>5, <4>1, <4>2, <4>3 DEF ByOneSet
    <3>7. r \in Numbers /\ r \notin ByOneSet
      BY <3>1 DEF ByOneSet
    <3>8. \A i \in Numbers : out'[i] = IF i \in ByOneSet' THEN 1 ELSE 0
      BY <1>0, <3>5, <3>6, <3>7, PrimeOnce
    <3>9. Only(ByOneSet)'
      BY <3>8 DEF Only
    <3>10. r + 2 >= 3 /\ (r + 2) % 2 = 1
      BY <3>1
    <3> QED BY <2>1, <3>0, <3>4, <3>5, <3>9, <3>10
  <2>5. CASE reg[t] > RIGHT /\ Goto(t, "test", "done")
    <3>1. Moved(0, "test", "done") /\ Quiet /\ SearchTypeOK'
      BY <2>0, <2>5, QuietMoves
    <3>2. \A i \in Numbers : i \in ByOneSet' <=> i \in ByOneSet
      BY <3>1 DEF ByOneSet, Moved, Quiet
    <3>3. Only(ByOneSet)'
      BY <1>0, <3>1, <3>2 DEF Only, Quiet
    <3>4. pc[0] = "test" /\ reg' = reg
      BY <3>1 DEF Moved, Quiet
    <3> QED BY <1>0, <2>0, <2>1, <2>5, <3>1, <3>3, <3>4
  <2> QED BY <1>2, <2>2, <2>3, <2>4, <2>5 DEF primer_by_one
<1> QED BY <1>1, <1>2

-----------------------------------------------------------------------------
\* A process per number.

LEMMA ForkMoves ==
    ASSUME SearchTypeOK, NEW c \in Workers, NEW last \in BOOLEAN, Fork(c, last)
    PROVE  /\ SearchTypeOK' /\ prog' = prog /\ out' = out
           /\ pc[Main] = "fork" /\ pc[c] = "none" /\ pc'[c] = "test"
           /\ pc'[Main] = (IF last THEN "forked" ELSE "fork")
           /\ reg'[c] = reg[Main] /\ reg'[Main] = reg[Main] + 1
           /\ \A u \in Workers : u # c => pc'[u] = pc[u] /\ reg'[u] = reg[u]
<1> USE ThreadFacts
<1>1. /\ pc[Main] = "fork" /\ pc[c] = "none" /\ prog' = prog /\ out' = out /\ n' = n
      /\ pc' = [pc EXCEPT ![c] = "test", ![Main] = IF last THEN "forked" ELSE "fork"]
      /\ reg' = [reg EXCEPT ![c] = reg[Main], ![Main] = reg[Main] + 1]
  BY DEF SearchTypeOK, Fork
<1>2. /\ pc' = [u \in Threads |-> pc'[u]] /\ pc'[c] = "test"
      /\ pc'[Main] = (IF last THEN "forked" ELSE "fork")
      /\ \A u \in Workers : u # c => pc'[u] = pc[u]
  BY <1>1 DEF SearchTypeOK
<1>3. /\ reg' \in [Threads -> Int] /\ reg'[c] = reg[Main] /\ reg'[Main] = reg[Main] + 1
      /\ \A u \in Workers : u # c => reg'[u] = reg[u]
  <2>1. reg[Main] \in Int /\ reg[Main] + 1 \in Int
    BY DEF SearchTypeOK
  <2> QED BY <1>1, <2>1 DEF SearchTypeOK
<1> QED BY <1>1, <1>2, <1>3 DEF SearchTypeOK

LEMMA ForkSearch ==
    ASSUME SearchTypeOK, ForkInv, prog \in {"thread1", "thread3"}, NEW t \in Threads,
           thread1(t) \/ thread3(t), prog = "thread1" => thread1(t), prog = "thread3" => thread3(t)
    PROVE  SearchTypeOK' /\ ForkInv'
<1> USE SearchFacts, ThreadFacts
<1> DEFINE r == reg[Main]
<1>0. /\ RIGHT - LEFT < THRNUM
      /\ pc[Main] \in {"fork", "forked", "done", "failed"}
      /\ r \in LEFT .. RIGHT + 1
      /\ pc[Main] = "fork" => r <= RIGHT
      /\ pc[Main] \in {"forked", "done"} => r = RIGHT + 1
      /\ \A w \in Workers : IF LEFT + w < r THEN pc[w] \in {"test", "sleep", "done"} ELSE pc[w] = "none"
      /\ \A w \in Workers : pc[w] = "test" => reg[w] = LEFT + w
      /\ prog = "thread3" /\ pc[Main] = "done" => Joined
      /\ Only(ForkSet)
  BY DEF ForkInv, PerNumber, Forked
<1>a. \A i \in LEFT .. RIGHT : i - LEFT \in Workers /\ i = LEFT + (i - LEFT)
  BY <1>0, Constants DEF Workers
<1>1. CASE t = r - LEFT /\ Fork(t, r = RIGHT)
  <2>1. t \in Workers /\ (r = RIGHT) \in BOOLEAN
    BY <1>0, <1>1 DEF Main
  <2>2. /\ SearchTypeOK' /\ prog' = prog /\ out' = out
        /\ pc[Main] = "fork" /\ pc[t] = "none" /\ pc'[t] = "test"
        /\ pc'[Main] = (IF r = RIGHT THEN "forked" ELSE "fork")
        /\ reg'[t] = r /\ reg'[Main] = r + 1
        /\ \A u \in Workers : u # t => pc'[u] = pc[u] /\ reg'[u] = reg[u]
    BY <1>1, <2>1, ForkMoves
  <2>3. \A i \in Numbers : i \in ForkSet' <=> i \in ForkSet
    BY <1>a, <2>2 DEF ForkSet, Found
  <2>4. Only(ForkSet)'
    BY <1>0, <2>2, <2>3 DEF Only
  <2>5. \A w \in Workers : IF LEFT + w < r + 1 THEN pc'[w] \in {"test", "sleep", "done"} ELSE pc'[w] = "none"
    <3> SUFFICES ASSUME NEW w \in Workers
                 PROVE IF LEFT + w < r + 1 THEN pc'[w] \in {"test", "sleep", "done"} ELSE pc'[w] = "none"
      OBVIOUS
    <3>1. CASE w = t
      BY <1>0, <1>1, <2>2, <3>1
    <3>2. CASE w # t
      <4>1. LEFT + w < r + 1 <=> LEFT + w < r
        BY <1>0, <1>1, <3>2
      <4> QED BY <1>0, <2>2, <3>2, <4>1
    <3> QED BY <3>1, <3>2
  <2>6. \A w \in Workers : pc'[w] = "test" => reg'[w] = LEFT + w
    BY <1>0, <1>1, <2>2
  <2>7. r <= RIGHT /\ r + 1 \in LEFT .. RIGHT + 1 /\ (r # RIGHT => r + 1 <= RIGHT)
    BY <1>0, <2>2
  <2>8. (r = RIGHT => r + 1 = RIGHT + 1) /\ pc'[Main] \in {"fork", "forked"}
    BY <2>2
  <2> QED BY <2>2, <2>4, <2>5, <2>6, <2>7, <2>8 DEF ForkInv, PerNumber, Forked
<1>2. CASE t = Main /\ (Goto(t, "fork", "failed") \/ Goto(t, "forked", "done") \/ Join("forked", "done"))
  <2>1. /\ Moved(Main, "fork", "failed") \/ (Moved(Main, "forked", "done") /\ (Joined' \/ ~Join("forked", "done")))
        /\ Quiet /\ SearchTypeOK'
    BY <1>2, QuietMoves, JoinMoves
  <2>2. /\ \A w \in Workers : pc'[w] = pc[w]
        /\ reg' = reg /\ out' = out /\ prog' = prog
        /\ (pc[Main] = "fork" /\ pc'[Main] = "failed") \/ (pc[Main] = "forked" /\ pc'[Main] = "done")
    BY <2>1 DEF Moved, Quiet
  <2>3. \A i \in Numbers : i \in ForkSet' <=> i \in ForkSet
    BY <1>a, <2>2 DEF ForkSet, Found
  <2>4. Only(ForkSet)'
    BY <1>0, <2>2, <2>3 DEF Only
  <2>5. prog = "thread3" /\ pc'[Main] = "done" => Joined'
    <3> SUFFICES ASSUME prog = "thread3", pc'[Main] = "done" PROVE Joined'
      OBVIOUS
    <3>1. thread3(t) /\ pc[Main] = "forked"
      BY <2>2
    <3>2. Join("forked", "done")
      BY <1>2, <3>1 DEF thread3, Fork, Goto, Step
    <3> QED BY <3>2, JoinMoves
  <2> QED BY <1>0, <2>1, <2>2, <2>4, <2>5 DEF ForkInv, PerNumber, Forked
<1>3. ASSUME t # Main, NEW b \in {"sleep", "done"}, Test(t, "test", b, mark_below_half(reg[t]), reg[t])
      PROVE  SearchTypeOK' /\ ForkInv'
  <2> DEFINE i0 == reg[t]
  <2>0. t \in Workers /\ pc[t] = "test"
    BY <1>3 DEF Test, Step
  <2>1. i0 = LEFT + t /\ i0 \in Int /\ i0 \in LEFT .. RIGHT /\ i0 \in Numbers /\ i0 - LEFT = t
    BY <1>0, <2>0
  <2>2. mark_below_half(i0) <=> Found(i0)
    BY <2>1, MarkFacts DEF BelowHalf
  <2>3. Test(t, "test", b, Found(i0), i0)
    BY <1>3, <2>2 DEF Test
  <2>4. Moved(t, "test", b) /\ SearchTypeOK' /\ Tested(t, Found(i0), i0)
    BY <2>1, <2>3, TestMoves
  <2>5. /\ out' = (IF Found(i0) THEN Written(i0) ELSE out) /\ reg' = reg /\ prog' = prog
        /\ pc'[t] = b /\ pc'[Main] = pc[Main] /\ \A w \in Workers : w # t => pc'[w] = pc[w]
    BY <1>3, <2>4 DEF Tested, SearchTypeOK, Moved
  <2>6. \A i \in Numbers : i \in ForkSet' <=> i \in ForkSet \/ (i = i0 /\ Found(i0))
    <3> SUFFICES ASSUME NEW i \in Numbers PROVE i \in ForkSet' <=> i \in ForkSet \/ (i = i0 /\ Found(i0))
      OBVIOUS
    <3>1. i \in ForkSet' <=> i \in LEFT .. RIGHT /\ Found(i) /\ pc'[i - LEFT] \in {"sleep", "done"}
      BY <2>5 DEF ForkSet, Found
    <3>2. i \in ForkSet <=> i \in LEFT .. RIGHT /\ Found(i) /\ pc[i - LEFT] \in {"sleep", "done"}
      BY DEF ForkSet
    <3>3. CASE i = i0
      <4>1. i \in LEFT .. RIGHT /\ pc'[i - LEFT] \in {"sleep", "done"}
        BY <1>3, <2>1, <2>5, <3>3
      <4>2. i \notin ForkSet
        BY <2>0, <2>1, <3>2, <3>3
      <4> QED BY <3>1, <3>3, <4>1, <4>2, Zenon
    <3>4. CASE i # i0 /\ i \in LEFT .. RIGHT
      <4>1. i - LEFT # t /\ i - LEFT \in Workers
        BY <1>a, <2>1, <3>4
      <4> QED BY <2>5, <3>1, <3>2, <3>4, <4>1
    <3> QED BY <2>1, <3>1, <3>2, <3>3, <3>4
  <2>7. i0 \notin ForkSet
    BY <2>0, <2>1 DEF ForkSet
  <2>8. \A i \in Numbers : out'[i] = IF i \in ForkSet' THEN 1 ELSE 0
    BY <1>0, <2>1, <2>5, <2>6, <2>7, FoundOnce
  <2>9. Only(ForkSet)'
    BY <2>8 DEF Only
  <2>10. prog = "thread3" => pc[Main] # "done"
    BY <1>0, <2>0, NotJoined
  <2>11. /\ \A w \in Workers : IF LEFT + w < r THEN pc'[w] \in {"test", "sleep", "done"} ELSE pc'[w] = "none"
         /\ \A w \in Workers : pc'[w] = "test" => reg[w] = LEFT + w
    BY <1>0, <2>0, <2>5
  <2> QED BY <1>0, <2>4, <2>5, <2>9, <2>10, <2>11 DEF ForkInv, PerNumber, Forked
<1>4. CASE Goto(t, "sleep", "done")
  <2>1. Moved(t, "sleep", "done") /\ Quiet /\ SearchTypeOK'
    BY <1>4, QuietMoves
  <2>2. t \in Workers
    BY <1>0, <2>1 DEF Moved
  <2>3. /\ pc[t] = "sleep" /\ pc'[t] = "done" /\ reg' = reg /\ out' = out /\ prog' = prog
        /\ pc'[Main] = pc[Main] /\ \A w \in Workers : w # t => pc'[w] = pc[w]
    BY <2>1, <2>2 DEF Moved, Quiet
  <2>4. \A i \in Numbers : i \in ForkSet' <=> i \in ForkSet
    BY <1>a, <2>3 DEF ForkSet, Found
  <2>5. Only(ForkSet)'
    BY <1>0, <2>3, <2>4 DEF Only
  <2>6. prog = "thread3" => pc[Main] # "done"
    BY <1>0, <2>2, <2>3, NotJoined
  <2>7. /\ \A w \in Workers : IF LEFT + w < r THEN pc'[w] \in {"test", "sleep", "done"} ELSE pc'[w] = "none"
        /\ \A w \in Workers : pc'[w] = "test" => reg[w] = LEFT + w
    BY <1>0, <2>3
  <2> QED BY <1>0, <2>1, <2>3, <2>5, <2>6, <2>7 DEF ForkInv, PerNumber, Forked
<1>5. CASE prog = "thread1"
  BY <1>1, <1>2, <1>3, <1>4, <1>5 DEF thread1
<1>6. CASE prog = "thread3"
  BY <1>1, <1>2, <1>3, <1>6 DEF thread3
<1> QED BY <1>5, <1>6

-----------------------------------------------------------------------------
\* Every N-th number.

LEMMA ModAdd ==
    ASSUME NEW a \in Nat, NEW b \in Nat \ {0}
    PROVE  (a + b) % b = a % b
<1>1. PICK q \in Nat, c \in 0 .. b - 1 : a = b * q + c /\ c = a % b
  BY DivMod
<1>2. PICK p \in Nat, d \in 0 .. b - 1 : a + b = b * p + d /\ d = (a + b) % b
  <2>1. a + b \in Nat
    OBVIOUS
  <2> QED BY <2>1, DivMod
<1>3. b * (q + 1) = b * q + b /\ b * p + b = b * (p + 1)
  OBVIOUS
<1>4. ~(q + 2 <= p)
  <2>1. b * (q + 2) = b * q + b + b
    OBVIOUS
  <2>2. q + 2 <= p => b * (q + 2) <= b * p
    BY Product
  <2> QED BY <1>1, <1>2, <2>1, <2>2
<1>5. ~(p + 1 <= q + 1)
  <2>1. p + 1 <= q + 1 => b * (p + 1) <= b * (q + 1)
    BY Product
  <2> QED BY <1>1, <1>2, <1>3, <2>1
<1>6. p = q + 1
  BY <1>4, <1>5
<1> QED BY <1>1, <1>2, <1>3, <1>6, SMTT(30)

LEMMA ChildFact ==
    ASSUME NEW i \in Int, i >= LEFT
    PROVE  /\ Child(i) \in Workers /\ Child(i) < N /\ LEFT + Child(i) <= i
           /\ Child(i + N) = Child(i)
<1> USE SearchFacts
<1> DEFINE a == i - LEFT
<1>1. a \in Nat /\ (i + N) - LEFT = a + N /\ a + N \in Nat
  OBVIOUS
<1> HIDE DEF a
<1>2. /\ a \div N \in Nat /\ a % N \in 0 .. N - 1 /\ a = N * (a \div N) + (a % N)
  <2>1. N \in Nat \ {0}
    OBVIOUS
  <2> QED BY <1>1, <2>1, DivMod, Zenon
<1>3. N * (a \div N) >= 0
  BY <1>2, Product
<1>4. a % N <= a
  BY <1>1, <1>2, <1>3
<1>5. (a + N) % N = a % N
  BY <1>1, ModAdd
<1> QED BY <1>1, <1>2, <1>4, <1>5, Constants DEF Child, Workers, a

\* Two numbers of one child are N apart.
LEMMA SameChild ==
    ASSUME NEW i \in Int, NEW j \in Int, LEFT <= i, i <= j, j < i + N, Child(i) = Child(j)
    PROVE  i = j
<1> USE SearchFacts
<1> DEFINE a == i - LEFT
           b == j - LEFT
<1>1. a \in Nat /\ b \in Nat /\ a <= b /\ b < a + N
  OBVIOUS
<1>2. a % N = b % N
  BY DEF Child
<1> HIDE DEF a, b
<1>3. /\ a \div N \in Nat /\ a % N \in 0 .. N - 1 /\ a = N * (a \div N) + (a % N)
      /\ b \div N \in Nat /\ b % N \in 0 .. N - 1 /\ b = N * (b \div N) + (b % N)
  <2>1. N \in Nat \ {0}
    OBVIOUS
  <2> QED BY <1>1, <2>1, DivMod, Zenon
<1>4. PICK p \in Nat, q \in Nat, c \in Nat : a = N * p + c /\ b = N * q + c
  BY <1>2, <1>3
<1>5. N * q - N * p < N /\ N * q >= N * p
  BY <1>1, <1>4
<1>6. N * p + N = N * (p + 1)
  OBVIOUS
<1>7. ~(p + 1 <= q)
  BY <1>5, <1>6, Product
<1>8. ~(q + 1 <= p)
  <2>1. N * q + N = N * (q + 1)
    OBVIOUS
  <2> QED BY <1>5, <2>1, Product
<1>9. a = b
  BY <1>4, <1>7, <1>8
<1> QED BY <1>9 DEF a, b

LEMMA StrideSearch ==
    ASSUME SearchTypeOK, StrideInv, prog = "thread4", NEW t \in Threads, thread4(t)
    PROVE  SearchTypeOK' /\ StrideInv'
<1> USE SearchFacts, ThreadFacts
<1> DEFINE r == reg[Main]
           Live == {"test", "done"}
<1>0. /\ pc[Main] \in {"fork", "forked", "done", "failed"}
      /\ r \in LEFT .. LEFT + N
      /\ pc[Main] = "fork" => r < LEFT + N
      /\ pc[Main] \in {"forked", "done"} => r = LEFT + N
      /\ \A w \in Workers : IF LEFT + w < r THEN pc[w] \in Live ELSE pc[w] = "none"
      /\ \A w \in Workers : pc[w] \in Live => reg[w] \in Int /\ reg[w] >= LEFT + w /\ Child(reg[w]) = w
      /\ \A w \in Workers : pc[w] = "done" => reg[w] > RIGHT
      /\ pc[Main] = "done" => Joined
      /\ Only(StrideSet)
  BY DEF StrideInv, Forked, SearchTypeOK
<1>a. \A i \in LEFT .. RIGHT : Child(i) \in Workers /\ LEFT + Child(i) <= i
  BY ChildFact
<1>1. CASE t = r - LEFT /\ Fork(t, t = N - 1)
  <2>1. t \in Workers /\ (t = N - 1) \in BOOLEAN
    BY <1>0, <1>1 DEF Main
  <2>2. /\ SearchTypeOK' /\ prog' = prog /\ out' = out
        /\ pc[Main] = "fork" /\ pc[t] = "none" /\ pc'[t] = "test"
        /\ pc'[Main] = (IF t = N - 1 THEN "forked" ELSE "fork")
        /\ reg'[t] = r /\ reg'[Main] = r + 1
        /\ \A u \in Workers : u # t => pc'[u] = pc[u] /\ reg'[u] = reg[u]
    BY <1>1, <2>1, ForkMoves
  <2>3. \A i \in Numbers : i \in StrideSet' <=> i \in StrideSet
    <3> SUFFICES ASSUME NEW i \in LEFT .. RIGHT
                 PROVE  pc'[Child(i)] \in Live /\ i < reg'[Child(i)] <=> pc[Child(i)] \in Live /\ i < reg[Child(i)]
      BY <2>2 DEF StrideSet, Found, Child
    <3>1. CASE Child(i) = t
      <4>1. ~(i < r)
        BY <1>0, <1>1, <1>a, <3>1
      <4> QED BY <2>2, <3>1, <4>1
    <3>2. CASE Child(i) # t
      BY <1>a, <2>2, <3>2
    <3> QED BY <3>1, <3>2
  <2>4. Only(StrideSet)'
    BY <1>0, <2>2, <2>3 DEF Only
  <2>5. \A w \in Workers : IF LEFT + w < r + 1 THEN pc'[w] \in Live ELSE pc'[w] = "none"
    <3> SUFFICES ASSUME NEW w \in Workers
                 PROVE IF LEFT + w < r + 1 THEN pc'[w] \in Live ELSE pc'[w] = "none"
      OBVIOUS
    <3>1. CASE w = t
      BY <1>0, <1>1, <2>2, <3>1
    <3>2. CASE w # t
      <4>1. LEFT + w < r + 1 <=> LEFT + w < r
        BY <1>0, <1>1, <3>2
      <4> QED BY <1>0, <2>2, <3>2, <4>1
    <3> QED BY <3>1, <3>2
  <2>6. Child(r) = t /\ r >= LEFT + t
    <3>1. r \in Int /\ t \in Nat /\ t < N /\ r = LEFT + t
      BY <1>0, <1>1, <2>1, <2>2
    <3>2. t % N = t
      BY <3>1
    <3> QED BY <1>1, <3>1, <3>2 DEF Child
  <2>7. \A w \in Workers : pc'[w] \in Live => reg'[w] >= LEFT + w /\ Child(reg'[w]) = w
    BY <1>0, <2>2, <2>6
  <2>8. r + 1 \in LEFT .. LEFT + N /\ (t # N - 1 => r + 1 < LEFT + N) /\ (t = N - 1 => r + 1 = LEFT + N)
    BY <1>0, <1>1, <2>2
  <2>9. pc'[Main] \in {"fork", "forked"} /\ \A w \in Workers : pc'[w] = "done" => reg'[w] > RIGHT
    BY <1>0, <2>2
  <2> QED BY <2>2, <2>4, <2>5, <2>7, <2>8, <2>9 DEF StrideInv, Forked, Child
<1>2. CASE t = Main /\ (Goto(t, "fork", "failed") \/ Join("forked", "done"))
  <2>1. /\ Moved(Main, "fork", "failed") \/ (Moved(Main, "forked", "done") /\ Joined')
        /\ Quiet /\ SearchTypeOK'
    BY <1>2, QuietMoves, JoinMoves
  <2>2. /\ \A w \in Workers : pc'[w] = pc[w]
        /\ reg' = reg /\ out' = out /\ prog' = prog
        /\ (pc[Main] = "fork" /\ pc'[Main] = "failed") \/ (pc[Main] = "forked" /\ pc'[Main] = "done" /\ Joined')
    BY <2>1 DEF Moved, Quiet
  <2>3. \A i \in Numbers : i \in StrideSet' <=> i \in StrideSet
    BY <1>a, <2>2 DEF StrideSet, Found, Child
  <2>4. Only(StrideSet)'
    BY <1>0, <2>2, <2>3 DEF Only
  <2> QED BY <1>0, <2>1, <2>2, <2>4 DEF StrideInv, Forked, Child
<1>3. CASE t # Main /\ reg[t] <= RIGHT /\ Test(t, "test", "test", mark_below_half(reg[t]), reg[t] + N)
  <2> DEFINE i0 == reg[t]
  <2>0. t \in Workers /\ pc[t] = "test"
    BY <1>3 DEF Test, Step
  <2>1. i0 \in LEFT .. RIGHT /\ i0 \in Int /\ i0 + N \in Int /\ i0 \in Numbers /\ Child(i0) = t /\ i0 >= LEFT + t
    BY <1>0, <1>3, <2>0
  <2>2. mark_below_half(i0) <=> Found(i0)
    BY <2>1, MarkFacts DEF BelowHalf
  <2>3. Test(t, "test", "test", Found(i0), i0 + N)
    BY <1>3, <2>2 DEF Test
  <2>4. Moved(t, "test", "test") /\ SearchTypeOK' /\ Tested(t, Found(i0), i0 + N)
    BY <2>1, <2>3, TestMoves
  <2>5. /\ out' = (IF Found(i0) THEN Written(i0) ELSE out) /\ prog' = prog
        /\ reg'[t] = i0 + N /\ \A u \in Threads : u # t => reg'[u] = reg[u]
        /\ \A u \in Threads : pc'[u] = pc[u]
    BY <2>4 DEF Tested, SearchTypeOK, Moved
  <2>6. \A i \in Numbers : i \in StrideSet' <=> i \in StrideSet \/ (i = i0 /\ Found(i0))
    <3> SUFFICES ASSUME NEW i \in LEFT .. RIGHT
                 PROVE  pc'[Child(i)] \in Live /\ i < reg'[Child(i)]
                          <=> (pc[Child(i)] \in Live /\ i < reg[Child(i)]) \/ i = i0
      BY <2>1, <2>5 DEF StrideSet, Found, Child
    <3>1. CASE Child(i) = t
      <4>1. i < i0 + N <=> i < i0 \/ i = i0
        BY <2>1, <3>1, SameChild
      <4> QED BY <2>0, <2>5, <3>1, <4>1
    <3>2. CASE Child(i) # t
      BY <1>a, <2>1, <2>5, <3>2
    <3> QED BY <3>1, <3>2
  <2>7. i0 \notin StrideSet
    BY <2>1 DEF StrideSet
  <2>8. \A i \in Numbers : out'[i] = IF i \in StrideSet' THEN 1 ELSE 0
    BY <1>0, <2>1, <2>5, <2>6, <2>7, FoundOnce
  <2>9. Only(StrideSet)'
    BY <2>8 DEF Only
  <2>10. pc[Main] # "done"
    BY <1>0, <2>0, NotJoined
  <2>11. Child(i0 + N) = t /\ i0 + N >= LEFT + t
    BY <2>1, ChildFact
  <2>12. \A w \in Workers : pc'[w] \in Live => reg'[w] >= LEFT + w /\ Child(reg'[w]) = w
    BY <1>0, <2>5, <2>11
  <2>13. /\ \A w \in Workers : pc'[w] = "done" => reg'[w] > RIGHT
         /\ pc'[Main] = pc[Main] /\ reg'[Main] = r
    BY <1>0, <1>3, <2>0, <2>5
  <2> QED BY <1>0, <2>4, <2>5, <2>9, <2>10, <2>12, <2>13 DEF StrideInv, Forked, Child
<1>4. CASE t # Main /\ reg[t] > RIGHT /\ Goto(t, "test", "done")
  <2>1. Moved(t, "test", "done") /\ Quiet /\ SearchTypeOK'
    BY <1>4, QuietMoves
  <2>2. t \in Workers
    BY <1>4
  <2>3. /\ pc[t] = "test" /\ pc'[t] = "done" /\ reg' = reg /\ out' = out /\ prog' = prog
        /\ pc'[Main] = pc[Main] /\ \A w \in Workers : w # t => pc'[w] = pc[w]
    BY <2>1, <2>2 DEF Moved, Quiet
  <2>4. \A i \in Numbers : i \in StrideSet' <=> i \in StrideSet
    <3>1. \A w \in Workers : pc'[w] \in Live <=> pc[w] \in Live
      BY <2>3
    <3> QED BY <1>a, <2>3, <3>1 DEF StrideSet, Found, Child
  <2>5. Only(StrideSet)'
    BY <1>0, <2>3, <2>4 DEF Only
  <2>6. pc[Main] # "done"
    BY <1>0, <2>2, <2>3, NotJoined
  <2>7. /\ \A w \in Workers : IF LEFT + w < r THEN pc'[w] \in Live ELSE pc'[w] = "none"
        /\ \A w \in Workers : pc'[w] \in Live => reg[w] >= LEFT + w /\ Child(reg[w]) = w
        /\ \A w \in Workers : pc'[w] = "done" => reg[w] > RIGHT
    BY <1>0, <1>4, <2>3
  <2> QED BY <1>0, <2>1, <2>3, <2>5, <2>6, <2>7 DEF StrideInv, Forked, Child
<1> QED BY <1>1, <1>2, <1>3, <1>4 DEF thread4

-----------------------------------------------------------------------------
\* The ranges of primer_by_four.c.

LEMMA Least ==
    ASSUME NEW T, T \subseteq Nat, T # {}
    PROVE  \E x \in T : \A y \in T : x <= y
<1>1. PICK x \in T : \A y \in T : ~(<<y, x>> \in OpToRel(<, Nat))
  BY NatLessThanWellFounded, WFMin
<1>2. ASSUME NEW y \in T PROVE x <= y
  <2>1. ~(<<y, x>> \in OpToRel(<, Nat))
    BY <1>1
  <2>2. ~(y < x)
    BY <2>1, Zenon DEF OpToRel
  <2> QED BY <2>2
<1> QED BY <1>2

LEMMA RightFact ==
    /\ \A w \in Workers : right(w) \in Nat /\ right(w) <= RIGHT
    /\ \A w, v \in Workers : w <= v => right(w) <= right(v)
    /\ THRNUM - 1 \in Workers /\ right(THRNUM - 1) = RIGHT
<1> USE SearchFacts, Constants
<1>0. THRNUM \in Nat \ {0} /\ \A w \in Workers : w + 1 \in Nat /\ w + 1 <= THRNUM
  BY DEF Workers
<1>1. ASSUME NEW w \in Workers, NEW v \in Workers, w <= v PROVE right(w) <= right(v)
  <2>1. (w + 1) * RIGHT <= (v + 1) * RIGHT /\ (w + 1) * RIGHT \in Nat /\ (v + 1) * RIGHT \in Nat
    <3>1. RIGHT * (w + 1) <= RIGHT * (v + 1) /\ RIGHT * (w + 1) \in Nat /\ RIGHT * (v + 1) \in Nat
      BY <1>0, <1>1, Product, ThreadFacts
    <3> QED BY <1>0, <3>1
  <2>2. ASSUME NEW a \in Nat, NEW b \in Nat, a <= b PROVE a \div THRNUM <= b \div THRNUM
    <3>0. PICK p \in Nat, c \in 0 .. THRNUM - 1 : a = THRNUM * p + c /\ p = a \div THRNUM
      BY <1>0, DivMod
    <3>1. PICK q \in Nat, d \in 0 .. THRNUM - 1 : b = THRNUM * q + d /\ q = b \div THRNUM
      BY <1>0, DivMod
    <3>2. q + 1 <= p => THRNUM * (q + 1) <= THRNUM * p
      BY Product
    <3>3. THRNUM * (q + 1) = THRNUM * q + THRNUM
      OBVIOUS
    <3>4. ~(q + 1 <= p)
      BY <2>2, <3>0, <3>1, <3>2, <3>3
    <3> QED BY <3>0, <3>1, <3>4
  <2> QED BY <2>1, <2>2 DEF right
<1>2. THRNUM - 1 \in Workers /\ right(THRNUM - 1) = RIGHT
  <2>1. (THRNUM - 1) + 1 = THRNUM /\ THRNUM - 1 \in Workers
    BY DEF Workers
  <2>2. PICK q \in Nat, d \in 0 .. THRNUM - 1 :
          THRNUM * RIGHT = THRNUM * q + d /\ q = (THRNUM * RIGHT) \div THRNUM
    <3>1. THRNUM * RIGHT \in Nat
      OBVIOUS
    <3> QED BY <1>0, <3>1, DivMod
  <2>3. q + 1 <= RIGHT => THRNUM * (q + 1) <= THRNUM * RIGHT
    BY Product
  <2>4. RIGHT + 1 <= q => THRNUM * (RIGHT + 1) <= THRNUM * q
    BY Product
  <2>5. THRNUM * (q + 1) = THRNUM * q + THRNUM /\ THRNUM * (RIGHT + 1) = THRNUM * RIGHT + THRNUM
    OBVIOUS
  <2>6. q = RIGHT
    BY <2>2, <2>3, <2>4, <2>5
  <2> QED BY <2>1, <2>2, <2>6 DEF right
<1>3. ASSUME NEW w \in Workers PROVE right(w) \in Nat /\ right(w) <= RIGHT
  <2>1. (w + 1) * RIGHT \in Nat
    BY <1>0
  <2>2. right(w) \in Nat
    BY <1>0, <2>1, DivMod DEF right
  <2>3. w <= THRNUM - 1
    BY DEF Workers
  <2> QED BY <1>1, <1>2, <2>2, <2>3
<1> QED BY <1>1, <1>2, <1>3

LEMMA LeftFact ==
    ASSUME NEW w \in Workers
    PROVE  left_of(w) \in Nat /\ left_of(w) >= 1 /\ \A v \in Workers : v < w => right(v) < left_of(w)
<1>1. CASE w = 0
  BY <1>1, ThreadFacts DEF left_of
<1>2. CASE w # 0
  <2>1. w - 1 \in Workers /\ \A v \in Workers : v < w => v <= w - 1
    BY <1>2, Constants DEF Workers
  <2>2. left_of(w) = right(w - 1) + 1
    BY <1>2 DEF left_of
  <2> QED BY <2>1, <2>2, RightFact
<1> QED BY <1>1, <1>2

\* No number lies in two ranges.
LEMMA RangesApart ==
    ASSUME NEW w \in Workers, NEW v \in Workers, NEW i \in Int, Lies(i, w), Lies(i, v)
    PROVE  w = v
<1>1. left_of(w) \in Nat /\ left_of(v) \in Nat /\ right(w) \in Nat /\ right(v) \in Nat
  BY LeftFact, RightFact
<1>2. ~(w < v) /\ ~(v < w)
  BY <1>1, LeftFact DEF Lies
<1> QED BY <1>2, ThreadFacts

\* Every number from 3 on lies in one: the first that does not end before it.
LEMMA RangesCover ==
    ASSUME NEW i \in 3 .. RIGHT
    PROVE  \E w \in Workers : Lies(i, w)
<1> DEFINE S == {w \in Workers : i <= right(w)}
<1>1. S \subseteq Nat /\ S # {}
  <2>1. THRNUM - 1 \in Workers /\ i <= right(THRNUM - 1)
    BY RightFact, SearchFacts
  <2> QED BY <2>1, ThreadFacts
<1>2. PICK w \in S : \A v \in S : w <= v
  BY <1>1, Least
<1>3. CASE w = 0
  BY <1>2, <1>3, RightFact DEF Lies, left_of
<1>4. CASE w # 0
  <2>1. w - 1 \in Workers /\ ~(w <= w - 1)
    BY <1>2, <1>4, Constants DEF Workers
  <2>2. ~(i <= right(w - 1))
    BY <1>2, <2>1
  <2>3. left_of(w) = right(w - 1) + 1
    BY <1>4 DEF left_of
  <2> QED BY <1>2, <2>1, <2>2, <2>3, RightFact DEF Lies
<1> QED BY <1>3, <1>4

LEMMA RangeSearch ==
    ASSUME SearchTypeOK, RangeInv, prog = "by_four", NEW t \in Threads, primer_by_four(t)
    PROVE  SearchTypeOK' /\ RangeInv'
<1> USE SearchFacts, ThreadFacts
<1> DEFINE Live == {"test", "done"}
           Part(w) == /\ pc[w] \in {"start", "test", "done", "failed"}
                      /\ pc[w] \in Live => reg[w] >= left_of(w) /\ reg[w] % 2 = 1
                      /\ pc[w] = "done" => reg[w] > right(w)
<1>0. /\ pc[Main] \in {"join", "cat", "done"} /\ \A w \in Workers : Part(w)
      /\ pc[Main] \in {"cat", "done"} => Joined
      /\ pc[Main] = "done" => m = Cardinality({i \in Numbers : out[i] > 0})
      /\ Only(RangeSet) /\ reg \in [Threads -> Int]
  BY DEF RangeInv, SearchTypeOK
<1>a. \A w \in Workers : left_of(w) \in Nat /\ left_of(w) >= 1 /\ right(w) \in Nat /\ right(w) <= RIGHT
  BY LeftFact, RightFact
<1>1. ASSUME t \in Workers, NEW a \in {"start", "test"}, NEW b \in {"test", "done", "failed"},
             Moved(t, a, b), SearchTypeOK', \A u \in Threads : u # t => reg'[u] = reg[u],
             b \in Live => reg'[t] >= left_of(t) /\ reg'[t] % 2 = 1, b = "done" => reg'[t] > right(t),
             Only(RangeSet)'
      PROVE  RangeInv'
  <2>1. pc[Main] = "join"
    BY <1>0, <1>1, NotJoined DEF Moved
  <2>2. pc'[Main] = "join" /\ prog' = prog /\ pc'[t] = b
    BY <1>1, <2>1 DEF Moved
  <2>3. \A w \in Workers :
           /\ pc'[w] \in {"start", "test", "done", "failed"}
           /\ pc'[w] \in Live => reg'[w] >= left_of(w) /\ reg'[w] % 2 = 1
           /\ pc'[w] = "done" => reg'[w] > right(w)
    <3> SUFFICES ASSUME NEW w \in Workers
                 PROVE  /\ pc'[w] \in {"start", "test", "done", "failed"}
                        /\ pc'[w] \in Live => reg'[w] >= left_of(w) /\ reg'[w] % 2 = 1
                        /\ pc'[w] = "done" => reg'[w] > right(w)
      OBVIOUS
    <3>1. CASE w = t
      BY <1>1, <2>2, <3>1
    <3>2. CASE w # t
      <4>1. pc'[w] = pc[w] /\ reg'[w] = reg[w] /\ Part(w)
        BY <1>0, <1>1, <3>2 DEF Moved
      <4> QED BY <4>1
    <3> QED BY <3>1, <3>2
  <2> QED BY <1>1, <2>2, <2>3 DEF RangeInv, left_of, right
<1>2. CASE t # Main /\ Goto(t, "start", "failed")
  <2>1. Moved(t, "start", "failed") /\ Quiet /\ SearchTypeOK'
    BY <1>2, QuietMoves
  <2>2. reg' = reg /\ out' = out /\ pc[t] = "start" /\ pc'[t] = "failed"
        /\ \A w \in Workers : w # t => pc'[w] = pc[w]
    BY <2>1 DEF Moved, Quiet
  <2>3. \A w \in Workers : pc'[w] \in Live <=> pc[w] \in Live
    BY <2>2
  <2>4. \A i \in Numbers : i \in RangeSet' <=> i \in RangeSet
    BY <2>2, <2>3 DEF RangeSet, Lies, left_of, right
  <2>5. Only(RangeSet)'
    BY <1>0, <2>2, <2>4 DEF Only
  <2> QED BY <1>1, <1>2, <2>1, <2>2, <2>5
<1>3. CASE t # Main /\ Set(t, "start", "test", odd(left_of(t)))
  <2> DEFINE r == odd(left_of(t))
  <2>1. r \in Int /\ r >= left_of(t) /\ r % 2 = 1 /\ r <= left_of(t) + 1 /\ t \in Workers
        /\ (r # left_of(t) => left_of(t) % 2 = 0)
    BY <1>3, <1>a DEF odd
  <2>2. Step(t, "start", "test") /\ reg' = [reg EXCEPT ![t] = r] /\ n' = n /\ out' = out
    BY <1>3 DEF Set
  <2>3. Moved(t, "start", "test") /\ pc' = [u \in Threads |-> pc'[u]]
    BY <2>2, Moves
  <2>4. reg'[t] = r /\ reg' \in [Threads -> Int] /\ \A u \in Threads : u # t => reg'[u] = reg[u]
    BY <1>0, <2>1, <2>2
  <2>5. SearchTypeOK'
    BY <2>2, <2>3, <2>4 DEF SearchTypeOK
  <2>6. pc[t] = "start" /\ pc'[t] = "test" /\ \A w \in Workers : w # t => pc'[w] = pc[w]
    BY <2>3 DEF Moved
  <2>7. \A i \in Numbers : i \in RangeSet' <=> i \in RangeSet
    <3> SUFFICES ASSUME NEW i \in 3 .. RIGHT, Prime(i), NEW w \in Workers, Lies(i, w)
                 PROVE  pc'[w] \in Live /\ i < reg'[w] <=> pc[w] \in Live /\ i < reg[w]
      BY DEF RangeSet, Lies, left_of, right
    <3>1. CASE w = t
      <4>1. i >= left_of(t) /\ i % 2 = 1
        BY <1>a, <2>1, <3>1, SmallPrimes DEF Lies
      <4>2. ~(i < r)
        BY <1>a, <2>1, <4>1
      <4> QED BY <2>4, <2>6, <3>1, <4>2
    <3>2. CASE w # t
      BY <2>4, <2>6, <3>2
    <3> QED BY <3>1, <3>2
  <2>8. Only(RangeSet)'
    BY <1>0, <2>2, <2>7 DEF Only
  <2> QED BY <1>1, <2>1, <2>3, <2>4, <2>5, <2>8
<1>4. CASE t # Main /\ reg[t] <= right(t) /\ Test(t, "test", "test", mark_odd_to_root(reg[t]), reg[t] + 2)
  <2> DEFINE r == reg[t]
  <2>0. t \in Workers /\ pc[t] = "test"
    BY <1>4 DEF Test, Step
  <2>1. r \in Int /\ r >= left_of(t) /\ r % 2 = 1 /\ r <= right(t) /\ r + 2 \in Int /\ r \in Numbers /\ r <= RIGHT
    <3>1. r \in Int /\ r >= left_of(t) /\ r % 2 = 1
      BY <1>0, <2>0
    <3> QED BY <1>4, <1>a, <2>0, <3>1
  <2>2. mark_odd_to_root(r) <=> Prime(r)
    BY <2>1, OddRootFact
  <2>3. Test(t, "test", "test", Prime(r), r + 2)
    BY <1>4, <2>2 DEF Test
  <2>4. Moved(t, "test", "test") /\ SearchTypeOK' /\ Tested(t, Prime(r), r + 2)
    BY <2>1, <2>3, TestMoves
  <2>5. /\ out' = (IF Prime(r) THEN Written(r) ELSE out)
        /\ reg'[t] = r + 2 /\ \A u \in Threads : u # t => reg'[u] = reg[u]
        /\ \A u \in Threads : pc'[u] = pc[u]
    BY <1>0, <2>4 DEF Tested, Moved
  <2>6. Lies(r, t)
    BY <1>a, <2>0, <2>1 DEF Lies
  <2>7. Prime(r) => r \in 3 .. RIGHT
    BY <2>1, SmallPrimes
  <2>8. \A i \in Numbers : i \in RangeSet' <=> i \in RangeSet \/ (i = r /\ Prime(r))
    <3>1. ASSUME NEW i \in 3 .. RIGHT, Prime(i), NEW w \in Workers, Lies(i, w)
          PROVE  pc'[w] \in Live /\ i < reg'[w] <=> (pc[w] \in Live /\ i < reg[w]) \/ i = r
      <4>1. CASE w = t
        <5>1. i < r + 2 <=> i < r \/ i = r
          BY <2>1, <3>1, SmallPrimes
        <5> QED BY <2>0, <2>5, <4>1, <5>1
      <4>2. CASE w # t
        <5>1. i # r
          BY <2>0, <2>6, <3>1, <4>2, RangesApart
        <5> QED BY <2>5, <4>2, <5>1
      <4> QED BY <4>1, <4>2
    <3>2. ASSUME NEW i \in Numbers
          PROVE  i \in RangeSet' <=> i \in 3 .. RIGHT /\ Prime(i)
                    /\ \E w \in Workers : Lies(i, w) /\ pc'[w] \in Live /\ i < reg'[w]
      BY DEF RangeSet, Lies, left_of, right
    <3>3. ASSUME NEW i \in Numbers
          PROVE  i \in RangeSet <=> i \in 3 .. RIGHT /\ Prime(i)
                    /\ \E w \in Workers : Lies(i, w) /\ pc[w] \in Live /\ i < reg[w]
      BY DEF RangeSet
    <3>4. ASSUME NEW i \in Numbers, i = r, Prime(r) PROVE i \in RangeSet'
      BY <2>0, <2>6, <2>7, <3>1, <3>2, <3>4
    <3>5. ASSUME NEW i \in Numbers, i \in RangeSet PROVE i \in RangeSet'
      BY <3>1, <3>2, <3>3, <3>5
    <3>6. ASSUME NEW i \in Numbers, i \in RangeSet' PROVE i \in RangeSet \/ (i = r /\ Prime(r))
      BY <3>1, <3>2, <3>3, <3>6
    <3> QED BY <3>4, <3>5, <3>6
  <2>9. r \notin RangeSet
    <3> SUFFICES ASSUME NEW w \in Workers, Lies(r, w), r < reg[w] PROVE FALSE
      BY DEF RangeSet
    <3>1. w = t
      BY <2>0, <2>1, <2>6, RangesApart
    <3> QED BY <2>1, <3>1
  <2>10. \A i \in Numbers : out'[i] = IF i \in RangeSet' THEN 1 ELSE 0
    BY <1>0, <2>1, <2>5, <2>8, <2>9, PrimeOnce
  <2>11. Only(RangeSet)'
    BY <2>10 DEF Only
  <2>12. r + 2 >= left_of(t) /\ (r + 2) % 2 = 1
    BY <1>a, <2>0, <2>1
  <2> QED BY <1>1, <2>0, <2>4, <2>5, <2>11, <2>12
<1>5. CASE t # Main /\ reg[t] > right(t) /\ Goto(t, "test", "done")
  <2>1. Moved(t, "test", "done") /\ Quiet /\ SearchTypeOK'
    BY <1>5, QuietMoves
  <2>2. reg' = reg /\ out' = out /\ pc[t] = "test" /\ pc'[t] = "done"
        /\ \A w \in Workers : w # t => pc'[w] = pc[w]
    BY <2>1 DEF Moved, Quiet
  <2>3. \A w \in Workers : pc'[w] \in Live <=> pc[w] \in Live
    BY <2>2
  <2>4. \A i \in Numbers : i \in RangeSet' <=> i \in RangeSet
    BY <2>2, <2>3 DEF RangeSet, Lies, left_of, right
  <2>5. Only(RangeSet)'
    BY <1>0, <2>2, <2>4 DEF Only
  <2>6. reg[t] >= left_of(t) /\ reg[t] % 2 = 1
    BY <1>0, <1>5, <2>2
  <2> QED BY <1>1, <1>5, <2>1, <2>2, <2>5, <2>6
<1>6. CASE t = Main /\ Join("join", "cat")
  <2>1. Moved(Main, "join", "cat") /\ Quiet /\ SearchTypeOK' /\ Joined'
    BY <1>6, JoinMoves
  <2>2. reg' = reg /\ out' = out /\ pc'[Main] = "cat" /\ prog' = prog
        /\ \A w \in Workers : pc'[w] = pc[w]
    BY <2>1 DEF Moved, Quiet
  <2>3. \A i \in Numbers : i \in RangeSet' <=> i \in RangeSet
    BY <2>2 DEF RangeSet, Lies, left_of, right
  <2>4. Only(RangeSet)'
    BY <1>0, <2>2, <2>3 DEF Only
  <2> QED BY <1>0, <2>1, <2>2, <2>4 DEF RangeInv, left_of, right
<1>7. CASE Step(t, "cat", "done") /\ m' = Cardinality({i \in Numbers : out[i] > 0})
           /\ UNCHANGED <<locks, n, reg, left, out>>
  <2>1. Moved(t, "cat", "done") /\ pc' = [u \in Threads |-> pc'[u]]
    BY <1>7, Moves
  <2>2. t = Main
    BY <1>0, <2>1 DEF Moved
  <2>3. reg' = reg /\ out' = out /\ pc[Main] = "cat" /\ pc'[Main] = "done" /\ prog' = prog
        /\ \A w \in Workers : pc'[w] = pc[w]
    BY <1>7, <2>1, <2>2 DEF Moved
  <2>4. \A i \in Numbers : i \in RangeSet' <=> i \in RangeSet
    BY <2>3 DEF RangeSet, Lies, left_of, right
  <2>5. Only(RangeSet)'
    BY <1>0, <2>3, <2>4 DEF Only
  <2>6. Joined' /\ SearchTypeOK'
    BY <1>0, <1>7, <2>1, <2>3 DEF Joined, Over, SearchTypeOK
  <2>7. m' = Cardinality({i \in Numbers : out'[i] > 0})
    BY <1>7, <2>3
  <2> QED BY <1>0, <2>3, <2>5, <2>6, <2>7 DEF RangeInv, left_of, right
<1> QED BY <1>2, <1>3, <1>4, <1>5, <1>6, <1>7 DEF primer_by_four

-----------------------------------------------------------------------------
\* The numbers claimed one at a time.

\* Thread t gets number k, or is done with the number it has.
LEMMA ApartStep ==
    ASSUME Apart, NEW t \in Workers, \A u \in Workers : u # t => pc'[u] = pc[u] /\ reg'[u] = reg[u],
           ~Has(t)' \/ \A u \in Workers : u # t /\ Has(u) => reg[u] # reg'[t]
    PROVE  Apart'
  BY DEF Apart, Has

LEMMA SumGrows ==
    ASSUME NEW x \in Int, NEW y \in Int, NEW a \in Int, NEW b \in Int, b >= a
    PROVE  x + a > y => x + b > y
  OBVIOUS

LEMMA SecondSearch ==
    ASSUME SearchTypeOK, SecondInv, prog = "second", NEW t \in Threads, primer_second(t)
    PROVE  SearchTypeOK' /\ SecondInv'
<1> USE SearchFacts, ThreadFacts
<1> DEFINE Part(w) == /\ pc[w] \in {"start", "claim", "unlock", "test", "done"}
                      /\ Has(w) => reg[w] \in LEFT .. LEFT + n - 1
                      /\ pc[w] = "done" => LEFT + n > RIGHT
           S == TestedBelow(LEFT + n)
<1>0. /\ pc[Main] \in {"join", "done"} /\ n \in Int /\ n >= 0 /\ \A w \in Workers : Part(w)
      /\ Apart /\ (pc[Main] = "done" => Joined) /\ Only(S) /\ reg \in [Threads -> Int]
  BY DEF SecondInv, SearchTypeOK
<1>1. ASSUME t \in Workers, NEW a \in {"start", "claim", "unlock", "test"},
             NEW b \in {"start", "claim", "unlock", "test", "done"},
             Moved(t, a, b), SearchTypeOK', \A u \in Threads : u # t => reg'[u] = reg[u],
             n' >= n, Has(t)' => reg'[t] \in LEFT .. LEFT + n' - 1, b = "done" => LEFT + n' > RIGHT,
             Apart', Only(S)'
      PROVE  SecondInv'
  <2>1. pc[Main] = "join" /\ pc'[Main] = "join" /\ prog' = prog /\ pc'[t] = b
    BY <1>0, <1>1, NotJoined DEF Moved
  <2>2. \A w \in Workers :
           /\ pc'[w] \in {"start", "claim", "unlock", "test", "done"}
           /\ Has(w)' => reg'[w] \in LEFT .. LEFT + n' - 1
           /\ pc'[w] = "done" => LEFT + n' > RIGHT
    <3> SUFFICES ASSUME NEW w \in Workers
                 PROVE  /\ pc'[w] \in {"start", "claim", "unlock", "test", "done"}
                        /\ Has(w)' => reg'[w] \in LEFT .. LEFT + n' - 1
                        /\ pc'[w] = "done" => LEFT + n' > RIGHT
      OBVIOUS
    <3>1. CASE w = t
      BY <1>1, <2>1, <3>1
    <3>2. CASE w # t
      <4>1. pc'[w] = pc[w] /\ reg'[w] = reg[w] /\ Part(w) /\ (Has(w)' <=> Has(w)) /\ n' \in Int
        BY <1>0, <1>1, <3>2 DEF Moved, Has, SearchTypeOK
      <4>2. Has(w) => reg[w] \in LEFT .. LEFT + n' - 1
        BY <1>0, <1>1, <4>1
      <4>3. LEFT + n > RIGHT => LEFT + n' > RIGHT
        <5>1. n \in Int /\ n' \in Int /\ n' >= n /\ LEFT \in Int /\ RIGHT \in Int
          BY <1>0, <1>1, <4>1
        <5> QED BY <5>1, SumGrows
      <4> QED BY <4>1, <4>2, <4>3
    <3> QED BY <3>1, <3>2
  <2>3. n' >= 0
    BY <1>0, <1>1 DEF SearchTypeOK
  <2> QED BY <1>1, <2>1, <2>2, <2>3 DEF SecondInv
<1>2. ASSUME t \in Workers, NEW a \in {"start", "unlock", "test"}, NEW b \in {"claim", "test", "done"},
             Moved(t, a, b), Quiet, SearchTypeOK', a = "unlock" <=> b = "test",
             a = "test" <=> b = "done", a = "test" => reg[t] > RIGHT
      PROVE  SecondInv'
  <2>1. /\ reg' = reg /\ out' = out /\ n' = n /\ pc[t] = a /\ pc'[t] = b
        /\ \A w \in Workers : w # t => pc'[w] = pc[w]
    BY <1>2 DEF Moved, Quiet
  <2>2. Apart'
    BY <1>0, <1>2, <2>1 DEF Apart, Has
  <2>3. \A i \in Numbers : i \in S' <=> i \in S
    BY <1>0, <1>2, <2>1 DEF TestedBelow, Has
  <2>4. Only(S)'
    BY <1>0, <2>1, <2>3 DEF Only
  <2>5. Has(t)' => reg'[t] \in LEFT .. LEFT + n' - 1
    BY <1>0, <1>2, <2>1 DEF Has
  <2>6. b = "done" => LEFT + n' > RIGHT
    BY <1>0, <1>2, <2>1 DEF Has
  <2> QED BY <1>0, <1>1, <1>2, <2>1, <2>2, <2>4, <2>5, <2>6
<1>3. CASE t # Main /\ Lock(t, "start", "claim", 0)
  <2>1. Moved(t, "start", "claim") /\ Quiet /\ SearchTypeOK'
    BY <1>3, QuietMoves
  <2> QED BY <1>2, <1>3, <2>1
<1>4. CASE Step(t, "claim", "unlock") /\ reg' = [reg EXCEPT ![t] = LEFT + n] /\ n' = n + 1
           /\ UNCHANGED <<locks, m, left, out>>
  <2>1. Moved(t, "claim", "unlock") /\ pc' = [u \in Threads |-> pc'[u]]
    BY <1>4, Moves
  <2>2. t \in Workers /\ pc[t] = "claim" /\ pc'[t] = "unlock"
        /\ \A w \in Workers : w # t => pc'[w] = pc[w]
    BY <1>0, <2>1 DEF Moved
  <2>3. LEFT + n \in Int /\ n + 1 \in Int /\ n' = n + 1 /\ out' = out
    BY <1>0, <1>4
  <2>4. /\ reg'[t] = LEFT + n /\ reg' \in [Threads -> Int]
        /\ \A u \in Threads : u # t => reg'[u] = reg[u]
    BY <1>0, <1>4, <2>3
  <2>5. SearchTypeOK'
    BY <2>1, <2>3, <2>4 DEF SearchTypeOK
  <2>6. \A u \in Workers : u # t /\ Has(u) => reg[u] # reg'[t]
    BY <1>0, <2>4
  <2>7. Apart'
    BY <1>0, <2>2, <2>4, <2>6, ApartStep
  <2>8. \A i \in Numbers : i \in S' <=> i \in S
    <3> SUFFICES ASSUME NEW i \in LEFT .. RIGHT
                 PROVE  i < LEFT + n' /\ (\A w \in Workers : Has(w)' => reg'[w] # i)
                          <=> i < LEFT + n /\ (\A w \in Workers : Has(w) => reg[w] # i)
      BY DEF TestedBelow
    <3>1. \A w \in Workers : w # t => ((Has(w)' => reg'[w] # i) <=> (Has(w) => reg[w] # i))
      BY <2>2, <2>4 DEF Has
    <3>2. ~Has(t) /\ Has(t)'
      BY <2>2 DEF Has
    <3>3. (i < LEFT + n' /\ reg'[t] # i) <=> i < LEFT + n
      BY <1>0, <2>3, <2>4
    <3> QED BY <2>2, <3>1, <3>2, <3>3
  <2>9. Only(S)'
    BY <1>0, <2>3, <2>8 DEF Only
  <2>10. n' >= n /\ reg'[t] \in LEFT .. LEFT + n' - 1
    BY <1>0, <2>3, <2>4
  <2> QED BY <1>1, <2>1, <2>2, <2>4, <2>5, <2>7, <2>9, <2>10
<1>5. CASE Unlock(t, "unlock", "test", 0)
  <2>1. Moved(t, "unlock", "test") /\ Quiet /\ SearchTypeOK'
    BY <1>5, QuietMoves
  <2>2. t \in Workers
    BY <1>0, <2>1 DEF Moved
  <2> QED BY <1>2, <2>1, <2>2
<1>6. CASE t # Main /\ reg[t] > RIGHT /\ Goto(t, "test", "done")
  <2>1. Moved(t, "test", "done") /\ Quiet /\ SearchTypeOK'
    BY <1>6, QuietMoves
  <2> QED BY <1>2, <1>6, <2>1
<1>7. CASE t # Main /\ reg[t] <= RIGHT /\ Test(t, "test", "start", mark_to_root(reg[t]), 0)
  <2> DEFINE r == reg[t]
  <2>0. t \in Workers /\ pc[t] = "test" /\ Has(t)
    BY <1>7 DEF Test, Step, Has
  <2>1. r \in LEFT .. RIGHT /\ r \in Int /\ r \in Numbers /\ r < LEFT + n
    BY <1>0, <1>7, <2>0
  <2>2. mark_to_root(r) <=> Prime(r)
    BY <2>1, MarkFacts
  <2>3. Test(t, "test", "start", Prime(r), 0)
    BY <1>7, <2>2 DEF Test
  <2>4. Moved(t, "test", "start") /\ SearchTypeOK' /\ Tested(t, Prime(r), 0) /\ n' = n
    BY <2>3, TestMoves
  <2>5. /\ out' = (IF Prime(r) THEN Written(r) ELSE out)
        /\ \A u \in Threads : u # t => reg'[u] = reg[u] /\ pc'[u] = pc[u]
        /\ pc'[t] = "start"
    BY <1>0, <2>4 DEF Tested, Moved
  <2>6. ~Has(t)' /\ \A w \in Workers : w # t => (Has(w)' <=> Has(w))
    BY <2>5 DEF Has
  <2>7. Apart'
    BY <1>0, <2>0, <2>5, <2>6, ApartStep
  <2>8. \A i \in Numbers : i \in S' <=> i \in S \/ (i = r /\ Prime(r))
    <3>1. \A w \in Workers : w # t /\ Has(w) => reg[w] # r
      BY <1>0, <2>0 DEF Apart
    <3> SUFFICES ASSUME NEW i \in LEFT .. RIGHT
                 PROVE  i < LEFT + n /\ (\A w \in Workers : Has(w)' => reg'[w] # i)
                          <=> (i < LEFT + n /\ (\A w \in Workers : Has(w) => reg[w] # i)) \/ i = r
      BY <2>1, <2>4 DEF TestedBelow
    <3> QED BY <2>0, <2>1, <2>5, <2>6, <3>1
  <2>9. r \notin S
    BY <2>0 DEF TestedBelow
  <2>10. \A i \in Numbers : out'[i] = IF i \in S' THEN 1 ELSE 0
    BY <1>0, <2>1, <2>5, <2>8, <2>9, PrimeOnce
  <2>11. Only(S)'
    BY <2>10 DEF Only
  <2> QED BY <1>0, <1>1, <2>0, <2>4, <2>5, <2>6, <2>7, <2>11
<1>8. CASE t = Main /\ Join("join", "done")
  <2>1. Moved(Main, "join", "done") /\ Quiet /\ SearchTypeOK' /\ Joined'
    BY <1>8, JoinMoves
  <2>2. reg' = reg /\ out' = out /\ n' = n /\ pc'[Main] = "done" /\ prog' = prog
        /\ \A w \in Workers : pc'[w] = pc[w]
    BY <2>1 DEF Moved, Quiet
  <2>3. \A i \in Numbers : i \in S' <=> i \in S
    BY <2>2 DEF TestedBelow, Has
  <2>4. Only(S)'
    BY <1>0, <2>2, <2>3 DEF Only
  <2>5. Apart'
    BY <1>0, <2>2 DEF Apart, Has
  <2> QED BY <1>0, <2>1, <2>2, <2>4, <2>5 DEF SecondInv, Has
<1> QED BY <1>3, <1>4, <1>5, <1>6, <1>7, <1>8 DEF primer_second

-----------------------------------------------------------------------------
\* The pools.

LEMMA PoolFacts ==
    ASSUME SearchTypeOK, PoolInv, prog \in {"pool_busy", "pool_notice"}
    PROVE  /\ pc[Main] \in {"lock", "look", "unlock", "more", "join", "done"}
           /\ reg[Main] \in LEFT .. RIGHT + 1
           /\ pc[Main] = "more" => reg[Main] <= RIGHT
           /\ pc[Main] \in {"join", "done"} \/ (pc[Main] = "unlock" /\ reg[Main] > RIGHT) => n = -1
           /\ n \in {-1, 0} \/ (n \in LEFT .. RIGHT /\ n < Handed)
           /\ n = -1 => reg[Main] = RIGHT + 1
           /\ \A w \in Workers :
                /\ pc[w] \in {"start", "look", "unlock", "test", "done"}
                /\ Has(w) => reg[w] \in LEFT .. RIGHT /\ reg[w] < Handed /\ reg[w] # n
           /\ Apart /\ (pc[Main] = "done" => Joined) /\ Only(TestedBelow(Handed) \ {n})
           /\ n \in Int /\ reg \in [Threads -> Int] /\ Handed \in Int
<1>1. n \in Int /\ reg \in [Threads -> Int] /\ Handed \in Int
  BY ThreadFacts DEF SearchTypeOK, Handed
<1> QED BY <1>1 DEF PoolInv

\* A worker moves, and has the same number as before or none.
LEMMA PoolQuiet ==
    ASSUME SearchTypeOK, PoolInv, prog \in {"pool_busy", "pool_notice"}, NEW t \in Workers,
           NEW a \in {"start", "look", "unlock"}, NEW b \in {"start", "look", "test", "done"},
           Moved(t, a, b), Quiet, a = "unlock" <=> b = "test"
    PROVE  PoolInv'
<1> USE PoolFacts, ThreadFacts
<1>1. /\ reg' = reg /\ out' = out /\ n' = n /\ pc[t] = a /\ pc'[t] = b /\ prog' = prog
      /\ pc'[Main] = pc[Main] /\ \A w \in Workers : w # t => pc'[w] = pc[w]
  BY DEF Moved, Quiet
<1>2. \A w \in Workers : Has(w)' <=> Has(w)
  BY <1>1 DEF Has
<1>3. Apart' /\ Handed' = Handed
  BY <1>1, <1>2 DEF Apart, Handed
<1>4. \A i \in Numbers : i \in (TestedBelow(Handed) \ {n})' <=> i \in TestedBelow(Handed) \ {n}
  BY <1>1, <1>2, <1>3 DEF TestedBelow
<1>5. Only(TestedBelow(Handed) \ {n})'
  BY <1>1, <1>4 DEF Only
<1>6. pc[Main] # "done"
  BY <1>1, NotJoined
<1>7. \A w \in Workers :
         /\ pc'[w] \in {"start", "look", "unlock", "test", "done"}
         /\ Has(w)' => reg[w] \in LEFT .. RIGHT /\ reg[w] < Handed /\ reg[w] # n
  BY <1>1, <1>2
<1> QED BY <1>1, <1>3, <1>5, <1>6, <1>7 DEF PoolInv

\* A worker takes num.
LEMMA PoolTake ==
    ASSUME SearchTypeOK, PoolInv, prog \in {"pool_busy", "pool_notice"}, NEW t \in Workers,
           n > 0, Step(t, "look", "unlock"), reg' = [reg EXCEPT ![t] = n], n' = 0, out' = out
    PROVE  SearchTypeOK' /\ PoolInv'
<1> USE PoolFacts, ThreadFacts, SearchFacts
<1>1. Moved(t, "look", "unlock") /\ pc' = [u \in Threads |-> pc'[u]]
  BY Moves
<1>2. /\ reg'[t] = n /\ reg' \in [Threads -> Int] /\ \A u \in Threads : u # t => reg'[u] = reg[u]
      /\ pc[t] = "look" /\ pc'[t] = "unlock" /\ prog' = prog
      /\ pc'[Main] = pc[Main] /\ \A w \in Workers : w # t => pc'[w] = pc[w]
  BY <1>1 DEF Moved
<1>3. SearchTypeOK'
  BY <1>1, <1>2 DEF SearchTypeOK
<1>4. Handed' = Handed /\ n \in LEFT .. RIGHT /\ n < Handed
  BY <1>2 DEF Handed
<1>5. ~Has(t) /\ Has(t)' /\ \A w \in Workers : w # t => (Has(w)' <=> Has(w))
  BY <1>2 DEF Has
<1>6. Apart'
  <2>1. \A u \in Workers : u # t /\ Has(u) => reg[u] # reg'[t]
    BY <1>2
  <2> QED BY <1>2, <2>1, ApartStep
<1>7. \A i \in Numbers : i \in (TestedBelow(Handed) \ {n})' <=> i \in TestedBelow(Handed) \ {n}
  <2> SUFFICES ASSUME NEW i \in LEFT .. RIGHT
               PROVE  i < Handed /\ (\A w \in Workers : Has(w)' => reg'[w] # i) /\ i # n'
                        <=> i < Handed /\ (\A w \in Workers : Has(w) => reg[w] # i) /\ i # n
    BY <1>4 DEF TestedBelow
  <2>1. i # n'
    OBVIOUS
  <2> QED BY <1>2, <1>5, <2>1
<1>8. Only(TestedBelow(Handed) \ {n})'
  BY <1>7 DEF Only
<1>9. pc[Main] # "done"
  BY <1>2, NotJoined
<1>10. \A w \in Workers :
         /\ pc'[w] \in {"start", "look", "unlock", "test", "done"}
         /\ Has(w)' => reg'[w] \in LEFT .. RIGHT /\ reg'[w] < Handed /\ reg'[w] # n'
  BY <1>2, <1>4, <1>5
<1>11. pc[Main] \in {"join", "done"} \/ (pc[Main] = "unlock" /\ reg[Main] > RIGHT) => n' = -1
  OBVIOUS
<1>12. reg'[Main] = reg[Main] /\ n' # -1
  BY <1>2
<1> QED BY <1>2, <1>3, <1>4, <1>6, <1>8, <1>9, <1>10, <1>11, <1>12 DEF PoolInv

\* A worker tests the number it took.
LEMMA PoolTest ==
    ASSUME SearchTypeOK, PoolInv, prog \in {"pool_busy", "pool_notice"}, NEW t \in Workers,
           Test(t, "test", "start", mark_to_half(reg[t]), 0)
    PROVE  SearchTypeOK' /\ PoolInv'
<1> USE PoolFacts, ThreadFacts, SearchFacts
<1> DEFINE r == reg[t]
           S == TestedBelow(Handed) \ {n}
<1>0. pc[t] = "test" /\ Has(t)
  BY DEF Test, Step, Has
<1>1. r \in LEFT .. RIGHT /\ r \in Int /\ r \in Numbers /\ r < Handed /\ r # n
  BY <1>0
<1>2. mark_to_half(r) <=> Prime(r)
  BY <1>1, MarkFacts
<1>3. Test(t, "test", "start", Prime(r), 0)
  BY <1>2 DEF Test
<1>4. Moved(t, "test", "start") /\ SearchTypeOK' /\ Tested(t, Prime(r), 0) /\ n' = n
  BY <1>3, TestMoves
<1>5. /\ out' = (IF Prime(r) THEN Written(r) ELSE out) /\ prog' = prog
      /\ \A u \in Threads : u # t => reg'[u] = reg[u] /\ pc'[u] = pc[u]
      /\ pc'[t] = "start" /\ pc'[Main] = pc[Main] /\ reg'[Main] = reg[Main]
  BY <1>4 DEF Tested, Moved
<1>6. ~Has(t)' /\ \A w \in Workers : w # t => (Has(w)' <=> Has(w))
  BY <1>5 DEF Has
<1>7. Apart' /\ Handed' = Handed
  BY <1>5, <1>6, ApartStep DEF Handed
<1>8. \A i \in Numbers : i \in S' <=> i \in S \/ (i = r /\ Prime(r))
  <2>1. \A w \in Workers : w # t /\ Has(w) => reg[w] # r
    BY <1>0 DEF Apart
  <2> SUFFICES ASSUME NEW i \in LEFT .. RIGHT
               PROVE  i < Handed /\ (\A w \in Workers : Has(w)' => reg'[w] # i) /\ i # n
                        <=> (i < Handed /\ (\A w \in Workers : Has(w) => reg[w] # i) /\ i # n) \/ i = r
    BY <1>1, <1>4, <1>7 DEF TestedBelow
  <2> QED BY <1>0, <1>1, <1>5, <1>6, <2>1
<1>9. r \notin S
  BY <1>0 DEF TestedBelow
<1>10. \A i \in Numbers : out'[i] = IF i \in S' THEN 1 ELSE 0
  <2>1. r \in Numbers /\ Only(S) /\ out' = IF Prime(r) THEN Written(r) ELSE out
    BY <1>1, <1>5
  <2> HIDE PoolFacts, ThreadFacts, SearchFacts
  <2> HIDE DEF r, S
  <2> QED BY <1>8, <1>9, <2>1, PrimeOnce, Zenon
<1>11. Only(TestedBelow(Handed) \ {n})'
  BY <1>10 DEF Only
<1>12. pc[Main] # "done"
  BY <1>0, NotJoined
<1>13. \A w \in Workers :
         /\ pc'[w] \in {"start", "look", "unlock", "test", "done"}
         /\ Has(w)' => reg'[w] \in LEFT .. RIGHT /\ reg'[w] < Handed /\ reg'[w] # n
  BY <1>5, <1>6
<1> QED BY <1>4, <1>5, <1>7, <1>11, <1>12, <1>13 DEF PoolInv

\* main moves without a change of num.
LEMMA PoolMain ==
    ASSUME SearchTypeOK, PoolInv, prog \in {"pool_busy", "pool_notice"}, SearchTypeOK',
           NEW a, NEW b \in {"lock", "look", "more", "join", "done"}, Moved(Main, a, b),
           n' = n, out' = out, \A w \in Workers : reg'[w] = reg[w],
           \/ a \in {"lock", "look"} /\ b \in {"lock", "look"} /\ reg'[Main] = reg[Main]
           \/ a = "unlock" /\ b = "more" /\ reg[Main] <= RIGHT /\ reg'[Main] = reg[Main]
           \/ a = "unlock" /\ b = "join" /\ reg[Main] > RIGHT /\ reg'[Main] = reg[Main]
           \/ a = "more" /\ b = "lock" /\ reg'[Main] = reg[Main] + 1
           \/ a = "join" /\ b = "done" /\ Joined' /\ reg'[Main] = reg[Main]
    PROVE  PoolInv'
<1> USE PoolFacts, ThreadFacts, SearchFacts
<1>1. pc[Main] = a /\ pc'[Main] = b /\ prog' = prog /\ \A w \in Workers : pc'[w] = pc[w]
  BY DEF Moved
<1>2. \A w \in Workers : Has(w)' <=> Has(w)
  BY <1>1 DEF Has
<1>3. Handed' = Handed \/ (Handed' = RIGHT + 1 /\ Handed = RIGHT + 2)
  BY <1>1 DEF Handed
<1>4. \A i \in LEFT .. RIGHT : i < Handed' <=> i < Handed
  BY <1>3
<1>5. \A i \in Numbers : i \in (TestedBelow(Handed) \ {n})' <=> i \in TestedBelow(Handed) \ {n}
  BY <1>2, <1>4 DEF TestedBelow
<1>6. Only(TestedBelow(Handed) \ {n})'
  BY <1>5 DEF Only
<1>7. Apart'
  BY <1>2 DEF Apart
<1>8. \A w \in Workers :
         /\ pc'[w] \in {"start", "look", "unlock", "test", "done"}
         /\ Has(w)' => reg'[w] \in LEFT .. RIGHT /\ reg'[w] < Handed' /\ reg'[w] # n
  BY <1>1, <1>2, <1>4
<1>9. n \in {-1, 0} \/ (n \in LEFT .. RIGHT /\ n < Handed')
  BY <1>4
<1>10. /\ reg'[Main] \in LEFT .. RIGHT + 1 /\ (n = -1 => reg'[Main] = RIGHT + 1)
       /\ b = "more" => reg'[Main] <= RIGHT
       /\ b \in {"join", "done"} => n = -1
       /\ b = "done" => Joined'
  BY <1>1
<1> QED BY <1>1, <1>6, <1>7, <1>8, <1>9, <1>10 DEF PoolInv

\* main puts the next number, or the end, into num.
LEMMA PoolGive ==
    ASSUME SearchTypeOK, PoolInv, prog \in {"pool_busy", "pool_notice"}, n = 0,
           Step(Main, "look", "unlock"), n' = (IF reg[Main] <= RIGHT THEN reg[Main] ELSE -1),
           reg' = reg, out' = out
    PROVE  SearchTypeOK' /\ PoolInv'
<1> USE PoolFacts, ThreadFacts, SearchFacts
<1>1. Moved(Main, "look", "unlock") /\ pc' = [u \in Threads |-> pc'[u]]
  BY Moves
<1>2. /\ pc[Main] = "look" /\ pc'[Main] = "unlock" /\ prog' = prog
      /\ \A w \in Workers : pc'[w] = pc[w]
  BY <1>1 DEF Moved
<1>3. SearchTypeOK'
  BY <1>1 DEF SearchTypeOK
<1>4. \A w \in Workers : Has(w)' <=> Has(w)
  BY <1>2 DEF Has
<1>5. Handed = reg[Main] /\ Handed' = reg[Main] + 1
  BY <1>2 DEF Handed
<1>6. \A i \in LEFT .. RIGHT : i < Handed' /\ i # n' <=> i < Handed /\ i # n
  BY <1>5
<1>7. \A i \in Numbers : i \in (TestedBelow(Handed) \ {n})' <=> i \in TestedBelow(Handed) \ {n}
  BY <1>4, <1>6 DEF TestedBelow
<1>8. Only(TestedBelow(Handed) \ {n})'
  BY <1>7 DEF Only
<1>9. Apart'
  BY <1>4 DEF Apart
<1>10. \A w \in Workers :
         /\ pc'[w] \in {"start", "look", "unlock", "test", "done"}
         /\ Has(w)' => reg'[w] \in LEFT .. RIGHT /\ reg'[w] < Handed' /\ reg'[w] # n'
  BY <1>2, <1>4, <1>6
<1>11. n' \in {-1, 0} \/ (n' \in LEFT .. RIGHT /\ n' < Handed')
  BY <1>5
<1>12. /\ n' = -1 => reg[Main] = RIGHT + 1
       /\ reg[Main] > RIGHT => n' = -1
  OBVIOUS
<1> QED BY <1>2, <1>3, <1>8, <1>9, <1>10, <1>11, <1>12 DEF PoolInv

LEMMA PoolSearch ==
    ASSUME SearchTypeOK, PoolInv, prog \in {"pool_busy", "pool_notice"}, NEW t \in Threads,
           IF t = Main THEN main_busy(t) \/ main_notice(t)
                       ELSE thr_primer_busy(t) \/ thr_primer_notice(t)
    PROVE  SearchTypeOK' /\ PoolInv'
<1> USE ThreadFacts
<1>1. CASE t # Main
  <2>0. t \in Workers
    BY <1>1
  <2>1. CASE \/ Lock(t, "start", "look", 0) \/ Unlock(t, "look", "start", 0)
             \/ CondWait(t, "look", "start", "cond_num") \/ Unlock(t, "look", "done", 0)
             \/ Unlock(t, "unlock", "test", 0)
    <3>1. /\ Quiet /\ SearchTypeOK'
          /\ \/ Moved(t, "start", "look") \/ Moved(t, "look", "start") \/ Moved(t, "look", "done")
             \/ Moved(t, "unlock", "test")
      BY <2>1, QuietMoves
    <3> QED BY <2>0, <3>1, PoolQuiet
  <2>2. CASE /\ n > 0 /\ Step(t, "look", "unlock")
             /\ reg' = [reg EXCEPT ![t] = n] /\ n' = 0 /\ out' = out
    BY <2>0, <2>2, PoolTake
  <2>3. CASE Test(t, "test", "start", mark_to_half(reg[t]), 0)
    BY <2>0, <2>3, PoolTest
  <2> QED BY <1>1, <2>1, <2>2, <2>3 DEF thr_primer_busy, thr_primer_notice
<1>2. CASE t = Main
  <2> DEFINE r == reg[Main]
  <2>0. r \in Int /\ r + 1 \in Int
    BY DEF SearchTypeOK
  <2>1. CASE \/ Lock(t, "lock", "look", 0) \/ Unlock(t, "look", "lock", 0)
             \/ CondWait(t, "look", "lock", "cond_num")
             \/ r <= RIGHT /\ Unlock(t, "unlock", "more", 0)
             \/ r > RIGHT /\ Unlock(t, "unlock", "join", 0)
    <3>1. /\ Quiet /\ SearchTypeOK'
          /\ \/ Moved(Main, "lock", "look") \/ Moved(Main, "look", "lock")
             \/ r <= RIGHT /\ Moved(Main, "unlock", "more")
             \/ r > RIGHT /\ Moved(Main, "unlock", "join")
      BY <1>2, <2>1, QuietMoves
    <3>2. n' = n /\ out' = out /\ reg' = reg
      BY <3>1 DEF Quiet
    <3> QED BY <3>1, <3>2, PoolMain
  <2>2. CASE Set(t, "more", "lock", r + 1)
    <3>1. Step(Main, "more", "lock") /\ reg' = [reg EXCEPT ![Main] = r + 1] /\ n' = n /\ out' = out
      BY <1>2, <2>2 DEF Set
    <3>2. Moved(Main, "more", "lock") /\ pc' = [u \in Threads |-> pc'[u]]
      BY <3>1, Moves
    <3>3. /\ reg' \in [Threads -> Int] /\ reg'[Main] = r + 1
          /\ \A w \in Workers : reg'[w] = reg[w]
      BY <2>0, <3>1 DEF SearchTypeOK
    <3>4. SearchTypeOK'
      BY <3>1, <3>2, <3>3 DEF SearchTypeOK
    <3> QED BY <3>1, <3>2, <3>3, <3>4, PoolMain
  <2>3. CASE Join("join", "done")
    <3>1. Moved(Main, "join", "done") /\ Quiet /\ SearchTypeOK' /\ Joined'
      BY <2>3, JoinMoves
    <3>2. n' = n /\ out' = out /\ reg' = reg
      BY <3>1 DEF Quiet
    <3> QED BY <3>1, <3>2, PoolMain
  <2>4. CASE n = 0 /\ Step(t, "look", "unlock") /\ n' = (IF r <= RIGHT THEN r ELSE -1)
             /\ reg' = reg /\ out' = out
    BY <1>2, <2>4, PoolGive
  <2> QED BY <1>2, <2>1, <2>2, <2>3, <2>4 DEF main_busy, main_notice, Store
<1> QED BY <1>1, <1>2

-----------------------------------------------------------------------------
\* The searches together.

LEMMA PrimesOwnStep ==
    ASSUME NEW t \in Threads, ThreadStep(t), prog \in PrimePrograms
    PROVE  /\ prog \in Alone => AloneStep
           /\ prog = "by_one" => IF t = Main THEN Join("join", "done") ELSE primer_by_one(t)
           /\ prog = "thread1" => thread1(t)
           /\ prog = "thread3" => thread3(t)
           /\ prog = "thread4" => thread4(t)
           /\ prog = "by_four" => primer_by_four(t)
           /\ prog = "second" => primer_second(t)
           /\ prog \in {"pool_busy", "pool_notice"} =>
                IF t = Main THEN main_busy(t) \/ main_notice(t)
                            ELSE thr_primer_busy(t) \/ thr_primer_notice(t)
<1>1. CounterStep(t) => prog \in CounterPrograms
  BY DEF CounterStep, CounterPrograms
<1>2. TurnStep(t) => prog \in TurnPrograms
  BY DEF TurnStep, TurnPrograms
<1>3. BufferStep(t) => prog \in BufferPrograms
  BY DEF BufferStep, BufferPrograms
<1>4. PrimePrograms \cap (CounterPrograms \cup TurnPrograms \cup BufferPrograms) = {}
  BY DEF CounterPrograms, TurnPrograms, BufferPrograms, PrimePrograms
<1>5. PrimeStep(t)
  BY <1>1, <1>2, <1>3, <1>4 DEF ThreadStep
<1> QED BY <1>5 DEF PrimeStep, Alone

LEMMA OtherPrimes ==
    ASSUME prog' = prog
    PROVE  /\ prog \notin Alone => AloneInv'
           /\ prog # "by_one" => ByOneInv'
           /\ prog \notin {"thread1", "thread3"} => ForkInv'
           /\ prog # "thread4" => StrideInv'
           /\ prog # "by_four" => RangeInv'
           /\ prog # "second" => SecondInv'
           /\ prog \notin {"pool_busy", "pool_notice"} => PoolInv'
  BY DEF AloneInv, ByOneInv, ForkInv, PerNumber, StrideInv, RangeInv, SecondInv, PoolInv

LEMMA PrimesQuiet ==
    ASSUME PrimesInv, UNCHANGED <<prog, pc, n, m, reg, out>>
    PROVE  PrimesInv'
<1>1. (prog \in PrimePrograms => SearchTypeOK)'
  BY DEF PrimesInv, SearchTypeOK
<1>2. AloneInv'
  BY DEF PrimesInv, AloneInv, AloneSet, Only, Good, Found
<1>3. ByOneInv'
  BY DEF PrimesInv, ByOneInv, ByOneSet, Only, Joined, Over
<1>4. ForkInv'
  BY DEF PrimesInv, ForkInv, PerNumber, ForkSet, Forked, Only, Found, Joined, Over
<1>5. StrideInv'
  BY DEF PrimesInv, StrideInv, StrideSet, Forked, Only, Found, Child, Joined, Over
<1>6. RangeInv'
  BY DEF PrimesInv, RangeInv, RangeSet, Only, Lies, left_of, right, Joined, Over
<1>7. SecondInv'
  BY DEF PrimesInv, SecondInv, TestedBelow, Has, Apart, Only, Joined, Over
<1>8. PoolInv'
  BY DEF PrimesInv, PoolInv, Handed, TestedBelow, Has, Apart, Only, Joined, Over
<1> QED BY <1>1, <1>2, <1>3, <1>4, <1>5, <1>6, <1>7, <1>8 DEF PrimesInv

LEMMA PrimesStepInv ==
    ASSUME PrimesInv, [Next]_vars
    PROVE  PrimesInv'
<1>1. ASSUME NEW t \in Threads, ThreadStep(t) PROVE PrimesInv'
  <2>0. prog' = prog
    BY <1>1, ProgFixed
  <2>1. CASE prog \notin PrimePrograms
    <3>1. /\ prog \notin Alone /\ prog # "by_one" /\ prog \notin {"thread1", "thread3"}
          /\ prog # "thread4" /\ prog # "by_four" /\ prog # "second"
          /\ prog \notin {"pool_busy", "pool_notice"}
      BY <2>1 DEF PrimePrograms, Alone
    <3> QED BY <2>0, <2>1, <3>1, OtherPrimes DEF PrimesInv
  <2>2. CASE prog \in PrimePrograms
    <3>0. /\ SearchTypeOK /\ AloneInv /\ ByOneInv /\ ForkInv /\ StrideInv /\ RangeInv
          /\ SecondInv /\ PoolInv
      BY <2>2 DEF PrimesInv
    <3>1. CASE prog \in Alone
      <4>1. SearchTypeOK' /\ AloneInv'
        BY <1>1, <2>2, <3>0, <3>1, PrimesOwnStep, AloneSearch
      <4> QED BY <2>0, <3>1, <4>1, OtherPrimes DEF PrimesInv, Alone
    <3>2. CASE prog = "by_one"
      <4>1. SearchTypeOK' /\ ByOneInv'
        BY <1>1, <2>2, <3>0, <3>2, PrimesOwnStep, ByOneSearch
      <4> QED BY <2>0, <3>2, <4>1, OtherPrimes DEF PrimesInv, Alone
    <3>3. CASE prog \in {"thread1", "thread3"}
      <4>1. SearchTypeOK' /\ ForkInv'
        BY <1>1, <2>2, <3>0, <3>3, PrimesOwnStep, ForkSearch
      <4> QED BY <2>0, <3>3, <4>1, OtherPrimes DEF PrimesInv, Alone
    <3>4. CASE prog = "thread4"
      <4>1. SearchTypeOK' /\ StrideInv'
        BY <1>1, <2>2, <3>0, <3>4, PrimesOwnStep, StrideSearch
      <4> QED BY <2>0, <3>4, <4>1, OtherPrimes DEF PrimesInv, Alone
    <3>5. CASE prog = "by_four"
      <4>1. SearchTypeOK' /\ RangeInv'
        BY <1>1, <2>2, <3>0, <3>5, PrimesOwnStep, RangeSearch
      <4> QED BY <2>0, <3>5, <4>1, OtherPrimes DEF PrimesInv, Alone
    <3>6. CASE prog = "second"
      <4>1. SearchTypeOK' /\ SecondInv'
        BY <1>1, <2>2, <3>0, <3>6, PrimesOwnStep, SecondSearch
      <4> QED BY <2>0, <3>6, <4>1, OtherPrimes DEF PrimesInv, Alone
    <3>7. CASE prog \in {"pool_busy", "pool_notice"}
      <4>1. SearchTypeOK' /\ PoolInv'
        BY <1>1, <2>2, <3>0, <3>7, PrimesOwnStep, PoolSearch
      <4> QED BY <2>0, <3>7, <4>1, OtherPrimes DEF PrimesInv, Alone
    <3> QED BY <2>2, <3>1, <3>2, <3>3, <3>4, <3>5, <3>6, <3>7 DEF PrimePrograms, Alone
  <2> QED BY <2>1, <2>2
<1>2. ASSUME NEW t \in Threads, SpuriousWakeup(t) PROVE PrimesInv'
  BY <1>2, PrimesQuiet DEF SpuriousWakeup, data
<1>3. ASSUME UNCHANGED vars PROVE PrimesInv'
  BY <1>3, PrimesQuiet DEF vars, data
<1> QED BY <1>1, <1>2, <1>3 DEF Next

LEMMA PrimesInitInv ==
    ASSUME Init
    PROVE  PrimesInv
<1> USE SearchFacts, ThreadFacts
<1>1. CASE ~PrimesInit
  <2>1. prog \in CounterPrograms \cup TurnPrograms \cup BufferPrograms
    BY <1>1 DEF Init, CountersInit, TurnsInit, BuffersInit
  <2>2. prog \notin PrimePrograms
    BY <2>1 DEF CounterPrograms, TurnPrograms, BufferPrograms, PrimePrograms
  <2> QED BY <2>2 DEF PrimesInv, PrimePrograms, Alone, AloneInv, ByOneInv, ForkInv, PerNumber, StrideInv, RangeInv,
          SecondInv, PoolInv
<1>2. CASE PrimesInit
  <2>1. /\ prog \in PrimePrograms /\ n = 0 /\ m = 0
        /\ reg = [t \in Threads |-> IF t = Main THEN LEFT ELSE 0] /\ out = [i \in Numbers |-> 0]
    BY <1>2 DEF PrimesInit
  <2>2. reg[Main] = LEFT /\ (\A w \in Workers : reg[w] = 0) /\ \A i \in Numbers : out[i] = 0
    BY <2>1
  <2>3. /\ pc = [t \in Threads |-> pc[t]]
        /\ prog \in Alone => pc[Main] = "test"
        /\ prog = "by_one" => /\ pc[Main] = "join" /\ pc[0] = "start"
                              /\ \A w \in Workers : w # 0 => pc[w] = "none"
        /\ prog \in {"thread1", "thread3", "thread4"} =>
             pc[Main] = "fork" /\ \A w \in Workers : pc[w] = "none"
        /\ prog \in {"by_four", "second"} => pc[Main] = "join" /\ \A w \in Workers : pc[w] = "start"
        /\ prog \in {"pool_busy", "pool_notice"} =>
             pc[Main] = "lock" /\ \A w \in Workers : pc[w] = "start"
    BY <1>2, <2>1 DEF PrimesInit, Alone
  <2>4. SearchTypeOK
    BY <2>1, <2>3 DEF SearchTypeOK
  <2>5. \A S : S \cap Numbers = {} => Only(S)
    BY <2>2 DEF Only
  <2>6. AloneInv
    <3>1. AloneSet = {} /\ \A j : j \notin LEFT .. LEFT - 1
      BY <2>2 DEF AloneSet
    <3>2. Only(AloneSet)
      BY <2>5, <3>1
    <3>3. LEFT \in LEFT .. RIGHT + 1
      OBVIOUS
    <3> QED BY <2>1, <2>2, <2>3, <3>1, <3>2, <3>3 DEF AloneInv
  <2>7. ByOneInv
    <3> SUFFICES ASSUME prog = "by_one" PROVE ByOneInv
      BY DEF ByOneInv
    <3>1. Only(ByOneSet)
      BY <2>3, <2>5 DEF ByOneSet
    <3> QED BY <2>3, <3>1 DEF ByOneInv
  <2>8. ForkInv
    <3> SUFFICES ASSUME prog \in {"thread1", "thread3"} PROVE ForkInv
      BY DEF ForkInv, PerNumber
    <3>0. RIGHT - LEFT < THRNUM
      BY <1>2 DEF PrimesInit, PerNumber
    <3>1. \A i \in LEFT .. RIGHT : i - LEFT \in Workers
      BY <3>0, Constants DEF Workers
    <3>2. ForkSet = {}
      BY <2>3, <3>1 DEF ForkSet
    <3>3. Only(ForkSet)
      BY <2>5, <3>2
    <3>4. Forked({"test", "sleep", "done"})
      BY <2>2, <2>3 DEF Forked
    <3> QED BY <2>2, <2>3, <3>0, <3>3, <3>4 DEF ForkInv, PerNumber
  <2>9. StrideInv
    <3> SUFFICES ASSUME prog = "thread4" PROVE StrideInv
      BY DEF StrideInv
    <3>1. \A i \in LEFT .. RIGHT : Child(i) \in Workers
      BY ChildFact
    <3>2. StrideSet = {}
      BY <2>3, <3>1 DEF StrideSet
    <3>3. Only(StrideSet)
      BY <2>5, <3>2
    <3>4. Forked({"test", "done"})
      BY <2>2, <2>3 DEF Forked
    <3>5. LEFT \in LEFT .. LEFT + N /\ LEFT < LEFT + N
      OBVIOUS
    <3> QED BY <2>2, <2>3, <3>3, <3>4, <3>5 DEF StrideInv
  <2>10. RangeInv
    <3> SUFFICES ASSUME prog = "by_four" PROVE RangeInv
      BY DEF RangeInv
    <3>1. Only(RangeSet)
      BY <2>3, <2>5 DEF RangeSet
    <3> QED BY <2>3, <3>1 DEF RangeInv
  <2>11. SecondInv
    <3> SUFFICES ASSUME prog = "second" PROVE SecondInv
      BY DEF SecondInv
    <3>1. TestedBelow(LEFT + n) = {}
      BY <2>1 DEF TestedBelow
    <3>2. Only(TestedBelow(LEFT + n))
      BY <2>5, <3>1
    <3>3. (\A w \in Workers : ~Has(w)) /\ Apart
      BY <2>3 DEF Has, Apart
    <3>4. n >= 0 /\ pc[Main] = "join" /\ \A w \in Workers : pc[w] = "start"
      BY <2>1, <2>3
    <3> QED BY <3>2, <3>3, <3>4 DEF SecondInv
  <2>12. PoolInv
    <3> SUFFICES ASSUME prog \in {"pool_busy", "pool_notice"} PROVE PoolInv
      BY DEF PoolInv
    <3>0. Handed = LEFT
      BY <2>2, <2>3 DEF Handed
    <3>1. TestedBelow(Handed) \ {n} = {}
      BY <3>0 DEF TestedBelow
    <3>2. Only(TestedBelow(Handed) \ {n})
      BY <2>5, <3>1
    <3>3. (\A w \in Workers : ~Has(w)) /\ Apart
      BY <2>3 DEF Has, Apart
    <3>4. LEFT \in LEFT .. RIGHT + 1
      OBVIOUS
    <3> QED BY <2>1, <2>2, <2>3, <3>2, <3>3, <3>4 DEF PoolInv
  <2> QED BY <2>4, <2>6, <2>7, <2>8, <2>9, <2>10, <2>11, <2>12 DEF PrimesInv
<1> QED BY <1>1, <1>2

LEMMA PrimesInvariance == Spec => []PrimesInv
<1>1. Init => PrimesInv
  BY PrimesInitInv
<1>2. PrimesInv /\ [Next]_vars => PrimesInv'
  BY PrimesStepInv
<1> QED BY <1>1, <1>2, PTL DEF Spec

\* Every search, alone, by processes, by ranges, by claims or through num, has
\* written each prime of its range once and nothing else when it is over, for any
\* range from 2 on and any number of threads (as many processes as numbers where
\* each number has its own); and the file that primer_by_four.c puts together holds
\* all of them.
THEOREM AllPrimesPrinted == Spec => []PrimesPrinted
<1>1. ASSUME PrimesInv PROVE PrimesPrinted
  <2> SUFFICES ASSUME prog \in PrimePrograms, pc[Main] = "done", prog = "thread1" => Ended
               PROVE  /\ \A i \in Numbers : out[i] = IF i \in Expected THEN 1 ELSE 0
                      /\ prog = "by_four" => m = Cardinality(Expected)
    BY DEF PrimesPrinted
  <2> USE SearchFacts, ThreadFacts
  <2>0. /\ SearchTypeOK /\ AloneInv /\ ByOneInv /\ ForkInv /\ StrideInv /\ RangeInv
        /\ SecondInv /\ PoolInv
    BY <1>1 DEF PrimesInv
  <2>1. ASSUME NEW S, Only(S), \A i \in Numbers : i \in S <=> i \in Expected
        PROVE  \A i \in Numbers : out[i] = IF i \in Expected THEN 1 ELSE 0
    BY <2>1 DEF Only
  <2>2. Joined => \A w \in Workers : pc[w] \in {"none", "done", "failed", "exit"}
    BY DEF Joined, Over
  <2>a. prog \notin {"by_one", "by_four", "thread0"} => Expected = {i \in LEFT .. RIGHT : Found(i)}
    BY DEF Expected
  <2>3. CASE prog \in Alone
    <3>1. Only(AloneSet) /\ reg[Main] - 1 = RIGHT
      BY <2>0, <2>3 DEF AloneInv
    <3>2. \A i \in Numbers : i \in AloneSet <=> i \in Expected
      BY <2>3, <3>1 DEF AloneSet, Expected, Good, Alone
    <3> QED BY <2>1, <2>3, <3>1, <3>2 DEF Alone
  <2>4. CASE prog = "by_one"
    <3>1. /\ Only(ByOneSet) /\ pc[0] \in {"done", "failed"} /\ \A w \in Workers : w # 0 => pc[w] = "none"
          /\ pc[0] = "done" => reg[0] > RIGHT
      BY <2>0, <2>2, <2>4 DEF ByOneInv
    <3>2. Failed = {} <=> pc[0] = "done"
      BY <3>1 DEF Failed
    <3>3. Expected = {i \in 2 .. RIGHT : Prime(i) /\ Failed = {}} /\ reg[0] \in Int
      BY <2>0, <2>4 DEF Expected, SearchTypeOK
    <3>4. \A i \in Numbers : i \in ByOneSet <=> i \in Expected
      BY <3>1, <3>2, <3>3 DEF ByOneSet
    <3> QED BY <2>1, <2>4, <3>1, <3>4
  <2>5. CASE prog \in {"thread1", "thread3"}
    <3>1. /\ Only(ForkSet) /\ reg[Main] = RIGHT + 1 /\ Forked({"test", "sleep", "done"})
          /\ RIGHT - LEFT < THRNUM
      BY <2>0, <2>5 DEF ForkInv, PerNumber
    <3>2. \A w \in Workers : pc[w] \in {"none", "done", "failed", "exit"}
      BY <2>0, <2>2, <2>5 DEF ForkInv, PerNumber, Ended, Over
    <3>3. \A i \in LEFT .. RIGHT : i - LEFT \in Workers /\ LEFT + (i - LEFT) < RIGHT + 1
      BY <3>1, Constants DEF Workers
    <3>4. \A i \in LEFT .. RIGHT : pc[i - LEFT] = "done"
      BY <3>1, <3>2, <3>3 DEF Forked
    <3>5. \A i \in Numbers : i \in ForkSet <=> i \in Expected
      BY <2>5, <2>a, <3>4 DEF ForkSet
    <3> QED BY <2>1, <2>5, <3>1, <3>5
  <2>6. CASE prog = "thread4"
    <3>1. /\ Only(StrideSet) /\ reg[Main] = LEFT + N /\ Forked({"test", "done"}) /\ Joined
          /\ \A w \in Workers : pc[w] = "done" => reg[w] > RIGHT
      BY <2>0, <2>6 DEF StrideInv
    <3>2. ASSUME NEW i \in LEFT .. RIGHT PROVE pc[Child(i)] = "done" /\ i < reg[Child(i)]
      <4>1. Child(i) \in Workers /\ Child(i) \in Nat /\ Child(i) < N
        <5>1. i \in Int /\ i >= LEFT
          OBVIOUS
        <5>2. Child(i) \in Workers /\ Child(i) < N
          BY <5>1, ChildFact
        <5> QED BY <5>2
      <4>2. LEFT + Child(i) < LEFT + N
        BY <4>1
      <4>3. pc[Child(i)] = "done"
        BY <2>2, <3>1, <4>1, <4>2 DEF Forked
      <4>4. reg[Child(i)] \in Int /\ reg[Child(i)] > RIGHT
        BY <2>0, <3>1, <4>1, <4>3 DEF SearchTypeOK
      <4> QED BY <4>3, <4>4
    <3>3. \A i \in Numbers : i \in StrideSet <=> i \in Expected
      BY <2>6, <2>a, <3>2 DEF StrideSet
    <3> QED BY <2>1, <2>6, <3>1, <3>3
  <2>7. CASE prog = "by_four"
    <3>1. /\ Only(RangeSet) /\ Joined /\ m = Cardinality({i \in Numbers : out[i] > 0})
          /\ \A w \in Workers : /\ pc[w] \in {"start", "test", "done", "failed"}
                                /\ pc[w] = "done" => reg[w] > right(w)
      BY <2>0, <2>7 DEF RangeInv
    <3>2. Expected = {i \in 3 .. RIGHT : Prime(i) /\ \A t \in Failed : i \notin left_of(t) .. right(t)}
      BY <2>7 DEF Expected
    <3>3. \A w \in Workers : pc[w] = "done" \/ w \in Failed
      BY <2>2, <3>1 DEF Failed
    <3>4. ASSUME NEW i \in 3 .. RIGHT, Prime(i) PROVE i \in RangeSet <=> i \in Expected
      <4>1. PICK w \in Workers : Lies(i, w)
        BY RangesCover
      <4>2. \A v \in Workers : Lies(i, v) => v = w
        BY <4>1, RangesApart
      <4>3. i \in Expected <=> w \notin Failed
        BY <3>2, <3>4, <4>1, <4>2 DEF Failed, Lies
      <4>4. i \in RangeSet <=> pc[w] \in {"test", "done"} /\ i < reg[w]
        BY <3>4, <4>1, <4>2 DEF RangeSet
      <4>5. pc[w] = "done" => i < reg[w]
        <5>1. right(w) \in Int /\ reg[w] \in Int /\ i <= right(w) /\ (pc[w] = "done" => reg[w] > right(w))
          BY <2>0, <3>1, <4>1, RightFact, LeftFact DEF SearchTypeOK, Lies
        <5> QED BY <5>1
      <4> QED BY <3>3, <4>3, <4>4, <4>5 DEF Failed
    <3>5. \A i \in Numbers : i \in RangeSet <=> i \in Expected
      <4>1. RangeSet \subseteq {i \in 3 .. RIGHT : Prime(i)} /\ Expected \subseteq {i \in 3 .. RIGHT : Prime(i)}
        BY <3>2 DEF RangeSet
      <4> QED BY <3>4, <4>1
    <3>6. \A i \in Numbers : out[i] = IF i \in Expected THEN 1 ELSE 0
      BY <2>1, <3>1, <3>5
    <3>7. {i \in Numbers : out[i] > 0} = Expected
      <4>1. Expected \subseteq Numbers
        BY <3>2
      <4>2. \A i \in Numbers : out[i] > 0 <=> i \in Expected
        BY <3>6
      <4> QED BY <4>1, <4>2, Zenon
    <3> QED BY <3>1, <3>6, <3>7
  <2>8. CASE prog = "second"
    <3>1. /\ Only(TestedBelow(LEFT + n)) /\ Joined
          /\ \A w \in Workers : /\ pc[w] \in {"start", "claim", "unlock", "test", "done"}
                                /\ pc[w] = "done" => LEFT + n > RIGHT
      BY <2>0, <2>8 DEF SecondInv
    <3>2. \A w \in Workers : pc[w] = "done" /\ ~Has(w)
      BY <2>2, <3>1 DEF Has
    <3>3. LEFT + n > RIGHT /\ n \in Int
      BY <2>0, <3>1, <3>2 DEF SearchTypeOK
    <3>4. \A i \in LEFT .. RIGHT : i < LEFT + n
      BY <3>3
    <3>5. \A i : Found(i) <=> Prime(i)
      BY <2>8 DEF Found, BelowHalf
    <3>6. \A i \in Numbers : i \in TestedBelow(LEFT + n) <=> i \in Expected
      BY <2>8, <2>a, <3>2, <3>4, <3>5 DEF TestedBelow
    <3> QED BY <2>1, <2>8, <3>1, <3>6
  <2>9. CASE prog \in {"pool_busy", "pool_notice"}
    <3>1. /\ Only(TestedBelow(Handed) \ {n}) /\ Joined /\ n = -1 /\ reg[Main] = RIGHT + 1
          /\ \A w \in Workers : pc[w] \in {"start", "look", "unlock", "test", "done"}
      BY <2>0, <2>9 DEF PoolInv
    <3>2. \A w \in Workers : ~Has(w)
      BY <2>2, <3>1 DEF Has
    <3>3. \A i \in LEFT .. RIGHT : i < Handed /\ i # n
      BY <3>1 DEF Handed
    <3>5. \A i : Found(i) <=> Prime(i)
      BY <2>9 DEF Found, BelowHalf
    <3>6. \A i \in Numbers : i \in TestedBelow(Handed) \ {n} <=> i \in Expected
      BY <2>9, <2>a, <3>2, <3>3, <3>5 DEF TestedBelow
    <3> QED BY <2>1, <2>9, <3>1, <3>6
  <2> QED BY <2>3, <2>4, <2>5, <2>6, <2>7, <2>8, <2>9 DEF PrimePrograms, Alone
<1> QED BY <1>1, PrimesInvariance, PTL
=============================================================================
