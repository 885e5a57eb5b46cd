------------------------------ MODULE Buffers ------------------------------
(***************************************************************************)
(* The programs with a limited resource: the counting semaphore library    *)
(* mysemphon, two producers and two consumers, the parking lot, producers  *)
(* and consumers on two semaphores, and the threads that a semaphore lets  *)
(* in a few at a time.  n is what each of them counts.                     *)
(***************************************************************************)
EXTENDS Pthreads

BufferPrograms == {"mysem", "pc", "parking", "sem_pc", "sem"}

\* Half of the threads put in, the others take out.
Producers == {t \in Workers : 2 * t < THRNUM}
Consumers == Workers \ Producers

BuffersInit ==
    /\ prog \in BufferPrograms
    /\ StartAt(Created(THRNUM, "start"),
               IF prog \in {"mysem", "parking"} THEN Capacity ELSE 0)
    /\ sem = [empty |-> Capacity, full |-> 0]

\* Thread/posix/mysemphon/mysem.c has no program of its own: each thread here
\* asks for an amount, has it for a while and gives it back.
Amount(t) == IF t = 0 THEN Capacity ELSE 1

mysem_sub(t, a, b, amount) ==
    \/ Lock(t, a, "subtest", 0)
    \/ n < amount /\ CondWait(t, "subtest", a, "cond")
    \/ n >= amount /\ Store(t, "subtest", "subunlock", n - amount)
    \/ Unlock(t, "subunlock", b, 0)

\* The broadcast comes before the addition, but both under the mutex.
mysem_add(t, a, b, amount) ==
    \/ Lock(t, a, "addnotice", 0)
    \/ /\ Step(t, "addnotice", "addunlock")
       /\ asleep' = Broadcasted("cond") /\ n' = n + amount
       /\ UNCHANGED <<mutex, sem, m, reg, left, out>>
    \/ Unlock(t, "addunlock", b, 0)

mysem_user(t) ==
    \/ mysem_sub(t, "start", "holding", Amount(t))
    \/ mysem_add(t, "holding", "next", Amount(t))
    \/ Round(t, "next", "start", "done")

\* Variant: a producer goes on without testing again after a wake-up.
prod_if(t) ==
    \/ Lock(t, "start", "test", 0)
    \/ n = Capacity /\ CondWait(t, "test", "again", "not_full")
    \/ Lock(t, "again", "put", 0)
    \/ n < Capacity /\ Goto(t, "test", "put")
    \/ Store(t, "put", "unlock", n + 1)
    \/ Unlock(t, "unlock", "notify", 0)
    \/ /\ Step(t, "notify", "next")
       /\ asleep' = Broadcasted("not_empty")
       /\ UNCHANGED <<mutex, sem, data>>
    \/ Round(t, "next", "start", "done")

\* thread/posix/productor_consumer/pc.c: the broadcast follows the unlock.
prod(t) ==
    \/ Lock(t, "start", "test", 0)
    \/ n = Capacity /\ CondWait(t, "test", "start", "not_full")
    \/ n # Capacity /\ Store(t, "test", "unlock", n + 1)
    \/ Unlock(t, "unlock", "notify", 0)
    \/ /\ Step(t, "notify", "next")
       /\ asleep' = Broadcasted("not_empty")
       /\ UNCHANGED <<mutex, sem, data>>
    \/ Round(t, "next", "start", "done")

cons(t) ==
    \/ Lock(t, "start", "test", 0)
    \/ n = 0 /\ CondWait(t, "test", "start", "not_empty")
    \/ n # 0 /\ Store(t, "test", "unlock", n - 1)
    \/ Unlock(t, "unlock", "notify", 0)
    \/ /\ Step(t, "notify", "next")
       /\ asleep' = Broadcasted("not_full")
       /\ UNCHANGED <<mutex, sem, data>>
    \/ Round(t, "next", "start", "done")

\* homework/parking.c: n is remain_size; the signal is sent under the mutex.
enter_car(t) ==
    \/ Lock(t, "start", "test", 0)
    \/ n = 0 /\ CondWait(t, "test", "start", "not_full")
    \/ /\ n # 0 /\ Step(t, "test", "unlock")
       /\ n' = n - 1 /\ asleep' \in Signalled("not_empty")
       /\ UNCHANGED <<mutex, sem, m, reg, left, out>>
    \/ Unlock(t, "unlock", "next", 0)
    \/ Round(t, "next", "start", "done")

exit_car(t) ==
    \/ Lock(t, "start", "test", 0)
    \/ n = Capacity /\ CondWait(t, "test", "start", "not_empty")
    \/ /\ n # Capacity /\ Step(t, "test", "unlock")
       /\ n' = n + 1 /\ asleep' \in Signalled("not_full")
       /\ UNCHANGED <<mutex, sem, m, reg, left, out>>
    \/ Unlock(t, "unlock", "next", 0)
    \/ Round(t, "next", "start", "done")

\* homework/sem_prod_cons.c: n is produced_count, m is consumed_count.
productor(t) ==
    \/ SemWait(t, "start", "lock", "empty")
    \/ Lock(t, "lock", "count", 0)
    \/ Store(t, "count", "unlock", n + 1)
    \/ Unlock(t, "unlock", "post", 0)
    \/ SemPost(t, "post", "next", "full")
    \/ Round(t, "next", "start", "done")

consumer(t) ==
    \/ SemWait(t, "start", "lock", "full")
    \/ Lock(t, "lock", "count", 0)
    \/ /\ Step(t, "count", "unlock")
       /\ m' = m + 1
       /\ UNCHANGED <<locks, n, reg, left, out>>
    \/ Unlock(t, "unlock", "post", 0)
    \/ SemPost(t, "post", "next", "empty")
    \/ Round(t, "next", "start", "done")

\* Newer/semaphore/sem.c
task_sem(t) ==
    \/ SemWait(t, "start", "inside", "empty")
    \/ SemPost(t, "inside", "done", "empty")

BufferStep(t) ==
    \/ prog = "mysem" /\ mysem_user(t)
    \/ prog = "pc" /\ t \in Producers /\ prod(t)
    \/ prog = "pc" /\ t \in Consumers /\ cons(t)
    \/ prog = "parking" /\ t \in Producers /\ enter_car(t)
    \/ prog = "parking" /\ t \in Consumers /\ exit_car(t)
    \/ prog = "sem_pc" /\ t \in Producers /\ productor(t)
    \/ prog = "sem_pc" /\ t \in Consumers /\ consumer(t)
    \/ prog = "sem" /\ task_sem(t)
=============================================================================
