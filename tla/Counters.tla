------------------------------ MODULE Counters ------------------------------
(***************************************************************************)
(* The programs whose threads or processes add to one shared number: the   *)
(* three add_race.c, the counters with a mutex, with none, with a spin     *)
(* lock and with a semaphore, and the ticket office of homework/tickets.c. *)
(* The shared number, be it in a file or in memory, is n.                  *)
(***************************************************************************)
EXTENDS Pthreads

CounterPrograms == {"add_thread", "add_sem", "add_lockf", "with_lock", "wo_lock",
                    "spin_lock", "sem_pv", "tickets"}

\* How many threads a program makes.  pthread_create or fork may fail in the
\* add_race.c; main then waits for those it has made.
Size == IF prog \in {"with_lock", "wo_lock", "sem_pv"} THEN 2 ELSE 3

CountersInit ==
    /\ prog \in CounterPrograms
    /\ \E k \in IF prog \in {"add_thread", "add_sem", "add_lockf"} THEN 0 .. Size ELSE {Size} :
          StartAt(Created(k, "start"), IF prog = "tickets" THEN Capacity ELSE 0)
    /\ sem = [empty |-> 1, full |-> 0]

\* Variant: the file is read before the mutex is taken.
ReadsUnlocked(t) ==
    \/ Load(t, "start", "lock") \/ ExitAll(t, "start")
    \/ Lock(t, "lock", "write", 0)
    \/ Store(t, "write", "unlock", reg[t] + 1)
    \/ Unlock(t, "unlock", "done", 0)

\* thread/posix/add_race.c: read the file, add one, write it back, all under
\* the mutex.  When fopen fails the thread ends the process.
thr_func(t) ==
    \/ Lock(t, "start", "read", 0) \/ ExitAll(t, "start")
    \/ Load(t, "read", "write")
    \/ Store(t, "write", "unlock", reg[t] + 1)
    \/ Unlock(t, "unlock", "done", 0)

\* IPC/xsi/sem/add_race.c.  The process fails when fopen does, and also when
\* semop is interrupted: errno != EINTR || errno != EAGAIN is always true.  The
\* lockf on an uninitialised descriptor unlocks nothing.
P(t, a, b) == SemWait(t, a, b, "empty") \/ Goto(t, a, "failed")
V(t, a, b) == SemPost(t, a, b, "empty")

func_add_sem(t) ==
    \/ P(t, "start", "read")
    \/ Load(t, "read", "write")
    \/ Store(t, "write", "post", reg[t] + 1)
    \/ V(t, "post", "done")

\* proIO/mmap/add_race.c.  F_LOCK covers the file from its first byte; F_ULOCK
\* after the write starts at the then current offset and leaves the first bytes
\* locked, so it is fclose that lets the next process in.
func_add_lockf(t) ==
    \/ Lock(t, "start", "read", 0) \/ Goto(t, "start", "failed")
    \/ Load(t, "read", "write")
    \/ Store(t, "write", "fclose", reg[t] + 1)
    \/ Unlock(t, "fclose", "done", 0)

\* Newer/multi_thread/multi_thread_with_lock.c counts in a local variable.
handler_with_lock(t) ==
    \/ Lock(t, "start", "add", 0)
    \/ Store(t, "add", "unlock", n + Rounds)
    \/ Unlock(t, "unlock", "done", 0)

\* Newer/multi_thread/multi_thread_wo_lock.c: num++ is a load and a store.  An
\* optimising build adds the whole count at once.
handler_wo_lock(t) ==
    \/ Load(t, "start", "store")
    \/ Store(t, "store", "next", reg[t] + 1)
    \/ left[t] = Rounds /\ Store(t, "store", "done", reg[t] + Rounds)
    \/ Round(t, "next", "start", "done")

\* Newer/spin_lock/spin_lock.c: the local count starts at n, read outside the
\* lock, and n += t counts what the others had added once more.
task_spin(t) ==
    \/ Load(t, "start", "lock")
    \/ Lock(t, "lock", "add", 0)
    \/ Store(t, "add", "unlock", n + reg[t] + Rounds)
    \/ Unlock(t, "unlock", "done", 0)

\* samphore/samphorePV.c.
task_pv(t) ==
    \/ SemWait(t, "start", "load", "empty")
    \/ Load(t, "load", "store")
    \/ Store(t, "store", "post", reg[t] + 1)
    \/ SemPost(t, "post", "next", "empty")
    \/ Round(t, "next", "start", "done")

\* Variant: the office is closed one ticket early.
sale_tickets_short(t) ==
    \/ Lock(t, "start", "test", 0)
    \/ n <= 1 /\ Goto(t, "test", "done")
    \/ n > 1 /\ Load(t, "test", "sell")
    \/ /\ Step(t, "sell", "unlock")
       /\ n' = reg[t] - 1 /\ out' = Written(reg[t])
       /\ UNCHANGED <<locks, m, reg, left>>
    \/ Unlock(t, "unlock", "test", 0)

\* homework/tickets.c.  The lock is taken once, before the loop that unlocks
\* it after every sale, so all sales but the first are made without it, and a
\* window that finds no ticket leaves without unlocking.
sale_tickets(t) ==
    \/ Lock(t, "start", "test", 0)
    \/ n <= 0 /\ Goto(t, "test", "done")
    \/ n > 0 /\ Goto(t, "test", "load")
    \/ Load(t, "load", "sell")
    \/ /\ Step(t, "sell", "unlock")
       /\ n' = reg[t] - 1 /\ out' = Written(reg[t])
       /\ UNCHANGED <<locks, m, reg, left>>
    \/ Unlock(t, "unlock", "test", 0)

CounterStep(t) ==
    \/ prog = "add_thread" /\ thr_func(t)
    \/ prog = "add_sem"    /\ func_add_sem(t)
    \/ prog = "add_lockf"  /\ func_add_lockf(t)
    \/ prog = "with_lock"  /\ handler_with_lock(t)
    \/ prog = "wo_lock"    /\ handler_wo_lock(t)
    \/ prog = "spin_lock"  /\ task_spin(t)
    \/ prog = "sem_pv"     /\ task_pv(t)
    \/ prog = "tickets"    /\ sale_tickets(t)

-----------------------------------------------------------------------------
Finished == {t \in Workers : pc[t] = "done"}

\* What main prints, or the file holds, when every thread is over.  A file is
\* one higher for every thread or process that was created and did not fail;
\* the locked counters are exact; the counter without a lock may lose all but
\* two of its additions and never gains one; the one with the spin lock counts
\* Rounds at least once and at most 2^(t-1) times for the t-th of its threads.
FinalCounts ==
    Ended /\ prog \in CounterPrograms =>
       CASE prog \in {"add_thread", "add_sem", "add_lockf"} ->
               n = Cardinality(Finished) \/ \E t \in Workers : pc[t] = "exit"
         [] prog \in {"with_lock", "sem_pv"} -> n = Size * Rounds
         [] prog = "wo_lock"   -> n \in 2 .. Size * Rounds
         [] prog = "spin_lock" -> \E k \in Size .. 1 + 2 + 4 : n = k * Rounds
         [] OTHER -> TRUE

\* Main is stuck in pthread_join: whoever has not left waits for the lock.
OfficeAtRest ==
    \A t \in Workers : Over(t) \/ (pc[t] = "start" /\ mutex[0] # Nobody)

\* When the ticket office comes to rest every ticket has been sold, some
\* perhaps twice; and when a window is left waiting for the lock, the one that
\* holds it has gone (tickets.c:18 leaves the loop without unlocking).
TicketsSold ==
    prog = "tickets" /\ OfficeAtRest =>
       /\ \A i \in 1 .. Capacity : out[i] > 0
       /\ (\E t \in Workers : pc[t] = "start") => pc[mutex[0]] = "done"
=============================================================================
