------------------------------- MODULE Primes -------------------------------
(***************************************************************************)
(* The programs that search for primes: one process, a process per number, *)
(* a few processes that share the numbers out, threads with ranges of      *)
(* their own, threads that claim the next number, and the two pools that   *)
(* hand numbers to their threads one at a time through num.                *)
(*                                                                         *)
(* LEFT .. RIGHT stands for the source's ranges.  Testing one number and   *)
(* writing it is one step: only the thread's own variables and its output  *)
(* take part.                                                              *)
(***************************************************************************)
EXTENDS Pthreads

ASSUME PrimesAssumption == LEFT >= 2      \* 2 or 30000000

PrimePrograms == {"primer0", "primer1", "thread0", "by_one", "thread1", "thread3",
                  "thread4", "by_four", "second", "pool_busy", "pool_notice"}

\* The reference.
Prime(i) == i > 1 /\ \A j \in 2 .. i - 1 : i % j # 0

\* The loops of the programs; they leave mark set when they find no divisor.
mark_below_half(i) == \A j \in 2 .. i \div 2 - 1 : i % j # 0
mark_to_half(i)    == \A j \in 2 .. i \div 2 : i % j # 0
mark_to_root(i)    == \A j \in 2 .. i : j * j <= i => i % j # 0
mark_odd_to_root(i) ==
    CASE i < 2               -> FALSE
      [] i = 2               -> TRUE
      [] i > 2 /\ i % 2 = 0  -> FALSE
      [] OTHER               -> \A j \in {k \in 3 .. i : k % 2 = 1 /\ k * k <= i} : i % j # 0

Alone == {"primer0", "primer1", "thread0"}

\* The programs with a process for every number: THRNUM is at least so many.
PerNumber == {"thread1", "thread3"}

PrimesInit ==
    /\ prog \in PrimePrograms
    /\ prog \in PerNumber => RIGHT - LEFT < THRNUM
    /\ prog = "by_four" => 2 * THRNUM <= RIGHT      \* all ranges begin above 2
    /\ pc = [t \in Threads |->
               CASE prog \in Alone -> IF t = Main THEN "test" ELSE "none"
                 [] prog = "by_one" -> CASE t = Main -> "join" [] t = 0 -> "start" [] OTHER -> "none"
                 [] prog \in {"thread1", "thread3", "thread4"} ->
                       IF t = Main THEN "fork" ELSE "none"
                 [] prog \in {"by_four", "second"} -> IF t = Main THEN "join" ELSE "start"
                 [] OTHER -> IF t = Main THEN "lock" ELSE "start"]
    /\ mutex = [w \in Workers |-> Nobody]
    /\ asleep = [t \in Threads |-> "awake"]
    /\ sem = [empty |-> 0, full |-> 0]
    /\ n = 0 /\ m = 0
    /\ reg = [t \in Threads |-> IF t = Main THEN LEFT ELSE 0]
    /\ left = [t \in Threads |-> Rounds]
    /\ out = [i \in Numbers |-> 0]

\* The local variable becomes value.
Set(t, a, b, value) ==
    /\ Step(t, a, b)
    /\ reg' = [reg EXCEPT ![t] = value]
    /\ UNCHANGED <<locks, n, m, left, out>>

\* Number reg[t] is tested and, when mark says so, written.
Test(t, a, b, mark, following) ==
    /\ Step(t, a, b)
    /\ out' = IF mark THEN Written(reg[t]) ELSE out
    /\ reg' = [reg EXCEPT ![t] = following]
    /\ UNCHANGED <<locks, n, m, left>>

Join(a, b) == (\A w \in Workers : Over(w)) /\ Goto(Main, a, b)

-----------------------------------------------------------------------------
\* One process.

\* primer0.c, and primer_xhl.c, which is the same.
primer0 == /\ reg[Main] <= RIGHT
           /\ Test(Main, "test", "test", mark_odd_to_root(reg[Main]), reg[Main] + 1)

primer1 == /\ reg[Main] <= RIGHT
           /\ Test(Main, "test", "test", mark_below_half(reg[Main]), reg[Main] + 1)

\* thread0.c never sets mark again after the first composite; m is 1 - mark.
thread0 == /\ reg[Main] <= RIGHT
           /\ Step(Main, "test", "test")
           /\ m' = IF mark_below_half(reg[Main]) THEN m ELSE 1
           /\ out' = IF m' = 0 THEN Written(reg[Main]) ELSE out
           /\ reg' = [reg EXCEPT ![Main] = @ + 1]
           /\ UNCHANGED <<locks, n, left>>

AloneStep ==
    \/ prog = "primer0" /\ primer0
    \/ prog = "primer1" /\ primer1
    \/ prog = "thread0" /\ thread0
    \/ reg[Main] > RIGHT /\ Goto(Main, "test", "done")

\* Newer/primer_by_one.c: one thread, 2 and then the odd numbers.  It writes
\* nothing when it cannot open its file.
primer_by_one(t) ==
    \/ Goto(t, "start", "failed")
    \/ /\ Step(t, "start", "test")
       /\ out' = Written(2)
       /\ reg' = [reg EXCEPT ![t] = 3]
       /\ UNCHANGED <<locks, n, m, left>>
    \/ /\ reg[t] <= RIGHT
       /\ Test(t, "test", "test", mark_odd_to_root(reg[t]), reg[t] + 2)
    \/ reg[t] > RIGHT /\ Goto(t, "test", "done")

-----------------------------------------------------------------------------
\* A process per number, and a process per residue.

\* fork(): child c is at its first number, the parent goes on to the next.
Fork(c, last) ==
    /\ pc[Main] = "fork" /\ pc[c] = "none"
    /\ pc' = [pc EXCEPT ![c] = "test", ![Main] = IF last THEN "forked" ELSE "fork"]
    /\ reg' = [reg EXCEPT ![c] = reg[Main], ![Main] = @ + 1]
    /\ UNCHANGED <<prog, locks, n, m, left, out>>

\* thread1.c, and primer2.c, which is the same: nobody waits for the children.
thread1(t) ==
    \/ t = reg[Main] - LEFT /\ Fork(t, reg[Main] = RIGHT)
    \/ t = Main /\ (Goto(t, "fork", "failed") \/ Goto(t, "forked", "done"))
    \/ t # Main /\ Test(t, "test", "sleep", mark_below_half(reg[t]), reg[t])
    \/ Goto(t, "sleep", "done")

\* Variant: the parent does not wait.
thread3_nowait(t) ==
    \/ t = reg[Main] - LEFT /\ Fork(t, reg[Main] = RIGHT)
    \/ t = Main /\ (Goto(t, "fork", "failed") \/ Goto(t, "forked", "done"))
    \/ t # Main /\ Test(t, "test", "done", mark_below_half(reg[t]), reg[t])

\* thread3.c: the parent waits for as many children as there are numbers.
thread3(t) ==
    \/ t = reg[Main] - LEFT /\ Fork(t, reg[Main] = RIGHT)
    \/ t = Main /\ (Goto(t, "fork", "failed") \/ Join("forked", "done"))
    \/ t # Main /\ Test(t, "test", "done", mark_below_half(reg[t]), reg[t])

\* thread4.c: N children, each with every N-th number.
N == THRNUM - 1
thread4(t) ==
    \/ t = reg[Main] - LEFT /\ Fork(t, t = N - 1)
    \/ t = Main /\ (Goto(t, "fork", "failed") \/ Join("forked", "done"))
    \/ /\ t # Main /\ reg[t] <= RIGHT
       /\ Test(t, "test", "test", mark_below_half(reg[t]), reg[t] + N)
    \/ t # Main /\ reg[t] > RIGHT /\ Goto(t, "test", "done")

-----------------------------------------------------------------------------
\* Threads.

\* Newer/primer_by_four.c.  With other tables of ranges the threads are those of
\* primer_by_eight.c, _sixteen.c, _24.c and _32.c too: range t of 3 .. RIGHT ends
\* at (t + 1) / THRNUM.  (But those four put together primes_*.txt and write
\* primes8_1.txt and so on, so theirs are not in primes_all.txt.)  No range of
\* the tables holds 2, which primer would write.
right(t)  == ((t + 1) * RIGHT) \div THRNUM
left_of(t) == IF t = 0 THEN 3 ELSE right(t - 1) + 1
odd(i)     == IF i % 2 = 0 THEN i + 1 ELSE i

\* Each thread writes a file of its own, if it can open it; main joins the
\* threads and then puts the files together (m is the number of primes in
\* primes_all.txt).
primer_by_four(t) ==
    \/ t # Main /\ Goto(t, "start", "failed")
    \/ t # Main /\ Set(t, "start", "test", odd(left_of(t)))
    \/ /\ t # Main /\ reg[t] <= right(t)
       /\ Test(t, "test", "test", mark_odd_to_root(reg[t]), reg[t] + 2)
    \/ t # Main /\ reg[t] > right(t) /\ Goto(t, "test", "done")
    \/ t = Main /\ Join("join", "cat")
    \/ /\ Step(t, "cat", "done")
       /\ m' = Cardinality({i \in Numbers : out[i] > 0})
       /\ UNCHANGED <<locks, n, reg, left, out>>

\* Newer/second.c: the next number, LEFT + count, is claimed under the mutex.
primer_second(t) ==
    \/ t # Main /\ Lock(t, "start", "claim", 0)
    \/ /\ Step(t, "claim", "unlock")
       /\ reg' = [reg EXCEPT ![t] = LEFT + n] /\ n' = n + 1
       /\ UNCHANGED <<locks, m, left, out>>
    \/ Unlock(t, "unlock", "test", 0)
    \/ t # Main /\ reg[t] > RIGHT /\ Goto(t, "test", "done")
    \/ /\ t # Main /\ reg[t] <= RIGHT
       /\ Test(t, "test", "start", mark_to_root(reg[t]), 0)
    \/ t = Main /\ Join("join", "done")

-----------------------------------------------------------------------------
\* The pools.  n is num: 0 when taken, -1 at the end.

\* thread/posix/primer_pool_busy.c unlocks, yields and locks again to wait.
thr_primer_busy(t) ==
    \/ Lock(t, "start", "look", 0)
    \/ n = 0 /\ Unlock(t, "look", "start", 0)
    \/ n = -1 /\ Unlock(t, "look", "done", 0)
    \/ /\ n > 0 /\ Step(t, "look", "unlock")
       /\ reg' = [reg EXCEPT ![t] = n] /\ n' = 0
       /\ UNCHANGED <<locks, m, left, out>>
    \/ Unlock(t, "unlock", "test", 0)
    \/ Test(t, "test", "start", mark_to_half(reg[t]), 0)

main_busy(t) ==
    \/ Lock(t, "lock", "look", 0)
    \/ n # 0 /\ Unlock(t, "look", "lock", 0)
    \/ n = 0 /\ Store(t, "look", "unlock", IF reg[t] <= RIGHT THEN reg[t] ELSE -1)
    \/ reg[t] <= RIGHT /\ Unlock(t, "unlock", "more", 0)
    \/ reg[t] > RIGHT /\ Unlock(t, "unlock", "join", 0)
    \/ Set(t, "more", "lock", reg[t] + 1)
    \/ Join("join", "done")

\* thread/posix/mytbf_multithread/primer_pool_notice.c: main and the threads
\* share one condition variable.
thr_primer_notice(t) ==
    \/ Lock(t, "start", "look", 0)
    \/ n = 0 /\ CondWait(t, "look", "start", "cond_num")
    \/ n = -1 /\ Unlock(t, "look", "done", 0)
    \/ /\ n > 0 /\ Step(t, "look", "unlock")
       /\ reg' = [reg EXCEPT ![t] = n] /\ n' = 0
       /\ asleep' = Broadcasted("cond_num")
       /\ UNCHANGED <<mutex, sem, m, left, out>>
    \/ Unlock(t, "unlock", "test", 0)
    \/ Test(t, "test", "start", mark_to_half(reg[t]), 0)

\* Main waits on the condition variable for a number to be taken, except for
\* the last one, for which it yields in a loop; it wakes one thread for a
\* number and all of them at the end.
main_notice(t) ==
    \/ Lock(t, "lock", "look", 0)
    \/ n # 0 /\ reg[t] <= RIGHT /\ CondWait(t, "look", "lock", "cond_num")
    \/ n # 0 /\ reg[t] > RIGHT /\ Unlock(t, "look", "lock", 0)
    \/ /\ n = 0 /\ Step(t, "look", "unlock")
       /\ n' = IF reg[t] <= RIGHT THEN reg[t] ELSE -1
       /\ \/ reg[t] <= RIGHT /\ asleep' \in Signalled("cond_num")
          \/ reg[t] > RIGHT /\ asleep' = Broadcasted("cond_num")
       /\ UNCHANGED <<mutex, sem, m, reg, left, out>>
    \/ reg[t] <= RIGHT /\ Unlock(t, "unlock", "more", 0)
    \/ reg[t] > RIGHT /\ Unlock(t, "unlock", "join", 0)
    \/ Set(t, "more", "lock", reg[t] + 1)
    \/ Join("join", "done")

PrimeStep(t) ==
    \/ prog \in Alone /\ t = Main /\ AloneStep
    \/ prog = "by_one" /\ IF t = Main THEN Join("join", "done") ELSE primer_by_one(t)
    \/ prog = "thread1" /\ thread1(t)
    \/ prog = "thread3" /\ thread3(t)
    \/ prog = "thread4" /\ thread4(t)
    \/ prog = "by_four" /\ primer_by_four(t)
    \/ prog = "second" /\ primer_second(t)
    \/ prog = "pool_busy" /\ IF t = Main THEN main_busy(t) ELSE thr_primer_busy(t)
    \/ prog = "pool_notice" /\ IF t = Main THEN main_notice(t) ELSE thr_primer_notice(t)

-----------------------------------------------------------------------------
\* What each program writes: the primes of its range.  The ranges of
\* primer_by_four.c begin at 3, so 2 is missing, and so are the ranges of the
\* threads that failed; thread0.c stops writing at the first number that is not
\* prime.  The loops that stop below the half find no divisor of 4.
Failed == {t \in Workers : pc[t] = "failed"}
BelowHalf == {"primer1", "thread0", "thread1", "thread3", "thread4"}
Found(i) == Prime(i) \/ (prog \in BelowHalf /\ i = 4)
Expected ==
    CASE prog = "by_one"  -> {i \in 2 .. RIGHT : Prime(i) /\ Failed = {}}
      [] prog = "by_four" -> {i \in 3 .. RIGHT :
                                Prime(i) /\ \A t \in Failed : i \notin left_of(t) .. right(t)}
      [] prog = "thread0" -> {i \in LEFT .. RIGHT : \A j \in LEFT .. i : Found(j)}
      [] prog \notin {"by_one", "by_four", "thread0"} -> {i \in LEFT .. RIGHT : Found(i)}

\* When main is back from its joins and waits (for thread1.c, which does not
\* wait, when the last child is over) every prime of the range has been written
\* exactly once and nothing else has; and the merged file is complete.
PrimesPrinted ==
    prog \in PrimePrograms /\ pc[Main] = "done" /\ (prog = "thread1" => Ended) =>
       /\ \A i \in Numbers : out[i] = IF i \in Expected THEN 1 ELSE 0
       /\ prog = "by_four" => m = Cardinality(Expected)
=============================================================================
