------------------------------- MODULE Turns -------------------------------
(***************************************************************************)
(* The programs whose threads take turns for ever: the two rings that      *)
(* write abcdabcd..., with one mutex per thread and with one condition     *)
(* variable, and readers and a writer on a read-write lock.  m is the last *)
(* letter a ring has written.  alarm(3) ends the rings; what they promise  *)
(* is about the time before.                                               *)
(***************************************************************************)
EXTENDS Pthreads

TurnPrograms == {"ring_mutex", "ring_cond", "rw_lock"}
OutOfTurn    == -1

next(i) == IF i + 1 = THRNUM THEN 0 ELSE i + 1

\* The first ring starts with main holding every mutex and about to unlock
\* the first one; m is set so that thread 0 is next.
TurnsInit ==
    /\ prog \in TurnPrograms
    /\ pc = [t \in Threads |->
               CASE t = Main        -> IF prog = "ring_mutex" THEN "unlock" ELSE "none"
                 [] prog = "rw_lock" -> IF t = 0 THEN "wrlock" ELSE "rdlock"
                 [] OTHER           -> "lock"]
    /\ mutex = [w \in Workers |-> IF prog = "ring_mutex" THEN Main ELSE Nobody]
    /\ asleep = [t \in Threads |-> "awake"]
    /\ sem = [empty |-> 0, full |-> 0]
    /\ n = 0 /\ m = THRNUM - 1
    /\ reg = [t \in Threads |-> 0]
    /\ left = [t \in Threads |-> Rounds]
    /\ out = [i \in Numbers |-> 0]

\* write(1, &c, 1)
Letter(t) == m' = IF t = next(m) THEN t ELSE OutOfTurn

\* thread/posix/abcd_race.c.  Main's last unlock sets the ring off.
abcd_func_mutex(t) ==
    \/ t # Main /\ Lock(t, "lock", "write", t)
    \/ /\ Step(t, "write", "unlock")
       /\ Letter(t)
       /\ UNCHANGED <<locks, n, reg, left, out>>
    \/ t # Main /\ Unlock(t, "unlock", "lock", next(t))
    \/ t = Main /\ Unlock(t, "unlock", "done", 0)

\* Variant: one sleeper, perhaps the wrong one, is woken.
AbcdSignal(t) ==
    \/ Lock(t, "lock", "test", 0)
    \/ n # t /\ CondWait(t, "test", "lock", "cond")
    \/ /\ n = t /\ Step(t, "test", "unlock")
       /\ Letter(t) /\ n' = next(n)
       /\ asleep' \in Signalled("cond")
       /\ UNCHANGED <<mutex, sem, reg, left, out>>
    \/ Unlock(t, "unlock", "lock", 0)

\* Variant: the condition is not tested again after a wake-up.
AbcdIf(t) ==
    \/ Lock(t, "lock", "test", 0)
    \/ n # t /\ CondWait(t, "test", "again", "cond")
    \/ Lock(t, "again", "write", 0)
    \/ n = t /\ Goto(t, "test", "write")
    \/ /\ Step(t, "write", "unlock")
       /\ Letter(t) /\ n' = next(n)
       /\ asleep' = Broadcasted("cond")
       /\ UNCHANGED <<mutex, sem, reg, left, out>>
    \/ Unlock(t, "unlock", "lock", 0)

\* thread/posix/mytbf_multithread/abcd_race_notice.c; num is n.
abcd_func_cond(t) ==
    \/ Lock(t, "lock", "test", 0)
    \/ n # t /\ CondWait(t, "test", "lock", "cond")
    \/ /\ n = t /\ Step(t, "test", "unlock")
       /\ Letter(t) /\ n' = next(n)
       /\ asleep' = Broadcasted("cond")
       /\ UNCHANGED <<mutex, sem, reg, left, out>>
    \/ Unlock(t, "unlock", "lock", 0)

\* pthread_rwlock_t with PTHREAD_RWLOCK_PREFER_WRITER_NONRECURSIVE_NP.  A reader
\* that calls while the writer has the lock is let in when the writer unlocks;
\* one that calls while readers have it and the writer waits is kept out.
At(point) == {t \in Workers : pc[t] = point}

rdlock(t) ==
    \/ At("writing") \cup At("wrwait") = {} /\ Goto(t, "rdlock", "reading")
    \/ At("writing") # {} /\ Goto(t, "rdlock", "rdwait")

wrlock(t) ==
    \/ Goto(t, "wrlock", "wrwait")
    \/ At("reading") \cup At("writing") = {} /\ Goto(t, "wrwait", "writing")

wrunlock(t) ==
    /\ pc[t] = "writing"
    /\ pc' = [u \in Threads |-> CASE u = t            -> "wrlock"
                                  [] pc[u] = "rdwait" -> "reading"
                                  [] OTHER            -> pc[u]]
    /\ UNCHANGED <<prog, locks, m, reg, left, out>>

\* Newer/read_write_lock/rw_lock.c: thread 0 adds one to n (kept modulo 2) and
\* lets go, the others read.
myRead(t)  == rdlock(t) \/ Goto(t, "reading", "rdlock")
myWrite(t) == wrlock(t) \/ (wrunlock(t) /\ n' = (n + 1) % 2)

TurnStep(t) ==
    \/ prog = "ring_mutex" /\ abcd_func_mutex(t)
    \/ prog = "ring_cond"  /\ abcd_func_cond(t)
    \/ prog = "rw_lock"    /\ t # Main /\ (myRead(t) \/ myWrite(t))

-----------------------------------------------------------------------------
\* The rings write the letters in order, each once in a turn.
LettersInTurn == prog \in {"ring_mutex", "ring_cond"} => m # OutOfTurn
=============================================================================
