------------------------------ MODULE Pthreads ------------------------------
(***************************************************************************)
(* What the threaded and forking programs of the repository use of the     *)
(* system: mutexes, condition variables, semaphores, shared integers and   *)
(* the memory of each thread.  Every operator is one step of thread t from *)
(* program point a to program point b.  The programs themselves are in     *)
(* Counters, Buffers, Turns and Primes, which extend this module and share *)
(* its variables; module Threads runs them.                                *)
(*                                                                         *)
(* A thread that is created late is one that takes its first step late, so *)
(* the loops of main that create and join threads have no steps here: a    *)
(* thread that pthread_create or fork failed to make is at "none".         *)
(***************************************************************************)
EXTENDS Integers, FiniteSets

CONSTANTS THRNUM,    \* threads of a program
          Rounds,    \* iterations of the loops over a constant count
          Capacity,  \* places of a buffer, a parking lot or a semaphore
          LEFT, RIGHT  \* the numbers to search for primes

ASSUME ThreadsAssumption ==
    /\ THRNUM \in Nat \ {0, 1, 2}
    /\ Rounds \in Nat \ {0, 1}
    /\ {Capacity, LEFT} \subseteq Nat \ {0}
    /\ RIGHT \in Nat /\ RIGHT >= LEFT
    /\ Capacity <= RIGHT       \* out has a place for every ticket

Main    == -1                          \* the thread that runs main()
Workers == 0 .. THRNUM - 1
Threads == Workers \cup {Main}
Nobody  == -2

VARIABLES
  prog,            \* which program runs
  pc,              \* [Threads -> program point]
  mutex,           \* [Workers -> the thread that locked it last, or Nobody]
  asleep,          \* [Threads -> the condition variable it waits on, or "awake"]
  sem,             \* ["empty", "full" -> value of the semaphore]
  n, m,            \* the shared integers
  reg, left,       \* [Threads -> Int]: local value; iterations left
  out              \* history: how often each number was written (2: more than once)

locks == <<mutex, asleep, sem>>
data  == <<n, m, reg, left, out>>
vars  == <<prog, pc, locks, data>>

Numbers == 1 - THRNUM .. RIGHT

StartAt(start, value) ==
    /\ pc = start
    /\ mutex = [w \in Workers |-> Nobody]
    /\ asleep = [t \in Threads |-> "awake"]
    /\ n = value /\ m = 0
    /\ reg = [t \in Threads |-> 0]
    /\ left = [t \in Threads |-> Rounds]
    /\ out = [i \in Numbers |-> 0]

\* The threads of a program in which pthread_create or fork fails for the
\* thread k and those after it are not tried.
Created(k, first) == [t \in Threads |-> IF t \in 0 .. k - 1 THEN first ELSE "none"]

Step(t, a, b) ==
    /\ pc[t] = a /\ asleep[t] = "awake"
    /\ pc' = [pc EXCEPT ![t] = b]
    /\ UNCHANGED prog

Goto(t, a, b) == Step(t, a, b) /\ UNCHANGED <<locks, data>>

\* The default mutex of glibc has no owner: whoever unlocks it, it is free.
Lock(t, a, b, k) ==
    /\ mutex[k] = Nobody
    /\ Step(t, a, b)
    /\ mutex' = [mutex EXCEPT ![k] = t]
    /\ UNCHANGED <<asleep, sem, data>>

Unlock(t, a, b, k) ==
    /\ Step(t, a, b)
    /\ mutex' = [mutex EXCEPT ![k] = Nobody]
    /\ UNCHANGED <<asleep, sem, data>>

\* pthread_cond_wait(c, mutex 0): unlock and sleep in one step; b is where
\* the mutex is locked again, and no step is taken from there while asleep.
CondWait(t, a, b, c) ==
    /\ Step(t, a, b)
    /\ mutex' = [mutex EXCEPT ![0] = Nobody]
    /\ asleep' = [asleep EXCEPT ![t] = c]
    /\ UNCHANGED <<sem, data>>

\* What pthread_cond_signal may leave: one of the sleepers is awake.
Signalled(c) ==
    LET S == {t \in Threads : asleep[t] = c} IN
    IF S = {} THEN {asleep} ELSE {[asleep EXCEPT ![t] = "awake"] : t \in S}

Broadcasted(c) == [t \in Threads |-> IF asleep[t] = c THEN "awake" ELSE asleep[t]]

\* pthread_cond_wait may return though nobody signalled.
SpuriousWakeup(t) ==
    /\ asleep[t] # "awake"
    /\ asleep' = [asleep EXCEPT ![t] = "awake"]
    /\ UNCHANGED <<prog, pc, mutex, sem, data>>

SemWait(t, a, b, s) ==
    /\ sem[s] > 0
    /\ Step(t, a, b)
    /\ sem' = [sem EXCEPT ![s] = @ - 1]
    /\ UNCHANGED <<mutex, asleep, data>>

SemPost(t, a, b, s) ==
    /\ Step(t, a, b)
    /\ sem' = [sem EXCEPT ![s] = @ + 1]
    /\ UNCHANGED <<mutex, asleep, data>>

Load(t, a, b) ==
    /\ Step(t, a, b)
    /\ reg' = [reg EXCEPT ![t] = n]
    /\ UNCHANGED <<locks, n, m, left, out>>

Store(t, a, b, value) ==
    /\ Step(t, a, b)
    /\ n' = value
    /\ UNCHANGED <<locks, m, reg, left, out>>

\* The end of an iteration: on to again, or to over after the last one.
Round(t, a, again, over) ==
    /\ Step(t, a, IF left[t] > 1 THEN again ELSE over)
    /\ left' = [left EXCEPT ![t] = @ - 1]
    /\ UNCHANGED <<locks, n, m, reg, out>>

\* exit() in a thread ends them all; in a process only that process.
ExitAll(t, a) ==
    /\ pc[t] = a
    /\ pc' = [u \in Threads |-> IF pc[u] = "none" THEN "none" ELSE "exit"]
    /\ UNCHANGED <<prog, locks, data>>

Written(i) == [out EXCEPT ![i] = IF @ = 0 THEN 1 ELSE 2]

Over(t) == pc[t] \in {"none", "done", "failed", "exit"}
Ended   == \A t \in Threads : Over(t)
=============================================================================
