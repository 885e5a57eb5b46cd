------------------------------- MODULE MyPipe -------------------------------
(***************************************************************************)
(* The in-process pipe of src/mypipe/mypipe.c, used by any number of       *)
(* threads.  One mutex guards the whole structure and is released only by  *)
(* pthread_cond_wait, so what a call does between two waits is one step.   *)
(* Readers, writers and registrants all wait on the same condition.        *)
(*                                                                         *)
(* The bytes that are written are numbered 1, 2, 3, ... in the order of    *)
(* the calls, which is all the properties need to know of their value.     *)
(* A definition marked "Variant" is a plausible mistake in the code that   *)
(* follows it; no specification uses it.                                   *)
(***************************************************************************)
EXTENDS Integers, FiniteSets

CONSTANTS Threads,     \* the threads that use the pipe
          PIPESIZE,    \* length of data[]
          Counts,      \* the byte counts read and write are called with
          Registered,  \* do the clients register before they read and write?
          MaxBytes     \* bound: no write starts once this many bytes went in

ASSUME PipeAssumption ==
    /\ PIPESIZE \in Nat \ {0}
    /\ Counts \subseteq Nat
    /\ Registered \in BOOLEAN
    /\ MaxBytes \in Nat

VARIABLES
  me,                  \* "none", "live" or "freed"
  head, tail, data, datasize, count_rd, count_wr,    \* struct mypipe_st
  cond,                \* the threads blocked in pthread_cond_wait
  pc,                  \* a thread: "new", "ready", inside a call, or "gone"
  opmap,               \* the roles a thread registered
  count,               \* the count argument of its read or write
  written,             \* history: the number of bytes accepted by write
  got                  \* history: the number of bytes delivered by read

struct  == <<me, head, tail, data, datasize, count_rd, count_wr>>
history == <<written, got>>
vars    == <<struct, cond, pc, opmap, count, history>>

Cells == 0 .. PIPESIZE - 1

Min2(a, b) == IF a < b THEN a ELSE b

Goto(t, l) == pc' = [pc EXCEPT ![t] = l]

\* pthread_cond_wait: the caller blocks and the mutex is free again.
Block(t, l) ==
    /\ cond' = cond \cup {t}
    /\ Goto(t, l)

broadcast == cond' = {}

\* static int next(int head)
next(h) == h % PIPESIZE

\* The cells that n calls of readbyte or writebyte visit, starting at h.
Visit(h, n) ==
    LET at[k \in 1 .. n + 1] == IF k = 1 THEN h ELSE next(at[k - 1]) IN at

\* Variant: the loop of mypipe_read does not see that the pipe is empty, and goes
\* one byte too far.
TakeBytesTooMany(n) ==
    /\ got' = got + n + 1
    /\ head' = Visit(head, n + 1)[n + 2]
    /\ datasize' = datasize - n - 1

\* n bytes through mypipe_readbyte_unlocked and mypipe_writebyte_unlocked:
\* the loops stop when the pipe is empty or full.
TakeBytes(n) ==
    /\ got' = got + n
    /\ head' = Visit(head, n)[n + 1]
    /\ datasize' = datasize - n

PutBytes(n) ==
    LET at == Visit(tail, n)
        Hits(c) == {k \in 1 .. n : at[k] = c}
        Last(S) == CHOOSE k \in S : \A j \in S : j <= k
    IN
    /\ data' = [c \in Cells |-> IF Hits(c) = {} THEN data[c] ELSE written + Last(Hits(c))]
    /\ tail' = at[n + 1]
    /\ datasize' = datasize + n
    /\ written' = written + n

\* data[] is uninitialised; no read may depend on it, so 0 stands for garbage.
Init ==
    /\ me = "none"
    /\ head = 0 /\ tail = 0 /\ datasize = 0
    /\ count_rd = 0 /\ count_wr = 0
    /\ data = [c \in Cells |-> 0]
    /\ cond = {}
    /\ pc = [t \in Threads |-> "new"]
    /\ opmap = [t \in Threads |-> {}]
    /\ count = [t \in Threads |-> 0]
    /\ written = 0
    /\ got = 0

mypipe_init ==
    /\ me = "none"
    /\ me' = "live"
    /\ head' = 0 /\ tail' = 0 /\ datasize' = 0
    /\ count_rd' = 0 /\ count_wr' = 0
    /\ UNCHANGED <<data, cond, pc, opmap, count, history>>

-----------------------------------------------------------------------------
\* mypipe_register.  An opmap without a role or with other bits is refused.

\* Variant: the thread that completes the pair wakes nobody.
RegisterEnterSilent(t, roles) ==
    /\ me = "live"
    /\ pc[t] = "new"
    /\ count_rd' = count_rd + (IF "READ" \in roles THEN 1 ELSE 0)
    /\ count_wr' = count_wr + (IF "WRITE" \in roles THEN 1 ELSE 0)
    /\ opmap' = [opmap EXCEPT ![t] = roles]
    /\ IF count_rd' <= 0 \/ count_wr' <= 0
         THEN Block(t, "reg_wait")
         ELSE Goto(t, "ready") /\ UNCHANGED cond
    /\ UNCHANGED <<me, head, tail, data, datasize, count, history>>

RegisterEnter(t, roles) ==
    /\ me = "live"
    /\ pc[t] = "new"
    /\ count_rd' = count_rd + (IF "READ" \in roles THEN 1 ELSE 0)
    /\ count_wr' = count_wr + (IF "WRITE" \in roles THEN 1 ELSE 0)
    /\ opmap' = [opmap EXCEPT ![t] = roles]
    /\ IF count_rd' <= 0 \/ count_wr' <= 0
         THEN Block(t, "reg_wait")
         ELSE broadcast /\ Goto(t, "ready")
    /\ UNCHANGED <<me, head, tail, data, datasize, count, history>>

\* Back from pthread_cond_wait with the mutex.
RegisterWake(t) ==
    /\ pc[t] = "reg_wait"
    /\ t \notin cond
    /\ IF count_rd <= 0 \/ count_wr <= 0
         THEN Block(t, "reg_wait")
         ELSE broadcast /\ Goto(t, "ready")
    /\ UNCHANGED <<struct, opmap, count, history>>

\* mypipe_unregister.  In the guard != binds tighter than |, so it is
\* (opmap | 1) && (opmap | 1): true for every opmap, and -1 is returned.
\* The thread is done with the pipe and ends.
mypipe_unregister(t) ==
    /\ me = "live"
    /\ pc[t] = "ready"
    /\ Goto(t, "gone")
    /\ UNCHANGED <<struct, cond, opmap, count, history>>

-----------------------------------------------------------------------------
\* mypipe_read and mypipe_write, from the lock or the wake-up to the next wait
\* or the unlock.  Neither checks that the caller has registered.

Idle(t) ==
    /\ me = "live"
    /\ pc[t] = "ready" \/ (pc[t] = "new" /\ ~Registered)

Return(t) ==
    /\ Goto(t, IF opmap[t] = {} THEN "new" ELSE "ready")
    /\ count' = [count EXCEPT ![t] = 0]

ReadBody(t, n) ==
    \/ /\ datasize <= 0 /\ count_wr > 0
       /\ Block(t, "read_wait")
       /\ count' = [count EXCEPT ![t] = n]
       /\ UNCHANGED <<struct, opmap, history>>
    \/ /\ datasize <= 0 /\ count_wr <= 0
       /\ Return(t)
       /\ UNCHANGED <<struct, cond, opmap, history>>
    \/ /\ datasize > 0
       /\ TakeBytes(Min2(n, datasize))
       /\ broadcast
       /\ Return(t)
       /\ UNCHANGED <<me, tail, data, count_rd, count_wr, opmap, written>>

ReadCall(t, n) == Idle(t) /\ ReadBody(t, n)

ReadWake(t) ==
    /\ pc[t] = "read_wait"
    /\ t \notin cond
    /\ ReadBody(t, count[t])

\* Variant: a write wakes nobody.
WriteBodySilent(t, n) ==
    \/ /\ datasize >= PIPESIZE /\ count_rd > 0
       /\ Block(t, "write_wait")
       /\ count' = [count EXCEPT ![t] = n]
       /\ UNCHANGED <<struct, opmap, history>>
    \/ /\ datasize < PIPESIZE
       /\ PutBytes(Min2(n, PIPESIZE - datasize))
       /\ Return(t)
       /\ UNCHANGED <<me, head, count_rd, count_wr, cond, opmap, got>>

WriteBody(t, n) ==
    \/ /\ datasize >= PIPESIZE /\ count_rd > 0
       /\ Block(t, "write_wait")
       /\ count' = [count EXCEPT ![t] = n]
       /\ UNCHANGED <<struct, opmap, history>>
    \/ /\ datasize >= PIPESIZE /\ count_rd <= 0
       /\ Return(t)
       /\ UNCHANGED <<struct, cond, opmap, history>>
    \/ /\ datasize < PIPESIZE
       /\ PutBytes(Min2(n, PIPESIZE - datasize))
       /\ broadcast
       /\ Return(t)
       /\ UNCHANGED <<me, head, count_rd, count_wr, opmap, got>>

WriteCall(t, n) == Idle(t) /\ written < MaxBytes /\ WriteBody(t, n)

WriteWake(t) ==
    /\ pc[t] = "write_wait"
    /\ t \notin cond
    /\ WriteBody(t, count[t])

SpuriousWakeup(t) ==
    /\ t \in cond
    /\ cond' = cond \ {t}
    /\ UNCHANGED <<struct, pc, opmap, count, history>>

\* The owner destroys the pipe when its threads have ended.
mypipe_destroy ==
    /\ me = "live"
    /\ \A t \in Threads : pc[t] = "gone"
    /\ me' = "freed"
    /\ UNCHANGED <<head, tail, data, datasize, count_rd, count_wr, cond, pc, opmap, count, history>>

-----------------------------------------------------------------------------
Roles == (SUBSET {"READ", "WRITE"}) \ {{}}

Wake(t) == RegisterWake(t) \/ ReadWake(t) \/ WriteWake(t)

Next ==
    \/ mypipe_init
    \/ mypipe_destroy
    \/ \E t \in Threads :
         \/ Wake(t)
         \/ SpuriousWakeup(t)
         \/ \E r \in Roles : RegisterEnter(t, r)
         \/ mypipe_unregister(t)
         \/ \E n \in Counts : ReadCall(t, n) \/ WriteCall(t, n)

Spec == Init /\ [][Next]_vars

\* A thread that was woken runs.  Nothing makes a thread call the pipe.
FairSpec == Spec /\ \A t \in Threads : WF_vars(Wake(t))

-----------------------------------------------------------------------------
\* The types of the variables; datasize never leaves the buffer.
TypeOK ==
    /\ me \in {"none", "live", "freed"}
    /\ head \in Cells /\ tail \in Cells
    /\ data \in [Cells -> Nat]
    /\ datasize \in 0 .. PIPESIZE
    /\ count_rd \in Nat /\ count_wr \in Nat
    /\ cond \subseteq Threads
    /\ pc \in [Threads -> {"new", "reg_wait", "ready", "read_wait", "write_wait", "gone"}]
    /\ opmap \in [Threads -> SUBSET {"READ", "WRITE"}]
    /\ count \in [Threads -> Nat]
    /\ written \in Nat
    /\ got \in Nat

\* One condition serves three kinds of waiter, and none of them sleeps through
\* the event it waits for: every change that ends a wait is broadcast.  Nor is
\* one of them woken by another's event: mypipe_register, the barrier, has
\* returned only when both sides are present.
NoLostWakeup ==
    /\ \A t \in cond :
         \/ pc[t] = "reg_wait" /\ (count_rd = 0 \/ count_wr = 0)
         \/ pc[t] = "read_wait" /\ datasize = 0 /\ count_wr > 0
         \/ pc[t] = "write_wait" /\ datasize = PIPESIZE /\ count_rd > 0
    /\ \A t \in Threads : pc[t] \in {"ready", "gone"} => count_rd > 0 /\ count_wr > 0

\* datasize counts the bytes that were written and not yet read, whatever calls
\* overlap: a read stops when the pipe is empty, so that no byte is delivered
\* that was not paid for by a write, and a write when it is full.
ByteConservation == datasize = written - got /\ datasize \in 0 .. PIPESIZE

\* As soon as both sides are present every pending mypipe_register returns: the
\* one that completes the pair wakes the others.
RegisterReturns ==
    \A t \in Threads : (pc[t] = "reg_wait" /\ count_rd > 0 /\ count_wr > 0) ~> (pc[t] = "ready")

\* "waits only when there is no data and a writer still exists".
WaitsForAWriter ==
    \A t \in cond : pc[t] = "read_wait" =>
      \E w \in Threads : "WRITE" \in opmap[w] /\ pc[w] # "gone"
=============================================================================
