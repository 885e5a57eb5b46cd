------------------------------ MODULE Threads ------------------------------
(***************************************************************************)
(* The threaded and forking programs together: a behaviour is a run of one *)
(* of them.                                                                *)
(***************************************************************************)
EXTENDS Counters, Turns, Buffers, Primes

Init == CountersInit \/ TurnsInit \/ BuffersInit \/ PrimesInit

ThreadStep(t) == CounterStep(t) \/ TurnStep(t) \/ BufferStep(t) \/ PrimeStep(t)

Next == \E t \in Threads : ThreadStep(t) \/ SpuriousWakeup(t)

\* The scheduler runs every thread that can run, and neither a mutex nor a
\* semaphore is denied for ever to a thread that keeps asking for it.  No call
\* has to fail.
Spec ==
    /\ Init /\ [][Next]_vars
    /\ \A t \in Threads : SF_vars(ThreadStep(t) /\ pc'[t] \notin {"failed", "exit"})

-----------------------------------------------------------------------------
\* The limits of the shared resources: the buffer of pc.c and the parking lot
\* are never over-full nor negative; consumed_count is never ahead of
\* produced_count nor more than the buffer behind it; what the users of the
\* counting semaphore hold and what is left of it add up to its initial value;
\* the semaphore of sem.c lets no more than its value in; a writer is alone.
Holders == {t \in Workers : pc[t] \in {"subunlock", "holding", "addnotice"}}
HeldBy0 == IF 0 \in Holders THEN Amount(0) ELSE 0     \* each of the others holds 1
WithinLimits ==
    /\ prog \in {"pc", "parking"} => n \in 0 .. Capacity
    /\ prog = "sem_pc" => n - m \in 0 .. Capacity
    /\ prog = "mysem" => n >= 0 /\ n + HeldBy0 + Cardinality(Holders \ {0}) = Capacity
    /\ prog = "sem" => Cardinality(At("inside")) <= Capacity
    /\ prog = "rw_lock" => At("writing") = {} \/ Cardinality(At("writing") \cup At("reading")) = 1

\* Nobody waits for ever: every thread of a program that ends is over in the
\* end (the ticket office excepted: see TicketsSold), every letter of a ring is
\* written again and again, and the writer, whom the lock prefers, writes again
\* and again although the readers never stop coming.
EveryoneGetsOn ==
    /\ prog \in (CounterPrograms \cup BufferPrograms \cup PrimePrograms) \ {"tickets"} =>
          <>Ended
    /\ prog \in {"ring_mutex", "ring_cond"} => \A w \in Workers : []<>(m = w)
    /\ prog = "rw_lock" => []<>(At("writing") # {})
=============================================================================
