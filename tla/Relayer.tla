------------------------------- MODULE Relayer -------------------------------
(***************************************************************************)
(* The relay library src/proIO/non-blocked/relayer: any number of threads  *)
(* hand pairs of descriptors to rel_addjob, and one thread, created by the *)
(* first call, drives the state machines of all jobs, busy, with           *)
(* mut_rel_job held for a whole pass over the table.                       *)
(*                                                                         *)
(* A caller adds one job for a pair of descriptors of its own, so the job  *)
(* is known by its caller.  Nothing ever takes a job out of the table:     *)
(* rel_canceljob and rel_waitjob are only declared.                        *)
(* A definition marked "Variant" is a plausible mistake in the code that   *)
(* follows it; no specification uses it.                                   *)
(***************************************************************************)
EXTENDS RelFsm, FiniteSets

CONSTANTS Callers, NULL, REL_JOBMAX

ASSUME RelayerAssumption ==
    /\ REL_JOBMAX \in Nat \ {0}
    /\ NULL \notin Callers /\ "relayer" \notin Callers \cup {NULL}

VARIABLES
  rel_job,             \* the table: the caller whose job a slot holds, or NULL
  mut,                 \* the holder of mut_rel_job: a caller, "relayer" or NULL
  apc, pos,            \* a caller inside rel_addjob, and the slot it found
  job_state,           \* "none", "RUNNING", "OVER" or "freed"
  fsm,                 \* the links "12" and "21" of each job
  saved, nonblock,     \* which of fd1, fd2 was non-blocking before, and is now
  rpc, ri              \* the relayer thread: where it is, and its index

table   == <<rel_job, mut>>
caller  == <<apc, pos>>
flags   == <<saved, nonblock>>
relayer == <<rpc, ri>>
relayer_vars == <<table, caller, job_state, fsm, flags, relayer>>

Slots == 0 .. REL_JOBMAX - 1
FreeSlots == {i \in Slots : rel_job[i] = NULL}

get_free_pos_unlocked ==
    IF FreeSlots = {} THEN -1 ELSE CHOOSE i \in FreeSlots : \A k \in FreeSlots : i <= k

Goto(c, l) == apc' = [apc EXCEPT ![c] = l]

\* The first descriptor of main.c is opened blocking, the second non-blocking.
RelayerInit ==
    /\ rel_job = [i \in Slots |-> NULL]
    /\ mut = NULL
    /\ apc = [c \in Callers |-> "new"]
    /\ pos = [c \in Callers |-> -1]
    /\ job_state = [c \in Callers |-> "none"]
    /\ fsm = [c \in Callers |-> [d \in Dirs |-> NewLink]]
    /\ nonblock = [c \in Callers |-> {"fd2"}]
    /\ saved = [c \in Callers |-> {}]
    /\ rpc = "none" /\ ri = 0

-----------------------------------------------------------------------------
\* rel_addjob.

\* pthread_once creates the relayer thread; the job is built, its descriptors
\* are made non-blocking, and nobody else sees any of it yet.
AddCall(c) ==
    /\ apc[c] = "new"
    /\ rpc' = IF rpc = "none" THEN "lock" ELSE rpc
    /\ job_state' = [job_state EXCEPT ![c] = "RUNNING"]
    /\ saved' = [saved EXCEPT ![c] = nonblock[c]]
    /\ nonblock' = [nonblock EXCEPT ![c] = {"fd1", "fd2"}]
    /\ Goto(c, "lock")
    /\ UNCHANGED <<table, pos, fsm, ri>>

\* Variant: the search is done without the lock.
AddLockNot(c) ==
    /\ apc[c] = "lock"
    /\ mut' = c
    /\ Goto(c, "find")
    /\ UNCHANGED <<rel_job, pos, job_state, fsm, flags, relayer>>

AddLock(c) ==
    /\ apc[c] = "lock"
    /\ mut = NULL
    /\ mut' = c
    /\ Goto(c, "find")
    /\ UNCHANGED <<rel_job, pos, job_state, fsm, flags, relayer>>

AddFind(c) ==
    /\ apc[c] = "find"
    /\ pos' = [pos EXCEPT ![c] = get_free_pos_unlocked]
    /\ Goto(c, IF get_free_pos_unlocked < 0 THEN "reject" ELSE "store")
    /\ UNCHANGED <<table, job_state, fsm, flags, relayer>>

AddStore(c) ==
    /\ apc[c] = "store"
    /\ rel_job' = [rel_job EXCEPT ![pos[c]] = c]
    /\ mut' = NULL
    /\ Goto(c, "added")
    /\ UNCHANGED <<pos, job_state, fsm, flags, relayer>>

\* Variant: -ENOSPC is returned with the lock held.
AddRejectLocked(c) ==
    /\ apc[c] = "reject"
    /\ nonblock' = [nonblock EXCEPT ![c] = saved[c]]
    /\ job_state' = [job_state EXCEPT ![c] = "freed"]
    /\ Goto(c, "rejected")
    /\ UNCHANGED <<table, pos, fsm, saved, relayer>>

\* -ENOSPC: unlock, then restore the flags and free the job.
AddReject(c) ==
    /\ apc[c] = "reject"
    /\ mut' = NULL
    /\ nonblock' = [nonblock EXCEPT ![c] = saved[c]]
    /\ job_state' = [job_state EXCEPT ![c] = "freed"]
    /\ Goto(c, "rejected")
    /\ UNCHANGED <<rel_job, pos, fsm, saved, relayer>>

rel_addjob(c) ==
    AddCall(c) \/ AddLock(c) \/ AddFind(c) \/ AddStore(c) \/ AddReject(c)

-----------------------------------------------------------------------------
\* thr_relayer.

RelayerLock ==
    /\ rpc = "lock"
    /\ mut = NULL
    /\ mut' = "relayer"
    /\ ri' = 0
    /\ rpc' = "scan"
    /\ UNCHANGED <<rel_job, caller, job_state, fsm, flags>>

RelayerSkip ==
    /\ rpc = "scan" /\ ri \in Slots
    /\ rel_job[ri] # NULL => job_state[rel_job[ri]] # "RUNNING"
    /\ ri' = ri + 1
    /\ UNCHANGED <<table, caller, job_state, fsm, flags, rpc>>

\* fsm_driver returns at once for the job of c: a blocking descriptor would
\* hold it up until there is something to read or room to write.
Returns(c, sfd, dfd, l) ==
    /\ l.state = "R" /\ sfd \notin nonblock[c] => Readable(l)
    /\ l.state = "W" /\ dfd \notin nonblock[c] => Writable(l)

\* Variant: the job is over when one of its machines has stopped.
RelayerDriveEarly ==
    /\ rpc = "scan" /\ ri \in Slots
    /\ rel_job[ri] # NULL
    /\ LET c == rel_job[ri] IN
         /\ job_state[c] = "RUNNING"
         /\ \E l12 \in fsm_driver(fsm[c]["12"]), l21 \in fsm_driver(fsm[c]["21"]) :
              /\ fsm' = [fsm EXCEPT ![c] = [d \in Dirs |-> IF d = "12" THEN l12 ELSE l21]]
              /\ job_state' = [job_state EXCEPT ![c] =
                                 IF l12.state = "T" \/ l21.state = "T" THEN "OVER" ELSE @]
    /\ ri' = ri + 1
    /\ UNCHANGED <<table, caller, flags, rpc>>

\* The two calls of fsm_driver for one job and the test that follows.  Nothing
\* else reads or writes the job in between: the relayer holds the mutex.
RelayerDrive ==
    /\ rpc = "scan" /\ ri \in Slots
    /\ rel_job[ri] # NULL
    /\ LET c == rel_job[ri] IN
         /\ job_state[c] = "RUNNING"
         /\ Returns(c, "fd1", "fd2", fsm[c]["12"])
         /\ Returns(c, "fd2", "fd1", fsm[c]["21"])
         /\ \E l12 \in fsm_driver(fsm[c]["12"]), l21 \in fsm_driver(fsm[c]["21"]) :
              /\ fsm' = [fsm EXCEPT ![c] = [d \in Dirs |-> IF d = "12" THEN l12 ELSE l21]]
              /\ job_state' = [job_state EXCEPT ![c] =
                                 IF l12.state = "T" /\ l21.state = "T" THEN "OVER" ELSE @]
    /\ ri' = ri + 1
    /\ UNCHANGED <<table, caller, flags, rpc>>

RelayerUnlock ==
    /\ rpc = "scan" /\ ri = REL_JOBMAX
    /\ mut' = NULL
    /\ rpc' = "lock"
    /\ UNCHANGED <<rel_job, caller, job_state, fsm, flags, ri>>

thr_relayer ==
    RelayerLock \/ RelayerSkip \/ RelayerDrive \/ RelayerUnlock

-----------------------------------------------------------------------------
\* The terminals of the job of c.  What happens there before the job is in the
\* table is not seen before it is.
JobEnds(c, d) ==
    /\ apc[c] = "added"
    /\ \E l \in EndStep(fsm[c][d], d) : fsm' = [fsm EXCEPT ![c][d] = l]
    /\ UNCHANGED <<table, caller, job_state, flags, relayer>>

Drained(c, d) ==
    /\ \E l \in Drain(fsm[c][d]) : fsm' = [fsm EXCEPT ![c][d] = l]
    /\ UNCHANGED <<table, caller, job_state, flags, relayer>>

RelayerNext ==
    \/ thr_relayer
    \/ \E c \in Callers : rel_addjob(c) \/ \E d \in Dirs : JobEnds(c, d) \/ Drained(c, d)

RelayerSpec == RelayerInit /\ [][RelayerNext]_relayer_vars

\* The threads are scheduled and the terminals show what they are sent.  One
\* of the callers that wait for the mutex gets it in the end, although the
\* relayer unlocks it only to lock it again at once: strong fairness, which the
\* code leaves to the scheduler.
RelayerFairSpec ==
    /\ RelayerSpec
    /\ WF_relayer_vars(thr_relayer)
    /\ WF_relayer_vars(\E c \in Callers : AddFind(c) \/ AddStore(c) \/ AddReject(c))
    /\ SF_relayer_vars(\E c \in Callers : AddLock(c))
    /\ WF_relayer_vars(\E c \in Callers, d \in Dirs : Drained(c, d))

-----------------------------------------------------------------------------
\* The types of the variables.
RelayerTypeOK ==
    /\ rel_job \in [Slots -> Callers \cup {NULL}]
    /\ mut \in Callers \cup {"relayer", NULL}
    /\ apc \in [Callers -> {"new", "lock", "find", "store", "reject", "added", "rejected"}]
    /\ pos \in [Callers -> Slots \cup {-1}]
    /\ job_state \in [Callers -> {"none", "RUNNING", "OVER", "freed"}]
    /\ fsm \in [Callers -> [Dirs -> Link]]
    /\ saved \in [Callers -> SUBSET {"fd1", "fd2"}]
    /\ nonblock \in [Callers -> SUBSET {"fd1", "fd2"}]
    /\ rpc \in {"none", "lock", "scan"}
    /\ ri \in 0 .. REL_JOBMAX

\* No job is lost and none is entered twice, however many callers add jobs
\* while the relayer walks the table: each accepted job has its slot and two
\* descriptors that cannot block the relayer, which holds the mutex of the whole
\* library; a refused one has none, is freed, and its flags are as they were.
JobsInTable ==
    \A c \in Callers :
      /\ Cardinality({i \in Slots : rel_job[i] = c}) = (IF apc[c] = "added" THEN 1 ELSE 0)
      /\ apc[c] = "added" => nonblock[c] = {"fd1", "fd2"}
      /\ apc[c] = "rejected" => job_state[c] = "freed" /\ nonblock[c] = saved[c]

\* A job that is over has delivered everything it read, in both directions,
\* unless a destination failed.
OverMeansDelivered ==
    \A c \in Callers : job_state[c] = "OVER" =>
      \A d \in Dirs : fsm[c][d].state = "T" /\ LinkInOrder(fsm[c][d])

\* Every pending rel_addjob returns, and every accepted job whose two inputs
\* have ended gets over: no job, idle or dead, holds up the others.
InputsEnded(c) == \A d \in Dirs : fsm[c][d].src # "open"
JobsEnd ==
    \A c \in Callers :
      (apc[c] \in {"lock", "added"}) ~>
        \/ apc[c] = "rejected"
        \/ apc[c] = "added" /\ (InputsEnded(c) => job_state[c] = "OVER")
=============================================================================
