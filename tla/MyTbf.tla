------------------------------- MODULE MyTbf -------------------------------
(***************************************************************************)
(* The multithreaded token bucket library                                  *)
(* src/thread/posix/mytbf_multithread/mytbf.c and the client loop of its   *)
(* main.c, run by any number of threads.                                   *)
(*                                                                         *)
(* Two kinds of mutex are explicit, because the refill thread holds        *)
(* mut_job while it takes one bucket mutex after the other.  Acquiring a   *)
(* mutex is a step of its own; the code it protects up to the unlock (or   *)
(* up to pthread_cond_wait, which releases it) is the next step.           *)
(*                                                                         *)
(* A definition marked "Variant" is a plausible mistake in the code that   *)
(* follows it; no specification uses it.                                   *)
(***************************************************************************)
EXTENDS Integers, FiniteSets

CONSTANTS Threads,     \* the threads that call the library
          Buckets,     \* the heap blocks malloc can return for a bucket
          Params,      \* the <<cps, burst>> pairs mytbf_init is called with
          Sizes,       \* the sizes mytbf_fetchToken is called with
          MYTBF_MAX,   \* length of job[]
          Alarm,       \* the refill thread
          NULL         \* the null pointer, and the owner of a free mutex

ASSUME TbfAssumption ==
    /\ Params \subseteq Nat \X Nat
    /\ Sizes \subseteq Int
    /\ MYTBF_MAX \in Nat \ {0}
    /\ NULL \notin Threads \cup Buckets \cup {Alarm}
    /\ Alarm \notin Threads

ASSUME NullAssumption == NULL \notin [cps : Nat, burst : Nat, level : Nat]

VARIABLES
  job,                      \* job[i]: the bucket in slot i or NULL
  heap,                     \* the blocks that are malloc'ed and not freed
  cps, burst, token, pos,   \* the fields of a block
  cond,                     \* the threads blocked in pthread_cond_wait
  mut_job,                  \* who holds the mutex of job[]
  mut,                      \* mut[b]: who holds the mutex of bucket b
  apc, ai,                  \* the refill thread: where it is, its loop index
  cancel,                   \* pthread_cancel(alrm_tid) was called
  pc, me, size,             \* a client: where it is, its bucket, its tokens
  ui                        \* the loop index of module_unload

shared == <<job, heap, cps, burst, token, pos, cond>>
locks  == <<mut_job, mut>>
alarm  == <<apc, ai, cancel>>
client == <<pc, me, size, ui>>
vars   == <<shared, locks, alarm, client>>

Slots == 0 .. MYTBF_MAX - 1

Min2(a, b) == IF a < b THEN a ELSE b

\* get_free_pos_unlocked: the first free slot, or -1.
FreePos == {i \in Slots : job[i] = NULL}
get_free_pos_unlocked ==
    IF FreePos = {} THEN -1
    ELSE CHOOSE i \in FreePos : \A k \in FreePos : i <= k

Goto(t, l) == pc' = [pc EXCEPT ![t] = l]

Init ==
    /\ job = [i \in Slots |-> NULL]
    /\ heap = {}
    /\ cps = [b \in Buckets |-> 0]
    /\ burst = [b \in Buckets |-> 0]
    /\ token = [b \in Buckets |-> 0]
    /\ pos = [b \in Buckets |-> 0]
    /\ cond = [b \in Buckets |-> {}]
    /\ mut_job = NULL
    /\ mut = [b \in Buckets |-> NULL]
    /\ apc = "none"
    /\ ai = 0
    /\ cancel = FALSE
    /\ pc = [t \in Threads |-> "idle"]
    /\ me = [t \in Threads |-> NULL]
    /\ size = [t \in Threads |-> 0]
    /\ ui = 0

\* The handles a client may pass to the library: published, and no thread is
\* destroying it.  A client uses no handle it has destroyed, and nobody calls
\* the library once exit() runs.
Destroying(b) == \E t \in Threads : pc[t] \in {"unlink_lock", "unlink", "free"} /\ me[t] = b
Handles == {b \in Buckets : (\E i \in Slots : job[i] = b) /\ ~Destroying(b)}
Exiting == cancel \/ \E t \in Threads : pc[t] = "exited"
Using(t, b) == pc[t] # "idle" /\ me[t] = b

-----------------------------------------------------------------------------
\* The refill thread.

AlarmLock ==
    /\ apc = "top"
    /\ mut_job = NULL
    /\ mut_job' = Alarm
    /\ apc' = "scan"
    /\ ai' = 0
    /\ UNCHANGED <<shared, mut, cancel, client>>

\* if (job[i] != NULL) pthread_mutex_lock(&job[i]->mut);
AlarmScan ==
    /\ apc = "scan"
    /\ ai \in Slots
    /\ \/ /\ job[ai] = NULL
          /\ ai' = ai + 1
          /\ UNCHANGED <<mut, apc>>
       \/ /\ job[ai] # NULL
          /\ mut[job[ai]] = NULL
          /\ mut' = [mut EXCEPT ![job[ai]] = Alarm]
          /\ apc' = "tick"
          /\ UNCHANGED ai
    /\ UNCHANGED <<shared, mut_job, cancel, client>>

\* Variant: the clamp to burst is forgotten.
AlarmTickUnclamped ==
    /\ apc = "tick"
    /\ LET b == job[ai] IN
         /\ token' = [token EXCEPT ![b] = @ + cps[b]]
         /\ cond' = [cond EXCEPT ![b] = {}]
         /\ mut' = [mut EXCEPT ![b] = NULL]
    /\ ai' = ai + 1
    /\ apc' = "scan"
    /\ UNCHANGED <<job, heap, cps, burst, pos, mut_job, cancel, client>>

\* Variant: the refill wakes nobody.
AlarmTickSilent ==
    /\ apc = "tick"
    /\ LET b == job[ai] IN
         /\ token' = [token EXCEPT ![b] = Min2(@ + cps[b], burst[b])]
         /\ mut' = [mut EXCEPT ![b] = NULL]
    /\ ai' = ai + 1
    /\ apc' = "scan"
    /\ UNCHANGED <<job, heap, cps, burst, pos, cond, mut_job, cancel, client>>

AlarmTick ==
    /\ apc = "tick"
    /\ LET b == job[ai] IN
         /\ token' = [token EXCEPT ![b] = Min2(@ + cps[b], burst[b])]
         /\ cond' = [cond EXCEPT ![b] = {}]
         /\ mut' = [mut EXCEPT ![b] = NULL]
    /\ ai' = ai + 1
    /\ apc' = "scan"
    /\ UNCHANGED <<job, heap, cps, burst, pos, mut_job, cancel, client>>

\* Variant: the thread sleeps, and may be cancelled, with mut_job held.
AlarmSleepLocked ==
    /\ apc = "scan"
    /\ ai = MYTBF_MAX
    /\ apc' = IF cancel THEN "dead" ELSE "sleep"
    /\ mut_job' = IF cancel THEN Alarm ELSE NULL
    /\ UNCHANGED <<shared, mut, ai, cancel, client>>

AlarmUnlock ==
    /\ apc = "scan"
    /\ ai = MYTBF_MAX
    /\ mut_job' = NULL
    /\ apc' = "sleep"
    /\ UNCHANGED <<shared, mut, ai, cancel, client>>

\* sleep(1) is the only cancellation point of the loop.
AlarmSleep ==
    /\ apc = "sleep"
    /\ apc' = IF cancel THEN "dead" ELSE "top"
    /\ UNCHANGED <<shared, locks, ai, cancel, client>>

-----------------------------------------------------------------------------
\* mytbf_init.

\* pthread_once(module_load), malloc, and the fields that are private so far.
InitCall(t, b, p) ==
    /\ pc[t] = "idle" /\ ~Exiting
    /\ b \notin heap
    /\ apc' = IF apc = "none" THEN "top" ELSE apc
    /\ heap' = heap \cup {b}
    /\ cps' = [cps EXCEPT ![b] = p[1]]
    /\ burst' = [burst EXCEPT ![b] = p[2]]
    /\ token' = [token EXCEPT ![b] = 0]
    /\ me' = [me EXCEPT ![t] = b]
    /\ Goto(t, "place_lock")
    /\ UNCHANGED <<job, pos, cond, locks, ai, cancel, size, ui>>

InitLock(t) ==
    /\ pc[t] = "place_lock"
    /\ mut_job = NULL
    /\ mut_job' = t
    /\ Goto(t, "place")
    /\ UNCHANGED <<shared, mut, alarm, me, size, ui>>

InitPlace(t) ==
    /\ pc[t] = "place"
    /\ LET p == get_free_pos_unlocked IN
         \/ /\ p = -1
            /\ heap' = heap \ {me[t]}
            /\ UNCHANGED <<job, pos>>
         \/ /\ p # -1
            /\ pos' = [pos EXCEPT ![me[t]] = p]
            /\ job' = [job EXCEPT ![p] = me[t]]
            /\ UNCHANGED heap
    /\ mut_job' = NULL
    /\ me' = [me EXCEPT ![t] = NULL]
    /\ Goto(t, "idle")
    /\ UNCHANGED <<cps, burst, token, cond, mut, alarm, size, ui>>

-----------------------------------------------------------------------------
\* mytbf_fetchToken.

\* A size <= 0 returns -EINVAL and changes nothing.
FetchCall(t, b, n) ==
    /\ pc[t] = "idle" /\ ~Exiting
    /\ b \in Handles
    /\ n > 0
    /\ me' = [me EXCEPT ![t] = b]
    /\ size' = [size EXCEPT ![t] = n]
    /\ Goto(t, "fetch_lock")
    /\ UNCHANGED <<shared, locks, alarm, ui>>

\* Also the way back from pthread_cond_wait, once a broadcast took the thread
\* out of the wait set.
FetchLock(t) ==
    /\ pc[t] \in {"fetch_lock", "wait"}
    /\ t \notin cond[me[t]]
    /\ mut[me[t]] = NULL
    /\ mut' = [mut EXCEPT ![me[t]] = t]
    /\ Goto(t, "fetch")
    /\ UNCHANGED <<shared, mut_job, alarm, me, size, ui>>

FetchWait(t) ==
    /\ pc[t] = "fetch"
    /\ token[me[t]] <= 0
    /\ cond' = [cond EXCEPT ![me[t]] = @ \cup {t}]
    /\ mut' = [mut EXCEPT ![me[t]] = NULL]
    /\ Goto(t, "wait")
    /\ UNCHANGED <<job, heap, cps, burst, token, pos, mut_job, alarm, me, size, ui>>

\* Variant: size is not cut to what the bucket holds.
FetchTakeAll(t) ==
    /\ pc[t] = "fetch"
    /\ token[me[t]] > 0
    /\ token' = [token EXCEPT ![me[t]] = @ - size[t]]
    /\ mut' = [mut EXCEPT ![me[t]] = NULL]
    /\ Goto(t, "read")
    /\ UNCHANGED <<job, heap, cps, burst, pos, cond, mut_job, alarm, me, size, ui>>

FetchTake(t) ==
    /\ pc[t] = "fetch"
    /\ token[me[t]] > 0
    /\ LET n == Min2(token[me[t]], size[t]) IN
         /\ token' = [token EXCEPT ![me[t]] = @ - n]
         /\ size' = [size EXCEPT ![t] = n]
    /\ mut' = [mut EXCEPT ![me[t]] = NULL]
    /\ Goto(t, "read")
    /\ UNCHANGED <<job, heap, cps, burst, pos, cond, mut_job, alarm, me, ui>>

\* pthread_cond_wait may return although nobody signalled.
SpuriousWakeup(t) ==
    /\ pc[t] = "wait"
    /\ t \in cond[me[t]]
    /\ cond' = [cond EXCEPT ![me[t]] = @ \ {t}]
    /\ UNCHANGED <<job, heap, cps, burst, token, pos, locks, alarm, client>>

-----------------------------------------------------------------------------
\* The client between fetching and returning: read(sfd, buf, size) gives len
\* bytes and the size - len tokens it did not need go back.  At end of file
\* (len = 0) and after a full read nothing is returned.

ReadAll(t) ==
    /\ pc[t] = "read"
    /\ me' = [me EXCEPT ![t] = NULL]
    /\ size' = [size EXCEPT ![t] = 0]
    /\ Goto(t, "idle")
    /\ UNCHANGED <<shared, locks, alarm, ui>>

ReadShort(t) ==
    /\ pc[t] = "read"
    /\ \E rest \in 1 .. size[t] - 1 : size' = [size EXCEPT ![t] = rest]
    /\ Goto(t, "return_lock")
    /\ UNCHANGED <<shared, locks, alarm, me, ui>>

ReturnLock(t) ==
    /\ pc[t] = "return_lock"
    /\ mut[me[t]] = NULL
    /\ mut' = [mut EXCEPT ![me[t]] = t]
    /\ Goto(t, "return")
    /\ UNCHANGED <<shared, mut_job, alarm, me, size, ui>>

\* Variant: returned tokens wake nobody.
ReturnTokenSilent(t) ==
    /\ pc[t] = "return"
    /\ LET b == me[t] IN
         /\ token' = [token EXCEPT ![b] = Min2(@ + size[t], burst[b])]
         /\ mut' = [mut EXCEPT ![b] = NULL]
    /\ me' = [me EXCEPT ![t] = NULL]
    /\ size' = [size EXCEPT ![t] = 0]
    /\ Goto(t, "idle")
    /\ UNCHANGED <<job, heap, cps, burst, pos, cond, mut_job, alarm, ui>>

\* mytbf_returnToken, from the token update to the unlock.
ReturnToken(t) ==
    /\ pc[t] = "return"
    /\ LET b == me[t] IN
         /\ token' = [token EXCEPT ![b] = Min2(@ + size[t], burst[b])]
         /\ cond' = [cond EXCEPT ![b] = {}]
         /\ mut' = [mut EXCEPT ![b] = NULL]
    /\ me' = [me EXCEPT ![t] = NULL]
    /\ size' = [size EXCEPT ![t] = 0]
    /\ Goto(t, "idle")
    /\ UNCHANGED <<job, heap, cps, burst, pos, mut_job, alarm, ui>>

-----------------------------------------------------------------------------
\* mytbf_destroy and module_unload.

DestroyCall(t, b) ==
    /\ pc[t] = "idle" /\ ~Exiting
    /\ b \in Handles
    /\ \A o \in Threads \ {t} : ~Using(o, b)
    /\ me' = [me EXCEPT ![t] = b]
    /\ Goto(t, "unlink_lock")
    /\ UNCHANGED <<shared, locks, alarm, size, ui>>

\* Variant: the slot is cleared without mut_job.
DestroyUnguarded(t) ==
    /\ pc[t] = "unlink_lock"
    /\ mut_job' = t
    /\ Goto(t, "unlink")
    /\ UNCHANGED <<shared, mut, alarm, me, size, ui>>

DestroyLock(t) ==
    /\ pc[t] = "unlink_lock"
    /\ mut_job = NULL
    /\ mut_job' = t
    /\ Goto(t, "unlink")
    /\ UNCHANGED <<shared, mut, alarm, me, size, ui>>

DestroyUnlink(t) ==
    /\ pc[t] = "unlink"
    /\ job' = [job EXCEPT ![pos[me[t]]] = NULL]
    /\ mut_job' = NULL
    /\ Goto(t, "free")
    /\ UNCHANGED <<heap, cps, burst, token, pos, cond, mut, alarm, me, size, ui>>

\* The fields of a freed block are reset: nothing may depend on them.
DestroyFree(t) ==
    /\ pc[t] = "free"
    /\ heap' = heap \ {me[t]}
    /\ cps' = [cps EXCEPT ![me[t]] = 0]
    /\ burst' = [burst EXCEPT ![me[t]] = 0]
    /\ token' = [token EXCEPT ![me[t]] = 0]
    /\ pos' = [pos EXCEPT ![me[t]] = 0]
    /\ me' = [me EXCEPT ![t] = NULL]
    /\ Goto(t, IF cancel THEN "unload" ELSE "idle")
    /\ ui' = IF cancel THEN ui + 1 ELSE ui
    /\ UNCHANGED <<job, cond, locks, alarm, size>>

\* exit(): the atexit handler is there only if module_load has run.  The
\* program has joined its other threads.
ExitCall(t) ==
    /\ ~Exiting
    /\ \A o \in Threads : pc[o] = "idle"
    /\ IF apc = "none" THEN Goto(t, "exited") /\ UNCHANGED cancel
                       ELSE Goto(t, "join") /\ cancel' = TRUE
    /\ UNCHANGED <<shared, locks, apc, ai, me, size, ui>>

UnloadJoin(t) ==
    /\ pc[t] = "join"
    /\ apc = "dead"
    /\ Goto(t, "unload")
    /\ UNCHANGED <<shared, locks, alarm, me, size, ui>>

\* Variant: the loop stops one slot early.
UnloadShort(t) ==
    /\ pc[t] = "unload"
    /\ \/ /\ ui = MYTBF_MAX - 1
          /\ Goto(t, "exited")
          /\ UNCHANGED <<me, ui>>
       \/ /\ ui < MYTBF_MAX - 1
          /\ job[ui] = NULL
          /\ ui' = ui + 1
          /\ UNCHANGED <<pc, me>>
       \/ /\ ui < MYTBF_MAX - 1
          /\ job[ui] # NULL
          /\ me' = [me EXCEPT ![t] = job[ui]]
          /\ Goto(t, "unlink_lock")
          /\ UNCHANGED ui
    /\ UNCHANGED <<shared, locks, alarm, size>>

UnloadNext(t) ==
    /\ pc[t] = "unload"
    /\ \/ /\ ui = MYTBF_MAX
          /\ Goto(t, "exited")
          /\ UNCHANGED <<me, ui>>
       \/ /\ ui < MYTBF_MAX
          /\ job[ui] = NULL
          /\ ui' = ui + 1
          /\ UNCHANGED <<pc, me>>
       \/ /\ ui < MYTBF_MAX
          /\ job[ui] # NULL
          /\ me' = [me EXCEPT ![t] = job[ui]]
          /\ Goto(t, "unlink_lock")
          /\ UNCHANGED ui
    /\ UNCHANGED <<shared, locks, alarm, size>>

\* The process is gone.
Exited == (\E t \in Threads : pc[t] = "exited") /\ UNCHANGED vars

-----------------------------------------------------------------------------
AlarmStep == AlarmLock \/ AlarmScan \/ AlarmTick \/ AlarmUnlock \/ AlarmSleep

\* The steps of a thread inside a call; it does not stop there.
InsideStep(t) ==
    \/ InitLock(t) \/ InitPlace(t)
    \/ FetchLock(t) \/ FetchWait(t) \/ FetchTake(t)
    \/ ReadAll(t) \/ ReadShort(t) \/ ReturnLock(t) \/ ReturnToken(t)
    \/ DestroyLock(t) \/ DestroyUnlink(t) \/ DestroyFree(t)
    \/ UnloadJoin(t) \/ UnloadNext(t)

\* The steps a thread may or may not take.
CallStep(t) ==
    \/ \E b \in Buckets, p \in Params : InitCall(t, b, p)
    \/ \E b \in Buckets, n \in Sizes : FetchCall(t, b, n)
    \/ \E b \in Buckets : DestroyCall(t, b)
    \/ SpuriousWakeup(t)
    \/ ExitCall(t)

Next ==
    \/ AlarmStep
    \/ \E t \in Threads : InsideStep(t) \/ CallStep(t)
    \/ Exited

Spec == Init /\ [][Next]_vars

\* Every thread that can run is scheduled, and a thread that waits for a mutex
\* gets it if it is released again and again.
Fairness ==
    /\ WF_vars(AlarmStep)
    /\ SF_vars(AlarmLock) /\ SF_vars(AlarmScan)
    /\ \A t \in Threads :
         /\ WF_vars(InsideStep(t))
         /\ SF_vars(InitLock(t)) /\ SF_vars(FetchLock(t))
         /\ SF_vars(ReturnLock(t)) /\ SF_vars(DestroyLock(t))

FairSpec == Spec /\ Fairness

-----------------------------------------------------------------------------
(***************************************************************************)
(* Properties.                                                             *)
(***************************************************************************)

PcLabels == {"idle", "place_lock", "place", "fetch_lock", "fetch", "wait", "read",
             "return_lock", "return", "unlink_lock", "unlink", "free",
             "join", "unload", "exited"}

\* The types of the variables.
TypeOK ==
    /\ job \in [Slots -> Buckets \cup {NULL}]
    /\ heap \in SUBSET Buckets
    /\ cps \in [Buckets -> Nat]
    /\ burst \in [Buckets -> Nat]
    /\ token \in [Buckets -> Nat]
    /\ pos \in [Buckets -> Slots]
    /\ cond \in [Buckets -> SUBSET Threads]
    /\ mut_job \in Threads \cup {Alarm, NULL}
    /\ mut \in [Buckets -> Threads \cup {Alarm, NULL}]
    /\ apc \in {"none", "top", "scan", "tick", "sleep", "dead"}
    /\ ai \in 0 .. MYTBF_MAX
    /\ cancel \in BOOLEAN
    /\ pc \in [Threads -> PcLabels]
    /\ me \in [Threads -> Buckets \cup {NULL}]
    /\ size \in [Threads -> Nat]
    /\ ui \in 0 .. MYTBF_MAX

\* The labels at which a thread reads or writes through its bucket pointer.
Deref == {"place", "fetch_lock", "fetch", "wait", "return_lock", "return",
          "unlink_lock", "unlink", "free"}

\* No step touches a freed bucket: neither the refill thread, which finds the
\* bucket in job[], nor a client inside a call, while another thread destroys
\* buckets (mytbf_destroy unlinks under mut_job before it frees).
NoUseAfterFree ==
    /\ \A i \in Slots : job[i] # NULL => job[i] \in heap
    /\ apc = "tick" => job[ai] \in heap
    /\ \A t \in Threads : pc[t] \in Deref => me[t] \in heap

\* A thread stays blocked in mytbf_fetchToken only while its bucket is empty:
\* whoever adds tokens broadcasts before the lock is given back.
NoLostWakeup == \A b \in Buckets : cond[b] # {} => token[b] = 0

\* After exit() every bucket has been freed, also those the program forgot.
NoLeakAtExit == (\E t \in Threads : pc[t] = "exited") => heap = {}

\* With the buckets that are published in job[], the library is an atomic
\* token bucket.
Published(b) == \E i \in Slots : job[i] = b
bucketBar ==
    [b \in Buckets |-> IF Published(b)
                       THEN [cps |-> cps[b], burst |-> burst[b], level |-> token[b]]
                       ELSE NULL]
TB == INSTANCE TokenBucket WITH bucket <- bucketBar
IsTokenBucket == TB!Spec

\* If somebody is inside mytbf_fetchToken, somebody gets tokens: the refill
\* thread never stops, and its broadcast reaches the waiters.
InFetch(t, b) == pc[t] \in {"fetch_lock", "fetch", "wait"} /\ me[t] = b
FetchProgress ==
    \A b \in Buckets :
      (\E t \in Threads : InFetch(t, b)) ~> (\E t \in Threads : pc[t] = "read" /\ me[t] = b)

\* exit() ends: pthread_join returns and module_unload gets every lock.
ExitTerminates == \A t \in Threads : (pc[t] = "join") ~> (pc[t] = "exited")
=============================================================================
