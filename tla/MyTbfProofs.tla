---------------------------- MODULE MyTbfProofs ----------------------------
(***************************************************************************)
(* Proofs about MyTbf, for any number of threads, blocks and slots.        *)
(*                                                                         *)
(* None of the safety properties is inductive by itself: that no step      *)
(* touches a freed bucket rests on who holds which mutex, on the agreement *)
(* of job[] with the pos fields, and on a destroyer being alone with its   *)
(* bucket.  Inv is the conjunction of these facts.                         *)
(***************************************************************************)
EXTENDS MyTbf, WellFoundedInduction, TLAPS

\* Where a thread is the only one that knows its bucket or is about to.
Owning == {"place_lock", "place", "unlink_lock", "unlink", "free"}

\* Where the bucket of a thread is in job[], and where it is not.
Linked  == {"fetch_lock", "fetch", "wait", "read", "return_lock", "return",
            "unlink_lock", "unlink"}
Private == {"place_lock", "place", "free"}

\* A mutex is held by the thread whose program counter says so.
MutexInv ==
    /\ (mut_job = Alarm) <=> (apc \in {"scan", "tick"})
    /\ \A t \in Threads : (mut_job = t) <=> (pc[t] \in {"place", "unlink"})
    /\ \A b \in Buckets : (mut[b] = Alarm) <=> (apc = "tick" /\ job[ai] = b)
    /\ \A b \in Buckets, t \in Threads :
         (mut[b] = t) <=> (pc[t] \in {"fetch", "return"} /\ me[t] = b)
    /\ apc = "tick" => ai \in Slots /\ job[ai] \in Buckets

\* job[] and the pos fields agree, and a bucket in job[] is allocated.
TableInv == \A i \in Slots : job[i] # NULL => job[i] \in heap /\ pos[job[i]] = i

\* What a thread inside a call may assume of its bucket.
PointerInv ==
    \A t \in Threads :
      /\ me[t] = NULL <=> pc[t] \in {"idle", "join", "unload", "exited"}
      /\ pc[t] \in Linked => job[pos[me[t]]] = me[t]
      /\ pc[t] \in Private => me[t] \in heap /\ job[pos[me[t]]] # me[t]

\* A thread that creates or destroys a bucket is alone with it.
OwnerInv ==
    \A t, o \in Threads : t # o /\ pc[t] \in Owning /\ me[t] = me[o] => FALSE

\* Once exit() runs at most one thread is inside the library: in module_unload.
AloneInv ==
    /\ Exiting => \A t, o \in Threads : t # o => pc[t] = "idle" \/ pc[o] = "idle"
    /\ Exiting => \A t \in Threads : pc[t] \in {"idle", "unlink_lock", "unlink", "free",
                                                 "join", "unload", "exited"}
    /\ \A t \in Threads : pc[t] \in {"join", "unload"} => cancel

\* The wait set of a bucket, and when it is empty.
CondInv ==
    /\ \A b \in Buckets : \A t \in cond[b] : pc[t] = "wait" /\ me[t] = b
    /\ NoLostWakeup

\* A client never holds more tokens than its bucket may.
SizeInv ==
    /\ \A b \in Buckets : token[b] <= burst[b]
    /\ \A t \in Threads : pc[t] \in {"fetch_lock", "fetch", "wait"} => size[t] >= 1
    /\ \A t \in Threads :
         pc[t] \in {"read", "return_lock", "return"} => size[t] \in 1 .. burst[me[t]]

\* A bucket that is not published yet is as mytbf_init made it.
FreshInv ==
    \A t \in Threads : pc[t] \in {"place_lock", "place"} =>
      token[me[t]] = 0 /\ <<cps[me[t]], burst[me[t]]>> \in Params

\* How far module_unload has come, and that no allocated bucket is forgotten.
UnloadInv ==
    /\ apc = "none" => heap = {}
    /\ \A b \in heap : job[pos[b]] = b \/ \E t \in Threads : pc[t] \in Private /\ me[t] = b
    /\ cancel => \A i \in Slots : i < ui => job[i] = NULL
    /\ \A t \in Threads : cancel /\ pc[t] \in {"unlink_lock", "unlink"} =>
                            ui \in Slots /\ job[ui] = me[t]
    /\ \A t \in Threads : cancel /\ pc[t] = "free" => ui \in Slots /\ job[ui] = NULL
    /\ ~cancel => ui = 0
    /\ NoLeakAtExit

Inv ==
    /\ TypeOK
    /\ MutexInv
    /\ TableInv
    /\ PointerInv
    /\ OwnerInv
    /\ AloneInv
    /\ CondInv
    /\ SizeInv
    /\ FreshInv
    /\ UnloadInv

-----------------------------------------------------------------------------
\* get_free_pos_unlocked returns -1 or a slot that is free.
LEMMA FreePosFact ==
    ASSUME TypeOK
    PROVE  \/ get_free_pos_unlocked = -1
           \/ get_free_pos_unlocked \in Slots /\ job[get_free_pos_unlocked] = NULL
<1>1. CASE FreePos = {}
  BY <1>1 DEF get_free_pos_unlocked
<1>2. CASE FreePos # {}
  <2>1. FreePos \subseteq Nat
    BY TbfAssumption DEF FreePos, Slots
  <2>2. \E i \in FreePos : \A k \in FreePos : ~(<<k, i>> \in OpToRel(<, Nat))
    BY <1>2, <2>1, NatLessThanWellFounded, WFMin, Zenon
  <2>3. PICK i \in FreePos : \A k \in FreePos : ~(<<k, i>> \in OpToRel(<, Nat))
    BY <2>2
  <2>4. \A k \in FreePos : i <= k
    <3> SUFFICES ASSUME NEW k \in FreePos PROVE ~(k < i)
      BY <2>1
    <3>1. k < i => <<k, i>> \in OpToRel(<, Nat)
      BY <2>1 DEF OpToRel
    <3> QED BY <2>3, <3>1
  <2>5. get_free_pos_unlocked \in FreePos
    BY <1>2, <2>4 DEF get_free_pos_unlocked
  <2> QED BY <2>5 DEF FreePos
<1> QED BY <1>1, <1>2

\* Every pointer a thread holds is the address of an allocated bucket.
LEMMA PointerInHeap ==
    ASSUME TypeOK, TableInv, PointerInv
    PROVE  \A t \in Threads : me[t] = NULL \/ me[t] \in heap
<1> SUFFICES ASSUME NEW t \in Threads, me[t] # NULL PROVE me[t] \in heap
  OBVIOUS
<1>1. pc[t] \in Linked \cup Private
  BY DEF TypeOK, PcLabels, PointerInv, Linked, Private
<1>2. CASE pc[t] \in Linked
  <2>1. me[t] \in Buckets /\ job[pos[me[t]]] = me[t]
    BY <1>2 DEF TypeOK, PointerInv
  <2> QED BY <2>1 DEF TypeOK, TableInv
<1>3. CASE pc[t] \in Private
  BY <1>3 DEF PointerInv
<1> QED BY <1>1, <1>2, <1>3

-----------------------------------------------------------------------------
\* One lemma per action: it preserves Inv.


\* Taking mut_job moves only the refill thread.
LEMMA AlarmLockInv ==
    ASSUME Inv, AlarmLock
    PROVE  Inv'
<1>1. TableInv' /\ PointerInv' /\ OwnerInv' /\ AloneInv' /\ CondInv' /\ SizeInv' /\ FreshInv'
  BY DEF Inv, AlarmLock, vars, TableInv, PointerInv, OwnerInv, AloneInv,
      CondInv, SizeInv, FreshInv, shared, client, locks, alarm, Slots, Linked,
      Private, Owning, Exiting, NoLostWakeup
<1>2. TypeOK'
  BY TbfAssumption DEF Inv, AlarmLock, TypeOK, shared, client, PcLabels, Slots
<1>3. MutexInv'
  BY TbfAssumption DEF Inv, AlarmLock, MutexInv, shared, client, Slots
<1>4. UnloadInv'
  BY TbfAssumption DEF Inv, AlarmLock, UnloadInv, shared, client, Private,
      Slots, NoLeakAtExit
<1> QED BY <1>1, <1>2, <1>3, <1>4 DEF Inv

\* The refill thread steps over an empty slot or locks the bucket in it.
LEMMA AlarmScanInv ==
    ASSUME Inv, AlarmScan
    PROVE  Inv'
<1>1. TableInv' /\ PointerInv' /\ OwnerInv' /\ AloneInv' /\ CondInv' /\ SizeInv' /\ FreshInv'
  BY DEF Inv, AlarmScan, vars, TableInv, PointerInv, OwnerInv, AloneInv,
      CondInv, SizeInv, FreshInv, shared, client, Slots, locks, alarm, Linked,
      Private, Owning, Exiting, NoLostWakeup
<1>2. TypeOK'
  <2>1. CASE job[ai] = NULL
    BY <2>1, TbfAssumption DEF Inv, TypeOK, AlarmScan, Slots, shared, client
  <2>2. CASE job[ai] # NULL
    BY <2>2, TbfAssumption DEF Inv, TypeOK, AlarmScan, Slots, shared, client
  <2> QED BY <2>1, <2>2
<1>3. MutexInv'
  BY TbfAssumption DEF Inv, AlarmScan, MutexInv, TypeOK, shared, client,
      Slots, PcLabels
<1>4. UnloadInv'
  BY TbfAssumption DEF Inv, AlarmScan, UnloadInv, shared, client, Slots,
      Private, NoLeakAtExit
<1> QED BY <1>1, <1>2, <1>3, <1>4 DEF Inv

\* The refill adds tokens and empties the wait set.
LEMMA AlarmTickInv ==
    ASSUME Inv, AlarmTick
    PROVE  Inv'
<1>1. TableInv' /\ PointerInv' /\ OwnerInv' /\ AloneInv'
  BY DEF Inv, AlarmTick, vars, TableInv, PointerInv, OwnerInv, AloneInv,
      client, Min2, shared, locks, alarm, Slots, Linked, Private, Owning,
      Exiting
<1>2. TypeOK'
  BY TbfAssumption DEF Inv, AlarmTick, TypeOK, MutexInv, client, Min2,
      PcLabels, Slots
<1>3. MutexInv'
  BY TbfAssumption DEF Inv, AlarmTick, MutexInv, TypeOK, client, Min2, Slots,
      PcLabels
<1>4. CondInv'
  BY TbfAssumption DEF Inv, AlarmTick, CondInv, TypeOK, client, Min2,
      NoLostWakeup, PcLabels, Slots
<1>5. SizeInv'
  BY TbfAssumption DEF Inv, AlarmTick, SizeInv, TypeOK, client, Min2,
      PcLabels, Slots
<1>6. FreshInv'
  <2>1. \A t \in Threads : pc[t] \in {"place_lock", "place"} => me[t] # job[ai]
    BY TbfAssumption DEF Inv, TypeOK, AlarmTick, MutexInv, TableInv, PointerInv, Private
  <2>2. \A c \in Buckets : c # job[ai] => token'[c] = token[c]
    BY DEF Inv, TypeOK, AlarmTick
  <2>3. \A t \in Threads : pc[t] \in {"place_lock", "place"} => me[t] \in Buckets
    BY DEF Inv, TypeOK, PointerInv
  <2> QED BY <2>1, <2>2, <2>3 DEF Inv, AlarmTick, FreshInv, client
<1>7. UnloadInv'
  BY TbfAssumption DEF Inv, AlarmTick, UnloadInv, client, Min2, Private,
      Slots, NoLeakAtExit
<1> QED BY <1>1, <1>2, <1>3, <1>4, <1>5, <1>6, <1>7 DEF Inv

\* The end of a scan gives mut_job back.
LEMMA AlarmUnlockInv ==
    ASSUME Inv, AlarmUnlock
    PROVE  Inv'
<1>1. TableInv' /\ PointerInv' /\ OwnerInv' /\ AloneInv' /\ CondInv' /\ SizeInv' /\ FreshInv'
  BY DEF Inv, AlarmUnlock, vars, TableInv, PointerInv, OwnerInv, AloneInv,
      CondInv, SizeInv, FreshInv, shared, client, locks, alarm, Slots, Linked,
      Private, Owning, Exiting, NoLostWakeup
<1>2. TypeOK'
  BY TbfAssumption DEF Inv, AlarmUnlock, TypeOK, shared, client, PcLabels,
      Slots
<1>3. MutexInv'
  BY TbfAssumption DEF Inv, AlarmUnlock, MutexInv, shared, client, Slots
<1>4. UnloadInv'
  BY TbfAssumption DEF Inv, AlarmUnlock, UnloadInv, shared, client, Private,
      Slots, NoLeakAtExit
<1> QED BY <1>1, <1>2, <1>3, <1>4 DEF Inv

\* Waking up, or dying of the cancellation.
LEMMA AlarmSleepInv ==
    ASSUME Inv, AlarmSleep
    PROVE  Inv'
<1>1. TableInv' /\ PointerInv' /\ OwnerInv' /\ AloneInv' /\ CondInv' /\ SizeInv' /\ FreshInv'
  BY DEF Inv, AlarmSleep, vars, TableInv, PointerInv, OwnerInv, AloneInv,
      CondInv, SizeInv, FreshInv, shared, locks, client, alarm, Slots, Linked,
      Private, Owning, Exiting, NoLostWakeup
<1>2. TypeOK'
  BY TbfAssumption DEF Inv, AlarmSleep, TypeOK, shared, locks, client,
      PcLabels, Slots
<1>3. MutexInv'
  BY TbfAssumption DEF Inv, AlarmSleep, MutexInv, shared, locks, client, Slots
<1>4. UnloadInv'
  BY TbfAssumption DEF Inv, AlarmSleep, UnloadInv, shared, locks, client,
      Private, Slots, NoLeakAtExit
<1> QED BY <1>1, <1>2, <1>3, <1>4 DEF Inv

\* malloc returns a block no thread and no slot knows.
LEMMA InitCallInv ==
    ASSUME NEW t \in Threads, NEW b \in Buckets, NEW p \in Params, Inv, InitCall(t, b, p)
    PROVE  Inv'
<1>1. TypeOK'
  BY TbfAssumption DEF Inv, InitCall, TypeOK, locks, Exiting, Goto, PcLabels,
      Slots
<1>2. MutexInv'
  BY TbfAssumption DEF Inv, InitCall, MutexInv, locks, Exiting, Goto, Slots
<1>3. TableInv'
  BY TbfAssumption DEF Inv, InitCall, TableInv, locks, Exiting, Goto, Slots
<1>4. PointerInv'
  BY TbfAssumption DEF Inv, InitCall, PointerInv, TypeOK, TableInv, locks,
      Exiting, Goto, Linked, Private, PcLabels, Slots
<1>5. OwnerInv'
  <2>1. \A o \in Threads : me[o] # b
    BY PointerInHeap, TbfAssumption DEF Inv, InitCall
  <2>2. pc[t] = "idle" /\ me' = [me EXCEPT ![t] = b]
    BY DEF InitCall
  <2>3. pc' = [pc EXCEPT ![t] = "place_lock"]
    BY DEF InitCall, Goto
  <2> QED BY <2>1, <2>2, <2>3 DEF Inv, TypeOK, OwnerInv
<1>6. AloneInv'
  BY TbfAssumption DEF Inv, InitCall, AloneInv, locks, Exiting, Goto
<1>7. CondInv'
  BY TbfAssumption DEF Inv, InitCall, CondInv, locks, Exiting, Goto,
      NoLostWakeup
<1>8. SizeInv'
  <2>1. \A o \in Threads : me[o] # b
    BY PointerInHeap, TbfAssumption DEF Inv, InitCall
  <2>2. p[2] \in Nat
    BY TbfAssumption
  <2>3. \A c \in Buckets : token'[c] <= burst'[c]
    BY <2>2 DEF Inv, TypeOK, InitCall, SizeInv
  <2>4. \A o \in Threads : pc'[o] # "place_lock" => pc'[o] = pc[o] /\ me'[o] = me[o]
    BY DEF Inv, TypeOK, InitCall, Goto
  <2>5. \A o \in Threads : me[o] \in Buckets => burst'[me[o]] = burst[me[o]]
    BY <2>1 DEF Inv, TypeOK, InitCall
  <2>6. \A o \in Threads : pc[o] \in Linked => me[o] \in Buckets
    BY DEF Inv, TypeOK, PointerInv, Linked
  <2> QED BY <2>3, <2>4, <2>5, <2>6 DEF Inv, InitCall, SizeInv, Linked
<1>9. FreshInv'
  <2>1. \A o \in Threads : me[o] # b
    BY PointerInHeap, TbfAssumption DEF Inv, InitCall
  <2>2. p = <<p[1], p[2]>>
    BY TbfAssumption
  <2>3. /\ token'[b] = 0 /\ cps'[b] = p[1] /\ burst'[b] = p[2]
        /\ \A c \in Buckets : c # b => /\ token'[c] = token[c]
                                       /\ cps'[c] = cps[c] /\ burst'[c] = burst[c]
    BY DEF Inv, TypeOK, InitCall
  <2>4. \A o \in Threads : pc[o] \in {"place_lock", "place"} => me[o] \in Buckets
    BY DEF Inv, TypeOK, PointerInv
  <2>5. me' = [me EXCEPT ![t] = b] /\ pc' = [pc EXCEPT ![t] = "place_lock"]
    BY DEF InitCall, Goto
  <2> QED BY <2>1, <2>2, <2>3, <2>4, <2>5 DEF Inv, TypeOK, FreshInv
<1>10. UnloadInv'
  BY TbfAssumption DEF Inv, InitCall, UnloadInv, TypeOK, PointerInv, locks,
      Exiting, Goto, Private, Slots, NoLeakAtExit, PcLabels, Linked
<1> QED BY <1>1, <1>2, <1>3, <1>4, <1>5, <1>6, <1>7, <1>8, <1>9, <1>10 DEF Inv

\* The creator of a bucket takes mut_job.
LEMMA InitLockInv ==
    ASSUME NEW t \in Threads, Inv, InitLock(t)
    PROVE  Inv'
<1>1. TableInv'
  BY DEF Inv, InitLock, vars, TableInv, shared, alarm, Goto, locks, client,
      Slots
<1>2. TypeOK'
  BY TbfAssumption DEF Inv, InitLock, TypeOK, shared, alarm, Goto, PcLabels,
      Slots
<1>3. MutexInv'
  BY TbfAssumption DEF Inv, InitLock, MutexInv, TypeOK, shared, alarm, Goto,
      Slots, PcLabels
<1>4. PointerInv'
  BY TbfAssumption DEF Inv, InitLock, PointerInv, shared, alarm, Goto, Linked,
      Private
<1>5. OwnerInv'
  BY TbfAssumption DEF Inv, InitLock, OwnerInv, shared, alarm, Goto, Owning
<1>6. AloneInv'
  BY TbfAssumption DEF Inv, InitLock, AloneInv, shared, alarm, Goto, Exiting
<1>7. CondInv'
  BY TbfAssumption DEF Inv, InitLock, CondInv, shared, alarm, Goto,
      NoLostWakeup
<1>8. SizeInv'
  BY TbfAssumption DEF Inv, InitLock, SizeInv, shared, alarm, Goto
<1>9. FreshInv'
  BY TbfAssumption DEF Inv, InitLock, FreshInv, TypeOK, PointerInv, OwnerInv,
      TableInv, shared, alarm, Goto, PcLabels, Slots, Linked, Private, Owning
<1>10. UnloadInv'
  BY TbfAssumption DEF Inv, InitLock, UnloadInv, shared, alarm, Goto, Private,
      Slots, NoLeakAtExit
<1> QED BY <1>1, <1>2, <1>3, <1>4, <1>5, <1>6, <1>7, <1>8, <1>9, <1>10 DEF Inv

\* A bucket enters the first free slot, or is freed again.
LEMMA InitPlaceInv ==
    ASSUME NEW t \in Threads, Inv, InitPlace(t)
    PROVE  Inv'
<1>1. TypeOK'
  <2> DEFINE p == get_free_pos_unlocked
  <2>1. p = -1 \/ (p \in Slots /\ job[p] = NULL)
    BY FreePosFact DEF Inv
  <2>2. /\ IF p = -1 THEN heap' = heap \ {me[t]} /\ UNCHANGED <<job, pos>>
                     ELSE /\ pos' = [pos EXCEPT ![me[t]] = p]
                          /\ job' = [job EXCEPT ![p] = me[t]]
                          /\ UNCHANGED heap
        /\ mut_job' = NULL /\ me' = [me EXCEPT ![t] = NULL]
        /\ pc' = [pc EXCEPT ![t] = "idle"]
        /\ UNCHANGED <<cps, burst, token, cond, mut, alarm, size, ui>>
    BY DEF InitPlace, Goto
  <2> HIDE DEF p
  <2> QED BY <2>1, <2>2 DEF Inv, TypeOK, PcLabels, Slots, alarm
<1>2. MutexInv'
  <2>1. /\ me' = [me EXCEPT ![t] = NULL] /\ pc' = [pc EXCEPT ![t] = "idle"]
        /\ pc[t] = "place" /\ mut_job' = NULL /\ UNCHANGED <<mut, apc, ai>>
    BY DEF InitPlace, Goto, alarm
  <2>2. apc # "tick" /\ mut_job = t
    BY <2>1, TbfAssumption DEF Inv, MutexInv
  <2> QED BY <2>1, <2>2, TbfAssumption DEF Inv, TypeOK, MutexInv
<1>3. TableInv'
  <2> DEFINE p == get_free_pos_unlocked
  <2>1. p = -1 \/ (p \in Slots /\ job[p] = NULL)
    BY FreePosFact DEF Inv
  <2>2. /\ me[t] \in Buckets /\ me[t] \in heap
        /\ \A i \in Slots : job[i] # me[t]
    BY TbfAssumption DEF Inv, TypeOK, InitPlace, TableInv, PointerInv, Private
  <2>3. CASE p = -1
    BY <2>2, <2>3 DEF Inv, InitPlace, TableInv
  <2>4. CASE p # -1
    <3>1. /\ pos' = [pos EXCEPT ![me[t]] = p]
          /\ job' = [job EXCEPT ![p] = me[t]]
          /\ heap' = heap
      BY <2>4 DEF InitPlace
    <3> HIDE DEF p
    <3> QED BY <2>1, <2>2, <2>4, <3>1 DEF Inv, TypeOK, TableInv
  <2> QED BY <2>3, <2>4
<1>4. PointerInv'
  <2> DEFINE p == get_free_pos_unlocked
  <2>1. p = -1 \/ (p \in Slots /\ job[p] = NULL)
    BY FreePosFact DEF Inv
  <2>2. me[t] \in Buckets /\ \A o \in Threads : o # t => me[o] # me[t]
    BY DEF Inv, TypeOK, InitPlace, PointerInv, OwnerInv, Owning, PcLabels
  <2>3. me' = [me EXCEPT ![t] = NULL] /\ pc' = [pc EXCEPT ![t] = "idle"]
    BY DEF InitPlace, Goto
  <2>4. CASE p = -1
    <3>1. heap' = heap \ {me[t]} /\ job' = job /\ pos' = pos
      BY <2>4 DEF InitPlace
    <3> QED BY <2>2, <2>3, <3>1 DEF Inv, TypeOK, PointerInv, Linked, Private
  <2>5. CASE p # -1
    <3>1. /\ pos' = [pos EXCEPT ![me[t]] = p]
          /\ job' = [job EXCEPT ![p] = me[t]]
          /\ heap' = heap
      BY <2>5 DEF InitPlace
    <3> HIDE DEF p
    <3>2. \A c \in Buckets : c # me[t] => (job'[pos'[c]] = c <=> job[pos[c]] = c)
      BY <2>1, <2>2, <2>5, <3>1, TbfAssumption DEF Inv, TypeOK
    <3>3. \A o \in Threads : pc[o] \in Linked \cup Private => me[o] \in Buckets
      BY DEF Inv, TypeOK, PointerInv, Linked, Private
    <3> QED BY <2>2, <2>3, <3>1, <3>2, <3>3 DEF Inv, TypeOK, PointerInv, Linked, Private
  <2> QED BY <2>4, <2>5
<1>5. OwnerInv'
  <2>1. /\ me' = [me EXCEPT ![t] = NULL] /\ pc' = [pc EXCEPT ![t] = "idle"]
    BY DEF InitPlace, Goto
  <2>2. \A o \in Threads : pc[o] \in Owning => me[o] # NULL
    BY DEF Inv, PointerInv, Owning
  <2> QED BY <2>1, <2>2 DEF Inv, TypeOK, OwnerInv, Owning
<1>6. AloneInv'
  BY TbfAssumption DEF Inv, InitPlace, AloneInv, alarm, Goto,
      get_free_pos_unlocked, Exiting, FreePos, Slots
<1>7. CondInv'
  BY TbfAssumption DEF Inv, InitPlace, CondInv, alarm, Goto,
      get_free_pos_unlocked, NoLostWakeup, FreePos, Slots
<1>8. SizeInv'
  BY TbfAssumption DEF Inv, InitPlace, SizeInv, alarm, Goto,
      get_free_pos_unlocked, FreePos, Slots
<1>9. FreshInv'
  BY TbfAssumption DEF Inv, InitPlace, FreshInv, TypeOK, PointerInv, OwnerInv,
      TableInv, alarm, Goto, get_free_pos_unlocked, PcLabels, Slots, Linked,
      Private, Owning, FreePos
<1>10. UnloadInv'
  <2> DEFINE p == get_free_pos_unlocked
  <2>1. p = -1 \/ (p \in Slots /\ job[p] = NULL)
    BY FreePosFact DEF Inv
  <2>2. /\ me[t] \in Buckets /\ me[t] \in heap /\ pc[t] = "place"
        /\ apc # "none" /\ ~cancel
    BY DEF Inv, TypeOK, InitPlace, PointerInv, UnloadInv, AloneInv, Exiting, Private
  <2>3. /\ me' = [me EXCEPT ![t] = NULL] /\ pc' = [pc EXCEPT ![t] = "idle"]
        /\ UNCHANGED <<apc, cancel, ui>>
    BY DEF InitPlace, Goto, alarm
  <2>4. \A b \in heap' : job'[pos'[b]] = b
                           \/ \E o \in Threads : pc'[o] \in Private /\ me'[o] = b
    <3>1. CASE p = -1
      <4>1. heap' = heap \ {me[t]} /\ job' = job /\ pos' = pos
        BY <3>1 DEF InitPlace
      <4> QED BY <2>2, <2>3, <4>1 DEF Inv, TypeOK, UnloadInv, Private
    <3>2. CASE p # -1
      <4>1. /\ pos' = [pos EXCEPT ![me[t]] = p]
            /\ job' = [job EXCEPT ![p] = me[t]]
            /\ heap' = heap
        BY <3>2 DEF InitPlace
      <4> HIDE DEF p
      <4>2. \A b \in Buckets : b # me[t] /\ job[pos[b]] = b => job'[pos'[b]] = b
        BY <2>1, <2>2, <3>2, <4>1, TbfAssumption DEF Inv, TypeOK
      <4>3. job'[pos'[me[t]]] = me[t]
        BY <2>1, <2>2, <3>2, <4>1 DEF Inv, TypeOK
      <4>4. \A b \in heap, o \in Threads :
              b # me[t] /\ pc[o] \in Private /\ me[o] = b => pc'[o] \in Private /\ me'[o] = b
        BY <2>2, <2>3 DEF Inv, TypeOK
      <4> QED BY <4>1, <4>2, <4>3, <4>4 DEF Inv, TypeOK, UnloadInv
    <3> QED BY <3>1, <3>2
  <2>5. \A o \in Threads : pc'[o] # "exited"
    BY <2>2, <2>3 DEF Inv, TypeOK, AloneInv, Exiting
  <2> QED BY <2>2, <2>3, <2>4, <2>5 DEF Inv, UnloadInv, NoLeakAtExit
<1> QED BY <1>1, <1>2, <1>3, <1>4, <1>5, <1>6, <1>7, <1>8, <1>9, <1>10 DEF Inv

\* A client enters mytbf_fetchToken with a handle nobody is destroying.
LEMMA FetchCallInv ==
    ASSUME NEW t \in Threads, NEW b \in Buckets, NEW n \in Sizes, Inv, FetchCall(t, b, n)
    PROVE  Inv'
<1>1. TableInv'
  BY DEF Inv, FetchCall, vars, TableInv, shared, locks, alarm, Exiting,
      Handles, Goto, client, Slots, Destroying
<1>2. TypeOK'
  BY TbfAssumption DEF Inv, FetchCall, TypeOK, shared, locks, alarm, Exiting,
      Handles, Goto, PcLabels, Slots, Destroying
<1>3. MutexInv'
  BY TbfAssumption DEF Inv, FetchCall, MutexInv, shared, locks, alarm,
      Exiting, Handles, Goto, Slots, Destroying
<1>4. PointerInv'
  <2>1. b \in Buckets /\ job[pos[b]] = b
    BY TbfAssumption DEF Inv, TypeOK, FetchCall, Handles, TableInv
  <2>2. /\ pc[t] = "idle" /\ me' = [me EXCEPT ![t] = b]
        /\ pc' = [pc EXCEPT ![t] = "fetch_lock"]
        /\ UNCHANGED <<job, pos, heap>>
    BY DEF FetchCall, Goto, shared
  <2> QED BY <2>1, <2>2, TbfAssumption DEF Inv, TypeOK, PointerInv, Linked, Private
<1>5. OwnerInv'
  <2>1. b \in Buckets /\ job[pos[b]] = b /\ ~Destroying(b)
    BY TbfAssumption DEF Inv, TypeOK, FetchCall, Handles, TableInv
  <2>2. \A o \in Threads : pc[o] \in Owning => me[o] # b
    BY <2>1 DEF Inv, PointerInv, Private, Owning, Destroying
  <2>3. /\ pc[t] = "idle" /\ me' = [me EXCEPT ![t] = b]
        /\ pc' = [pc EXCEPT ![t] = "fetch_lock"]
    BY DEF FetchCall, Goto
  <2> QED BY <2>2, <2>3 DEF Inv, TypeOK, OwnerInv, Owning
<1>6. AloneInv'
  BY TbfAssumption DEF Inv, FetchCall, AloneInv, shared, locks, alarm,
      Exiting, Handles, Goto, Slots, Destroying
<1>7. CondInv'
  BY TbfAssumption DEF Inv, FetchCall, CondInv, shared, locks, alarm, Exiting,
      Handles, Goto, NoLostWakeup, Slots, Destroying
<1>8. SizeInv'
  BY TbfAssumption DEF Inv, FetchCall, SizeInv, TypeOK, shared, locks, alarm,
      Exiting, Handles, Goto, PcLabels, Slots, Destroying
<1>9. FreshInv'
  BY TbfAssumption DEF Inv, FetchCall, FreshInv, TypeOK, PointerInv, OwnerInv,
      TableInv, shared, locks, alarm, Exiting, Handles, Goto, PcLabels, Slots,
      Linked, Private, Owning, Destroying
<1>10. UnloadInv'
  BY TbfAssumption DEF Inv, FetchCall, UnloadInv, shared, locks, alarm,
      Exiting, Handles, Goto, Private, Slots, NoLeakAtExit, Destroying
<1> QED BY <1>1, <1>2, <1>3, <1>4, <1>5, <1>6, <1>7, <1>8, <1>9, <1>10 DEF Inv

\* A client takes the mutex of its bucket.
LEMMA FetchLockInv ==
    ASSUME NEW t \in Threads, Inv, FetchLock(t)
    PROVE  Inv'
<1>1. TableInv'
  BY DEF Inv, FetchLock, vars, TableInv, shared, alarm, Goto, locks, client,
      Slots
<1>2. TypeOK'
  <2>1. mut' \in [Buckets -> Threads \cup {Alarm, NULL}]
    BY DEF Inv, TypeOK, FetchLock
  <2> QED BY <2>1 DEF Inv, TypeOK, FetchLock, Goto, PcLabels, shared, alarm
<1>3. MutexInv'
  BY TbfAssumption DEF Inv, FetchLock, MutexInv, TypeOK, shared, alarm, Goto,
      Slots, PcLabels
<1>4. PointerInv'
  BY TbfAssumption DEF Inv, FetchLock, PointerInv, shared, alarm, Goto,
      Linked, Private
<1>5. OwnerInv'
  BY TbfAssumption DEF Inv, FetchLock, OwnerInv, shared, alarm, Goto, Owning
<1>6. AloneInv'
  BY TbfAssumption DEF Inv, FetchLock, AloneInv, shared, alarm, Goto, Exiting
<1>7. CondInv'
  BY TbfAssumption DEF Inv, FetchLock, CondInv, shared, alarm, Goto,
      NoLostWakeup
<1>8. SizeInv'
  BY TbfAssumption DEF Inv, FetchLock, SizeInv, shared, alarm, Goto
<1>9. FreshInv'
  BY TbfAssumption DEF Inv, FetchLock, FreshInv, TypeOK, PointerInv, OwnerInv,
      TableInv, shared, alarm, Goto, PcLabels, Slots, Linked, Private, Owning
<1>10. UnloadInv'
  BY TbfAssumption DEF Inv, FetchLock, UnloadInv, shared, alarm, Goto,
      Private, Slots, NoLeakAtExit
<1> QED BY <1>1, <1>2, <1>3, <1>4, <1>5, <1>6, <1>7, <1>8, <1>9, <1>10 DEF Inv

\* The client blocks because the bucket is empty.
LEMMA FetchWaitInv ==
    ASSUME NEW t \in Threads, Inv, FetchWait(t)
    PROVE  Inv'
<1>1. TableInv'
  BY DEF Inv, FetchWait, vars, TableInv, alarm, Goto, shared, locks, client,
      Slots
<1>2. TypeOK'
  <2>1. me[t] \in Buckets
    BY DEF Inv, TypeOK, FetchWait, PointerInv
  <2>2. cond' \in [Buckets -> SUBSET Threads]
    BY <2>1 DEF Inv, TypeOK, FetchWait
  <2> QED BY <2>2 DEF Inv, TypeOK, FetchWait, Goto, PcLabels, alarm
<1>3. MutexInv'
  <2>1. /\ pc[t] = "fetch" /\ pc' = [pc EXCEPT ![t] = "wait"]
        /\ mut' = [mut EXCEPT ![me[t]] = NULL]
        /\ UNCHANGED <<mut_job, apc, ai, job, me>>
    BY DEF FetchWait, Goto, alarm
  <2>2. mut[me[t]] = t /\ me[t] \in Buckets
    BY <2>1 DEF Inv, TypeOK, MutexInv, PointerInv
  <2> QED BY <2>1, <2>2, TbfAssumption DEF Inv, TypeOK, MutexInv
<1>4. PointerInv'
  BY TbfAssumption DEF Inv, FetchWait, PointerInv, alarm, Goto, Linked,
      Private
<1>5. OwnerInv'
  BY TbfAssumption DEF Inv, FetchWait, OwnerInv, alarm, Goto, Owning
<1>6. AloneInv'
  BY TbfAssumption DEF Inv, FetchWait, AloneInv, alarm, Goto, Exiting
<1>7. CondInv'
  BY TbfAssumption DEF Inv, FetchWait, CondInv, TypeOK, alarm, Goto,
      NoLostWakeup, PcLabels, Slots
<1>8. SizeInv'
  BY TbfAssumption DEF Inv, FetchWait, SizeInv, alarm, Goto
<1>9. FreshInv'
  BY TbfAssumption DEF Inv, FetchWait, FreshInv, TypeOK, PointerInv, OwnerInv,
      TableInv, alarm, Goto, PcLabels, Slots, Linked, Private, Owning
<1>10. UnloadInv'
  BY TbfAssumption DEF Inv, FetchWait, UnloadInv, alarm, Goto, Private, Slots,
      NoLeakAtExit
<1> QED BY <1>1, <1>2, <1>3, <1>4, <1>5, <1>6, <1>7, <1>8, <1>9, <1>10 DEF Inv

\* The client takes no more than the bucket holds.
LEMMA FetchTakeInv ==
    ASSUME NEW t \in Threads, Inv, FetchTake(t)
    PROVE  Inv'
<1>1. TableInv'
  BY DEF Inv, FetchTake, vars, TableInv, alarm, Goto, Min2, shared, locks,
      client, Slots
<1>2. TypeOK'
  <2> DEFINE n == Min2(token[me[t]], size[t])
  <2>1. me[t] \in Buckets /\ size[t] >= 1
    BY DEF Inv, TypeOK, FetchTake, PointerInv, SizeInv
  <2>2. n \in 1 .. token[me[t]]
    BY <2>1 DEF Inv, TypeOK, FetchTake, Min2
  <2>3. /\ token' = [token EXCEPT ![me[t]] = @ - n]
        /\ size' = [size EXCEPT ![t] = n]
        /\ pc' = [pc EXCEPT ![t] = "read"]
    BY DEF FetchTake, Goto
  <2> HIDE DEF n
  <2>4. token' \in [Buckets -> Nat] /\ size' \in [Threads -> Nat]
    BY <2>1, <2>2, <2>3 DEF Inv, TypeOK
  <2> QED BY <2>4 DEF Inv, TypeOK, FetchTake, Goto, PcLabels, alarm
<1>3. MutexInv'
  BY TbfAssumption DEF Inv, FetchTake, MutexInv, TypeOK, alarm, Goto, Min2,
      Slots, PcLabels
<1>4. PointerInv'
  BY TbfAssumption DEF Inv, FetchTake, PointerInv, alarm, Goto, Min2, Linked,
      Private
<1>5. OwnerInv'
  BY TbfAssumption DEF Inv, FetchTake, OwnerInv, alarm, Goto, Min2, Owning
<1>6. AloneInv'
  BY TbfAssumption DEF Inv, FetchTake, AloneInv, alarm, Goto, Min2, Exiting
<1>7. CondInv'
  BY TbfAssumption DEF Inv, FetchTake, CondInv, alarm, Goto, Min2,
      NoLostWakeup
<1>8. SizeInv'
  <2> DEFINE n == Min2(token[me[t]], size[t])
  <2>1. me[t] \in Buckets /\ size[t] >= 1
    BY DEF Inv, TypeOK, FetchTake, PointerInv, SizeInv
  <2>2. n \in 1 .. token[me[t]]
    BY <2>1 DEF Inv, TypeOK, FetchTake, Min2
  <2>3. /\ token' = [token EXCEPT ![me[t]] = @ - n]
        /\ size' = [size EXCEPT ![t] = n]
        /\ pc' = [pc EXCEPT ![t] = "read"]
    BY DEF FetchTake, Goto
  <2> HIDE DEF n
  <2>4. \A c \in Buckets : token'[c] <= token[c]
    BY <2>1, <2>2, <2>3 DEF Inv, TypeOK
  <2>5. \A c \in Buckets : token'[c] <= burst[c]
    BY <2>1, <2>2, <2>3, <2>4 DEF Inv, TypeOK, SizeInv
  <2>6. n \in 1 .. burst[me[t]]
    BY <2>1, <2>2 DEF Inv, TypeOK, SizeInv
  <2> QED BY <2>3, <2>5, <2>6 DEF Inv, TypeOK, FetchTake, SizeInv
<1>9. FreshInv'
  BY TbfAssumption DEF Inv, FetchTake, FreshInv, TypeOK, PointerInv, OwnerInv,
      TableInv, alarm, Goto, Min2, PcLabels, Slots, Linked, Private, Owning
<1>10. UnloadInv'
  BY TbfAssumption DEF Inv, FetchTake, UnloadInv, alarm, Goto, Min2, Private,
      Slots, NoLeakAtExit
<1> QED BY <1>1, <1>2, <1>3, <1>4, <1>5, <1>6, <1>7, <1>8, <1>9, <1>10 DEF Inv

\* A waiter leaves the wait set by itself.
LEMMA SpuriousWakeupInv ==
    ASSUME NEW t \in Threads, Inv, SpuriousWakeup(t)
    PROVE  Inv'
<1>1. MutexInv' /\ TableInv' /\ PointerInv' /\ OwnerInv' /\ AloneInv' /\ SizeInv' /\ FreshInv' /\ UnloadInv'
  BY DEF Inv, SpuriousWakeup, vars, MutexInv, TableInv, PointerInv, OwnerInv,
      AloneInv, SizeInv, FreshInv, UnloadInv, locks, alarm, client, shared,
      Slots, Linked, Private, Owning, Exiting, NoLeakAtExit
<1>2. TypeOK'
  <2>1. me[t] \in Buckets
    BY DEF Inv, TypeOK, SpuriousWakeup, PointerInv
  <2>2. cond' \in [Buckets -> SUBSET Threads]
    BY <2>1 DEF Inv, TypeOK, SpuriousWakeup
  <2> QED BY <2>2 DEF Inv, TypeOK, SpuriousWakeup, locks, alarm, client
<1>3. CondInv'
  BY TbfAssumption DEF Inv, SpuriousWakeup, CondInv, locks, alarm, client,
      NoLostWakeup
<1> QED BY <1>1, <1>2, <1>3 DEF Inv

\* The client used all its tokens.
LEMMA ReadAllInv ==
    ASSUME NEW t \in Threads, Inv, ReadAll(t)
    PROVE  Inv'
<1>1. TableInv'
  BY DEF Inv, ReadAll, vars, TableInv, shared, locks, alarm, Goto, client,
      Slots
<1>2. TypeOK'
  BY TbfAssumption DEF Inv, ReadAll, TypeOK, shared, locks, alarm, Goto,
      PcLabels, Slots
<1>3. MutexInv'
  BY TbfAssumption DEF Inv, ReadAll, MutexInv, shared, locks, alarm, Goto,
      Slots
<1>4. PointerInv'
  BY TbfAssumption DEF Inv, ReadAll, PointerInv, TypeOK, shared, locks, alarm,
      Goto, Linked, Private, PcLabels, Slots
<1>5. OwnerInv'
  BY TbfAssumption DEF Inv, ReadAll, OwnerInv, TypeOK, PointerInv, shared,
      locks, alarm, Goto, Owning, PcLabels, Slots, Linked, Private
<1>6. AloneInv'
  BY TbfAssumption DEF Inv, ReadAll, AloneInv, shared, locks, alarm, Goto,
      Exiting
<1>7. CondInv'
  BY TbfAssumption DEF Inv, ReadAll, CondInv, shared, locks, alarm, Goto,
      NoLostWakeup
<1>8. SizeInv'
  BY TbfAssumption DEF Inv, ReadAll, SizeInv, TypeOK, shared, locks, alarm,
      Goto, PcLabels, Slots
<1>9. FreshInv'
  BY TbfAssumption DEF Inv, ReadAll, FreshInv, TypeOK, PointerInv, OwnerInv,
      TableInv, shared, locks, alarm, Goto, PcLabels, Slots, Linked, Private,
      Owning
<1>10. UnloadInv'
  BY TbfAssumption DEF Inv, ReadAll, UnloadInv, shared, locks, alarm, Goto,
      Private, Slots, NoLeakAtExit
<1> QED BY <1>1, <1>2, <1>3, <1>4, <1>5, <1>6, <1>7, <1>8, <1>9, <1>10 DEF Inv

\* The client has tokens to give back.
LEMMA ReadShortInv ==
    ASSUME NEW t \in Threads, Inv, ReadShort(t)
    PROVE  Inv'
<1>1. TableInv'
  BY DEF Inv, ReadShort, vars, TableInv, shared, locks, alarm, Goto, client,
      Slots
<1>2. TypeOK'
  BY TbfAssumption DEF Inv, ReadShort, TypeOK, shared, locks, alarm, Goto,
      PcLabels, Slots
<1>3. MutexInv'
  BY TbfAssumption DEF Inv, ReadShort, MutexInv, shared, locks, alarm, Goto,
      Slots
<1>4. PointerInv'
  BY TbfAssumption DEF Inv, ReadShort, PointerInv, shared, locks, alarm, Goto,
      Linked, Private
<1>5. OwnerInv'
  BY TbfAssumption DEF Inv, ReadShort, OwnerInv, shared, locks, alarm, Goto,
      Owning
<1>6. AloneInv'
  BY TbfAssumption DEF Inv, ReadShort, AloneInv, shared, locks, alarm, Goto,
      Exiting
<1>7. CondInv'
  BY TbfAssumption DEF Inv, ReadShort, CondInv, shared, locks, alarm, Goto,
      NoLostWakeup
<1>8. SizeInv'
  <2>1. PICK rest \in 1 .. size[t] - 1 : size' = [size EXCEPT ![t] = rest]
    BY DEF ReadShort
  <2>2. size[t] \in 1 .. burst[me[t]] /\ me[t] \in Buckets
    BY DEF Inv, TypeOK, ReadShort, SizeInv, PointerInv
  <2>3. rest \in 1 .. burst[me[t]]
    BY <2>2 DEF Inv, TypeOK
  <2> QED BY <2>1, <2>3 DEF Inv, TypeOK, ReadShort, Goto, SizeInv, shared
<1>9. FreshInv'
  BY TbfAssumption DEF Inv, ReadShort, FreshInv, TypeOK, PointerInv, OwnerInv,
      TableInv, shared, locks, alarm, Goto, PcLabels, Slots, Linked, Private,
      Owning
<1>10. UnloadInv'
  BY TbfAssumption DEF Inv, ReadShort, UnloadInv, shared, locks, alarm, Goto,
      Private, Slots, NoLeakAtExit
<1> QED BY <1>1, <1>2, <1>3, <1>4, <1>5, <1>6, <1>7, <1>8, <1>9, <1>10 DEF Inv

\* A client that returns tokens takes the mutex.
LEMMA ReturnLockInv ==
    ASSUME NEW t \in Threads, Inv, ReturnLock(t)
    PROVE  Inv'
<1>1. TableInv'
  BY DEF Inv, ReturnLock, vars, TableInv, shared, alarm, Goto, locks, client,
      Slots
<1>2. TypeOK'
  <2>1. mut' \in [Buckets -> Threads \cup {Alarm, NULL}]
    BY DEF Inv, TypeOK, ReturnLock
  <2> QED BY <2>1 DEF Inv, TypeOK, ReturnLock, Goto, PcLabels, shared, alarm
<1>3. MutexInv'
  BY TbfAssumption DEF Inv, ReturnLock, MutexInv, TypeOK, shared, alarm, Goto,
      Slots, PcLabels
<1>4. PointerInv'
  BY TbfAssumption DEF Inv, ReturnLock, PointerInv, shared, alarm, Goto,
      Linked, Private
<1>5. OwnerInv'
  BY TbfAssumption DEF Inv, ReturnLock, OwnerInv, shared, alarm, Goto, Owning
<1>6. AloneInv'
  BY TbfAssumption DEF Inv, ReturnLock, AloneInv, shared, alarm, Goto, Exiting
<1>7. CondInv'
  BY TbfAssumption DEF Inv, ReturnLock, CondInv, shared, alarm, Goto,
      NoLostWakeup
<1>8. SizeInv'
  BY TbfAssumption DEF Inv, ReturnLock, SizeInv, shared, alarm, Goto
<1>9. FreshInv'
  BY TbfAssumption DEF Inv, ReturnLock, FreshInv, TypeOK, PointerInv,
      OwnerInv, TableInv, shared, alarm, Goto, PcLabels, Slots, Linked,
      Private, Owning
<1>10. UnloadInv'
  BY TbfAssumption DEF Inv, ReturnLock, UnloadInv, shared, alarm, Goto,
      Private, Slots, NoLeakAtExit
<1> QED BY <1>1, <1>2, <1>3, <1>4, <1>5, <1>6, <1>7, <1>8, <1>9, <1>10 DEF Inv

\* Returned tokens empty the wait set.
LEMMA ReturnTokenInv ==
    ASSUME NEW t \in Threads, Inv, ReturnToken(t)
    PROVE  Inv'
<1>1. TableInv'
  BY DEF Inv, ReturnToken, vars, TableInv, alarm, Goto, Min2, shared, locks,
      client, Slots
<1>2. TypeOK'
  <2>1. me[t] \in Buckets
    BY DEF Inv, TypeOK, ReturnToken, PointerInv
  <2>2. Min2(token[me[t]] + size[t], burst[me[t]]) \in Nat
    BY <2>1 DEF Inv, TypeOK, Min2
  <2>3. token' \in [Buckets -> Nat]
    BY <2>1, <2>2 DEF Inv, TypeOK, ReturnToken
  <2>4. cond' \in [Buckets -> SUBSET Threads] /\ mut' \in [Buckets -> Threads \cup {Alarm, NULL}]
    BY DEF Inv, TypeOK, ReturnToken
  <2> QED BY <2>3, <2>4 DEF Inv, TypeOK, ReturnToken, Goto, PcLabels, alarm
<1>3. MutexInv'
  BY TbfAssumption DEF Inv, ReturnToken, MutexInv, TypeOK, alarm, Goto, Min2,
      Slots, PcLabels
<1>4. PointerInv'
  BY TbfAssumption DEF Inv, ReturnToken, PointerInv, TypeOK, alarm, Goto,
      Min2, Linked, Private, PcLabels, Slots
<1>5. OwnerInv'
  BY TbfAssumption DEF Inv, ReturnToken, OwnerInv, TypeOK, PointerInv, alarm,
      Goto, Min2, Owning, PcLabels, Slots, Linked, Private
<1>6. AloneInv'
  BY TbfAssumption DEF Inv, ReturnToken, AloneInv, alarm, Goto, Min2, Exiting
<1>7. CondInv'
  BY TbfAssumption DEF Inv, ReturnToken, CondInv, TypeOK, alarm, Goto, Min2,
      NoLostWakeup, PcLabels, Slots
<1>8. SizeInv'
  BY TbfAssumption DEF Inv, ReturnToken, SizeInv, TypeOK, alarm, Goto, Min2,
      PcLabels, Slots
<1>9. FreshInv'
  BY TbfAssumption DEF Inv, ReturnToken, FreshInv, TypeOK, PointerInv,
      OwnerInv, TableInv, alarm, Goto, Min2, PcLabels, Slots, Linked, Private,
      Owning
<1>10. UnloadInv'
  BY TbfAssumption DEF Inv, ReturnToken, UnloadInv, alarm, Goto, Min2,
      Private, Slots, NoLeakAtExit
<1> QED BY <1>1, <1>2, <1>3, <1>4, <1>5, <1>6, <1>7, <1>8, <1>9, <1>10 DEF Inv

\* A client starts to destroy a bucket nobody else uses.
LEMMA DestroyCallInv ==
    ASSUME NEW t \in Threads, NEW b \in Buckets, Inv, DestroyCall(t, b)
    PROVE  Inv'
<1>1. TableInv'
  BY DEF Inv, DestroyCall, vars, TableInv, shared, locks, alarm, Exiting,
      Handles, Using, Goto, client, Slots, Destroying
<1>2. TypeOK'
  BY TbfAssumption DEF Inv, DestroyCall, TypeOK, shared, locks, alarm,
      Exiting, Handles, Using, Goto, PcLabels, Slots, Destroying
<1>3. MutexInv'
  BY TbfAssumption DEF Inv, DestroyCall, MutexInv, shared, locks, alarm,
      Exiting, Handles, Using, Goto, Slots, Destroying
<1>4. PointerInv'
  BY TbfAssumption DEF Inv, DestroyCall, PointerInv, TypeOK, TableInv, shared,
      locks, alarm, Exiting, Handles, Using, Goto, Linked, Private, PcLabels,
      Slots, Destroying
<1>5. OwnerInv'
  BY TbfAssumption DEF Inv, DestroyCall, OwnerInv, TypeOK, PointerInv, shared,
      locks, alarm, Exiting, Handles, Using, Goto, Owning, PcLabels, Slots,
      Linked, Private, Destroying
<1>6. AloneInv'
  BY TbfAssumption DEF Inv, DestroyCall, AloneInv, shared, locks, alarm,
      Exiting, Handles, Using, Goto, Slots, Destroying
<1>7. CondInv'
  BY TbfAssumption DEF Inv, DestroyCall, CondInv, shared, locks, alarm,
      Exiting, Handles, Using, Goto, NoLostWakeup, Slots, Destroying
<1>8. SizeInv'
  BY TbfAssumption DEF Inv, DestroyCall, SizeInv, shared, locks, alarm,
      Exiting, Handles, Using, Goto, Slots, Destroying
<1>9. FreshInv'
  BY TbfAssumption DEF Inv, DestroyCall, FreshInv, TypeOK, PointerInv,
      OwnerInv, TableInv, shared, locks, alarm, Exiting, Handles, Using, Goto,
      PcLabels, Slots, Linked, Private, Owning, Destroying
<1>10. UnloadInv'
  BY TbfAssumption DEF Inv, DestroyCall, UnloadInv, shared, locks, alarm,
      Exiting, Handles, Using, Goto, Private, Slots, NoLeakAtExit, Destroying
<1> QED BY <1>1, <1>2, <1>3, <1>4, <1>5, <1>6, <1>7, <1>8, <1>9, <1>10 DEF Inv

\* The destroyer takes mut_job.
LEMMA DestroyLockInv ==
    ASSUME NEW t \in Threads, Inv, DestroyLock(t)
    PROVE  Inv'
<1>1. TableInv'
  BY DEF Inv, DestroyLock, vars, TableInv, shared, alarm, Goto, locks, client,
      Slots
<1>2. TypeOK'
  BY TbfAssumption DEF Inv, DestroyLock, TypeOK, shared, alarm, Goto,
      PcLabels, Slots
<1>3. MutexInv'
  BY TbfAssumption DEF Inv, DestroyLock, MutexInv, TypeOK, shared, alarm,
      Goto, Slots, PcLabels
<1>4. PointerInv'
  BY TbfAssumption DEF Inv, DestroyLock, PointerInv, shared, alarm, Goto,
      Linked, Private
<1>5. OwnerInv'
  BY TbfAssumption DEF Inv, DestroyLock, OwnerInv, shared, alarm, Goto, Owning
<1>6. AloneInv'
  BY TbfAssumption DEF Inv, DestroyLock, AloneInv, shared, alarm, Goto,
      Exiting
<1>7. CondInv'
  BY TbfAssumption DEF Inv, DestroyLock, CondInv, shared, alarm, Goto,
      NoLostWakeup
<1>8. SizeInv'
  BY TbfAssumption DEF Inv, DestroyLock, SizeInv, shared, alarm, Goto
<1>9. FreshInv'
  BY TbfAssumption DEF Inv, DestroyLock, FreshInv, TypeOK, PointerInv,
      OwnerInv, TableInv, shared, alarm, Goto, PcLabels, Slots, Linked,
      Private, Owning
<1>10. UnloadInv'
  BY TbfAssumption DEF Inv, DestroyLock, UnloadInv, shared, alarm, Goto,
      Private, Slots, NoLeakAtExit
<1> QED BY <1>1, <1>2, <1>3, <1>4, <1>5, <1>6, <1>7, <1>8, <1>9, <1>10 DEF Inv

\* The slot named by pos is the bucket's own.
LEMMA DestroyUnlinkInv ==
    ASSUME NEW t \in Threads, Inv, DestroyUnlink(t)
    PROVE  Inv'
<1>1. TypeOK'
  BY TbfAssumption DEF Inv, DestroyUnlink, TypeOK, AloneInv, PointerInv,
      alarm, Goto, PcLabels, Slots, Exiting, Linked, Private
<1>2. MutexInv'
  BY TbfAssumption DEF Inv, DestroyUnlink, MutexInv, TypeOK, alarm, Goto,
      Slots, PcLabels
<1>3. TableInv'
  BY TbfAssumption DEF Inv, DestroyUnlink, TableInv, alarm, Goto, Slots
<1>4. PointerInv'
  BY TbfAssumption DEF Inv, DestroyUnlink, PointerInv, TypeOK, TableInv,
      OwnerInv, alarm, Goto, Linked, Private, PcLabels, Slots, Owning
<1>5. OwnerInv'
  BY TbfAssumption DEF Inv, DestroyUnlink, OwnerInv, alarm, Goto, Owning
<1>6. AloneInv'
  BY TbfAssumption DEF Inv, DestroyUnlink, AloneInv, alarm, Goto, Exiting
<1>7. CondInv'
  BY TbfAssumption DEF Inv, DestroyUnlink, CondInv, alarm, Goto, NoLostWakeup
<1>8. SizeInv'
  BY TbfAssumption DEF Inv, DestroyUnlink, SizeInv, alarm, Goto
<1>9. FreshInv'
  BY TbfAssumption DEF Inv, DestroyUnlink, FreshInv, TypeOK, PointerInv,
      OwnerInv, TableInv, alarm, Goto, PcLabels, Slots, Linked, Private,
      Owning
<1>10. UnloadInv'
  BY TbfAssumption DEF Inv, DestroyUnlink, UnloadInv, TypeOK, TableInv,
      PointerInv, OwnerInv, alarm, Goto, Private, Slots, NoLeakAtExit,
      PcLabels, Linked, Owning
<1> QED BY <1>1, <1>2, <1>3, <1>4, <1>5, <1>6, <1>7, <1>8, <1>9, <1>10 DEF Inv

\* The freed bucket is in no slot and no other thread has it.
LEMMA DestroyFreeInv ==
    ASSUME NEW t \in Threads, Inv, DestroyFree(t)
    PROVE  Inv'
<1>1. TypeOK'
  <2>1. me[t] \in Buckets
    BY DEF Inv, TypeOK, DestroyFree, PointerInv
  <2>2. ui' \in 0 .. MYTBF_MAX
    BY TbfAssumption DEF Inv, TypeOK, DestroyFree, UnloadInv, Slots
  <2>3. /\ cps' \in [Buckets -> Nat] /\ burst' \in [Buckets -> Nat]
        /\ token' \in [Buckets -> Nat] /\ pos' \in [Buckets -> Slots]
    BY <2>1, TbfAssumption DEF Inv, TypeOK, DestroyFree, Slots
  <2> QED BY <2>2, <2>3 DEF Inv, TypeOK, DestroyFree, Goto, PcLabels, locks, alarm
<1>2. MutexInv'
  BY TbfAssumption DEF Inv, DestroyFree, MutexInv, locks, alarm, Goto, Slots
<1>3. TableInv'
  BY TbfAssumption DEF Inv, DestroyFree, TableInv, TypeOK, PointerInv, locks,
      alarm, Goto, Slots, PcLabels, Linked, Private
<1>4. PointerInv'
  BY TbfAssumption DEF Inv, DestroyFree, PointerInv, TypeOK, OwnerInv, locks,
      alarm, Goto, Linked, Private, PcLabels, Slots, Owning
<1>5. OwnerInv'
  BY TbfAssumption DEF Inv, DestroyFree, OwnerInv, TypeOK, PointerInv, locks,
      alarm, Goto, Owning, PcLabels, Slots, Linked, Private
<1>6. AloneInv'
  BY TbfAssumption DEF Inv, DestroyFree, AloneInv, locks, alarm, Goto, Exiting
<1>7. CondInv'
  BY TbfAssumption DEF Inv, DestroyFree, CondInv, locks, alarm, Goto,
      NoLostWakeup
<1>8. SizeInv'
  BY TbfAssumption DEF Inv, DestroyFree, SizeInv, TypeOK, PointerInv,
      OwnerInv, locks, alarm, Goto, PcLabels, Slots, Linked, Private, Owning
<1>9. FreshInv'
  BY TbfAssumption DEF Inv, DestroyFree, FreshInv, TypeOK, PointerInv,
      OwnerInv, TableInv, locks, alarm, Goto, PcLabels, Slots, Linked,
      Private, Owning
<1>10. UnloadInv'
  <2>1. /\ pc[t] = "free" /\ me[t] \in Buckets /\ apc # "none"
        /\ \A o \in Threads : o # t => me[o] # me[t]
    BY DEF Inv, TypeOK, DestroyFree, PointerInv, OwnerInv, Owning, Private, UnloadInv
  <2>2. /\ me' = [me EXCEPT ![t] = NULL]
        /\ pc' = [pc EXCEPT ![t] = IF cancel THEN "unload" ELSE "idle"]
        /\ heap' = heap \ {me[t]} /\ job' = job /\ pos' = [pos EXCEPT ![me[t]] = 0]
        /\ UNCHANGED <<apc, cancel>>
    BY DEF DestroyFree, Goto, alarm
  <2>3. \A b \in heap' : job'[pos'[b]] = b
                           \/ \E o \in Threads : pc'[o] \in Private /\ me'[o] = b
    BY <2>1, <2>2 DEF Inv, TypeOK, UnloadInv, Private
  <2>4. \A o \in Threads : o # t /\ cancel => pc[o] = "idle"
    BY <2>1 DEF Inv, AloneInv, Exiting
  <2>5. \A o \in Threads : pc'[o] # "exited"
    BY <2>1, <2>2 DEF Inv, TypeOK, AloneInv, Exiting
  <2>6. CASE cancel
    <3>1. ui \in Slots /\ job[ui] = NULL /\ ui' = ui + 1
      BY <2>1, <2>6 DEF Inv, UnloadInv, DestroyFree
    <3>2. \A i \in Slots : i < ui' => job'[i] = NULL
      BY <2>2, <2>6, <3>1, TbfAssumption DEF Inv, UnloadInv, Slots
    <3> QED BY <2>1, <2>2, <2>3, <2>4, <2>5, <2>6, <3>2
            DEF Inv, TypeOK, UnloadInv, NoLeakAtExit
  <2>7. CASE ~cancel
    BY <2>1, <2>2, <2>3, <2>5, <2>7 DEF Inv, UnloadInv, NoLeakAtExit, DestroyFree
  <2> QED BY <2>6, <2>7
<1> QED BY <1>1, <1>2, <1>3, <1>4, <1>5, <1>6, <1>7, <1>8, <1>9, <1>10 DEF Inv

\* exit() starts with no thread inside the library.
LEMMA ExitCallInv ==
    ASSUME NEW t \in Threads, Inv, ExitCall(t)
    PROVE  Inv'
<1>1. TableInv'
  BY DEF Inv, ExitCall, vars, TableInv, shared, locks, Exiting, Goto, alarm,
      client, Slots
<1>2. TypeOK'
  <2>1. CASE apc = "none"
    BY <2>1 DEF Inv, TypeOK, ExitCall, Goto, PcLabels, shared, locks
  <2>2. CASE apc # "none"
    BY <2>2 DEF Inv, TypeOK, ExitCall, Goto, PcLabels, shared, locks
  <2> QED BY <2>1, <2>2
<1>3. MutexInv'
  BY TbfAssumption DEF Inv, ExitCall, MutexInv, TypeOK, PointerInv, shared,
      locks, Exiting, Goto, Slots, PcLabels, Linked, Private
<1>4. PointerInv'
  BY TbfAssumption DEF Inv, ExitCall, PointerInv, TypeOK, shared, locks,
      Exiting, Goto, Linked, Private, PcLabels, Slots
<1>5. OwnerInv'
  BY TbfAssumption DEF Inv, ExitCall, OwnerInv, TypeOK, shared, locks,
      Exiting, Goto, Owning, PcLabels, Slots
<1>6. AloneInv'
  BY TbfAssumption DEF Inv, ExitCall, AloneInv, TypeOK, shared, locks,
      Exiting, Goto, PcLabels, Slots
<1>7. CondInv'
  BY TbfAssumption DEF Inv, ExitCall, CondInv, TypeOK, shared, locks, Exiting,
      Goto, NoLostWakeup, PcLabels, Slots
<1>8. SizeInv'
  BY TbfAssumption DEF Inv, ExitCall, SizeInv, TypeOK, shared, locks, Exiting,
      Goto, PcLabels, Slots
<1>9. FreshInv'
  BY TbfAssumption DEF Inv, ExitCall, FreshInv, TypeOK, PointerInv, OwnerInv,
      TableInv, shared, locks, Exiting, Goto, PcLabels, Slots, Linked,
      Private, Owning
<1>10. UnloadInv'
  BY TbfAssumption DEF Inv, ExitCall, UnloadInv, TypeOK, TableInv, PointerInv,
      shared, locks, Exiting, Goto, Private, Slots, NoLeakAtExit, PcLabels,
      Linked
<1> QED BY <1>1, <1>2, <1>3, <1>4, <1>5, <1>6, <1>7, <1>8, <1>9, <1>10 DEF Inv

\* pthread_join returns.
LEMMA UnloadJoinInv ==
    ASSUME NEW t \in Threads, Inv, UnloadJoin(t)
    PROVE  Inv'
<1>1. TableInv'
  BY DEF Inv, UnloadJoin, vars, TableInv, shared, locks, alarm, Goto, client,
      Slots
<1>2. TypeOK'
  BY TbfAssumption DEF Inv, UnloadJoin, TypeOK, shared, locks, alarm, Goto,
      PcLabels, Slots
<1>3. MutexInv'
  BY TbfAssumption DEF Inv, UnloadJoin, MutexInv, shared, locks, alarm, Goto,
      Slots
<1>4. PointerInv'
  BY TbfAssumption DEF Inv, UnloadJoin, PointerInv, shared, locks, alarm,
      Goto, Linked, Private
<1>5. OwnerInv'
  BY TbfAssumption DEF Inv, UnloadJoin, OwnerInv, shared, locks, alarm, Goto,
      Owning
<1>6. AloneInv'
  BY TbfAssumption DEF Inv, UnloadJoin, AloneInv, shared, locks, alarm, Goto,
      Exiting
<1>7. CondInv'
  BY TbfAssumption DEF Inv, UnloadJoin, CondInv, shared, locks, alarm, Goto,
      NoLostWakeup
<1>8. SizeInv'
  BY TbfAssumption DEF Inv, UnloadJoin, SizeInv, shared, locks, alarm, Goto
<1>9. FreshInv'
  BY TbfAssumption DEF Inv, UnloadJoin, FreshInv, TypeOK, PointerInv,
      OwnerInv, TableInv, shared, locks, alarm, Goto, PcLabels, Slots, Linked,
      Private, Owning
<1>10. UnloadInv'
  BY TbfAssumption DEF Inv, UnloadJoin, UnloadInv, shared, locks, alarm, Goto,
      Private, Slots, NoLeakAtExit
<1> QED BY <1>1, <1>2, <1>3, <1>4, <1>5, <1>6, <1>7, <1>8, <1>9, <1>10 DEF Inv

\* module_unload looks at the next slot.
LEMMA UnloadNextInv ==
    ASSUME NEW t \in Threads, Inv, UnloadNext(t)
    PROVE  Inv'
<1>1. TableInv'
  BY DEF Inv, UnloadNext, vars, TableInv, shared, locks, alarm, Goto, client,
      Slots
<1>2. TypeOK'
  <2>1. CASE ui = MYTBF_MAX
    BY <2>1, TbfAssumption DEF Inv, TypeOK, UnloadNext, Goto, PcLabels, shared, locks, alarm
  <2>2. CASE ui < MYTBF_MAX /\ job[ui] = NULL
    BY <2>2, TbfAssumption DEF Inv, TypeOK, UnloadNext, shared, locks, alarm
  <2>3. CASE ui < MYTBF_MAX /\ job[ui] # NULL
    <3>1. ui \in Slots /\ job[ui] \in Buckets
      BY <2>3, TbfAssumption DEF Inv, TypeOK, Slots
    <3>2. me' = [me EXCEPT ![t] = job[ui]] /\ pc' = [pc EXCEPT ![t] = "unlink_lock"] /\ ui' = ui
      BY <2>3, TbfAssumption DEF UnloadNext, Goto
    <3> QED BY <3>1, <3>2 DEF Inv, TypeOK, UnloadNext, PcLabels, shared, locks, alarm
  <2> QED BY <2>1, <2>2, <2>3, TbfAssumption DEF Inv, TypeOK
<1>3. MutexInv'
  <2>1. /\ pc[t] = "unload" /\ me[t] = NULL
        /\ UNCHANGED <<mut_job, mut, apc, ai, job>>
    BY DEF Inv, UnloadNext, PointerInv, shared, locks, alarm
  <2>2. /\ \A o \in Threads : o # t => pc'[o] = pc[o] /\ me'[o] = me[o]
        /\ pc'[t] \in {"unload", "unlink_lock", "exited"}
    BY DEF Inv, TypeOK, UnloadNext, Goto
  <2> QED BY <2>1, <2>2 DEF Inv, TypeOK, MutexInv
<1>4. PointerInv'
  <2>1. /\ pc[t] = "unload" /\ me[t] = NULL /\ cancel
        /\ \A o \in Threads : o # t => pc[o] = "idle" /\ me[o] = NULL
    BY DEF Inv, UnloadNext, PointerInv, AloneInv, Exiting
  <2>2. \/ pc' = [pc EXCEPT ![t] = "exited"] /\ me' = me
        \/ pc' = pc /\ me' = me
        \/ /\ pc' = [pc EXCEPT ![t] = "unlink_lock"]
           /\ ui \in Slots /\ job[ui] # NULL
           /\ me' = [me EXCEPT ![t] = job[ui]]
    BY TbfAssumption DEF Inv, TypeOK, UnloadNext, Goto, Slots
  <2> QED BY <2>1, <2>2, TbfAssumption
          DEF Inv, TypeOK, UnloadNext, TableInv, PointerInv, Linked, Private, shared
<1>5. OwnerInv'
  <2>1. /\ pc[t] = "unload" /\ me[t] = NULL /\ cancel
        /\ \A o \in Threads : o # t => pc[o] = "idle" /\ me[o] = NULL
    BY DEF Inv, UnloadNext, PointerInv, AloneInv, Exiting
  <2>2. \/ pc' = [pc EXCEPT ![t] = "exited"] /\ me' = me
        \/ pc' = pc /\ me' = me
        \/ /\ pc' = [pc EXCEPT ![t] = "unlink_lock"]
           /\ ui \in Slots /\ job[ui] # NULL
           /\ me' = [me EXCEPT ![t] = job[ui]]
    BY TbfAssumption DEF Inv, TypeOK, UnloadNext, Goto, Slots
  <2> QED BY <2>1, <2>2 DEF Inv, TypeOK, OwnerInv, Owning
<1>6. AloneInv'
  <2>1. /\ pc[t] = "unload" /\ me[t] = NULL /\ cancel
        /\ \A o \in Threads : o # t => pc[o] = "idle" /\ me[o] = NULL
    BY DEF Inv, UnloadNext, PointerInv, AloneInv, Exiting
  <2>2. \/ pc' = [pc EXCEPT ![t] = "exited"] /\ me' = me
        \/ pc' = pc /\ me' = me
        \/ /\ pc' = [pc EXCEPT ![t] = "unlink_lock"]
           /\ ui \in Slots /\ job[ui] # NULL
           /\ me' = [me EXCEPT ![t] = job[ui]]
    BY TbfAssumption DEF Inv, TypeOK, UnloadNext, Goto, Slots
  <2>3. cancel' = cancel
    BY DEF UnloadNext, alarm
  <2> QED BY <2>1, <2>2, <2>3 DEF Inv, TypeOK, AloneInv, Exiting
<1>7. CondInv'
  BY TbfAssumption DEF Inv, UnloadNext, CondInv, TypeOK, shared, locks, alarm,
      Goto, NoLostWakeup, PcLabels, Slots
<1>8. SizeInv'
  BY TbfAssumption DEF Inv, UnloadNext, SizeInv, TypeOK, shared, locks, alarm,
      Goto, PcLabels, Slots
<1>9. FreshInv'
  <2>1. /\ \A o \in Threads : o # t => pc'[o] = pc[o] /\ me'[o] = me[o]
        /\ pc'[t] \in {"unload", "unlink_lock", "exited"}
    BY DEF Inv, TypeOK, UnloadNext, Goto
  <2> QED BY <2>1 DEF Inv, UnloadNext, FreshInv, shared
<1>10. UnloadInv'
  <2>1. /\ pc[t] = "unload" /\ me[t] = NULL /\ cancel
        /\ \A o \in Threads : o # t => pc[o] = "idle"
    BY DEF Inv, UnloadNext, PointerInv, AloneInv, Exiting
  <2>2. UNCHANGED <<heap, job, pos, apc, cancel>>
    BY DEF UnloadNext, shared, alarm
  <2>3. \A b \in heap : job[pos[b]] = b
    BY <2>1 DEF Inv, UnloadInv, Private
  <2>4. CASE ui = MYTBF_MAX
    <3>1. pc' = [pc EXCEPT ![t] = "exited"] /\ me' = me /\ ui' = ui
      BY <2>4, TbfAssumption DEF UnloadNext, Goto
    <3>2. \A i \in Slots : job[i] = NULL
      BY <2>1, <2>4, TbfAssumption DEF Inv, UnloadInv, Slots
    <3>3. heap = {}
      BY <2>3, <3>2, TbfAssumption DEF Inv, TypeOK
    <3> QED BY <2>1, <2>2, <3>1, <3>2, <3>3 DEF Inv, TypeOK, UnloadInv, NoLeakAtExit
  <2>5. CASE ui < MYTBF_MAX /\ job[ui] = NULL
    <3>1. pc' = pc /\ me' = me /\ ui' = ui + 1
      BY <2>5, TbfAssumption DEF UnloadNext
    <3>2. \A i \in Slots : i < ui' => job[i] = NULL
      BY <2>1, <2>5, <3>1, TbfAssumption DEF Inv, TypeOK, UnloadInv, Slots
    <3> QED BY <2>1, <2>2, <2>3, <3>1, <3>2 DEF Inv, TypeOK, UnloadInv, NoLeakAtExit
  <2>6. CASE ui < MYTBF_MAX /\ job[ui] # NULL
    <3>1. /\ pc' = [pc EXCEPT ![t] = "unlink_lock"] /\ ui' = ui
          /\ me' = [me EXCEPT ![t] = job[ui]]
      BY <2>6, TbfAssumption DEF UnloadNext, Goto
    <3> QED BY <2>1, <2>2, <2>3, <2>6, <3>1, TbfAssumption
            DEF Inv, TypeOK, UnloadInv, NoLeakAtExit, Slots
  <2> QED BY <2>4, <2>5, <2>6, TbfAssumption DEF Inv, TypeOK
<1> QED BY <1>1, <1>2, <1>3, <1>4, <1>5, <1>6, <1>7, <1>8, <1>9, <1>10 DEF Inv

-----------------------------------------------------------------------------
\* The initial state satisfies Inv.
LEMMA InitInv == Init => Inv
<1> SUFFICES ASSUME Init PROVE Inv
  OBVIOUS
<1>1. 0 \in Slots /\ 0 \in 0 .. MYTBF_MAX
  BY TbfAssumption DEF Slots
<1>2. TypeOK
  BY <1>1 DEF Init, TypeOK, PcLabels
<1>3. MutexInv /\ TableInv /\ PointerInv /\ OwnerInv /\ AloneInv /\ CondInv
  BY TbfAssumption DEF Init, MutexInv, TableInv, PointerInv, OwnerInv, AloneInv,
       CondInv, NoLostWakeup, Exiting, Owning, Linked, Private, Slots
<1>4. SizeInv /\ FreshInv /\ UnloadInv
  BY DEF Init, SizeInv, FreshInv, UnloadInv, NoLeakAtExit
<1> QED BY <1>2, <1>3, <1>4 DEF Inv

\* Inv is inductive.
LEMMA NextInv == Inv /\ [Next]_vars => Inv'
<1> SUFFICES ASSUME Inv, [Next]_vars PROVE Inv'
  OBVIOUS
<1>1. CASE AlarmStep
  BY <1>1, AlarmLockInv, AlarmScanInv, AlarmTickInv, AlarmUnlockInv, AlarmSleepInv
     DEF AlarmStep
<1>2. ASSUME NEW t \in Threads, InsideStep(t) PROVE Inv'
  BY <1>2, InitLockInv, InitPlaceInv, FetchLockInv, FetchWaitInv, FetchTakeInv,
     ReadAllInv, ReadShortInv, ReturnLockInv, ReturnTokenInv, DestroyLockInv,
     DestroyUnlinkInv, DestroyFreeInv, UnloadJoinInv, UnloadNextInv
     DEF InsideStep
<1>3. ASSUME NEW t \in Threads, CallStep(t) PROVE Inv'
  BY <1>3, InitCallInv, FetchCallInv, DestroyCallInv, SpuriousWakeupInv, ExitCallInv
     DEF CallStep
<1>4. CASE UNCHANGED vars
  BY <1>4 DEF Inv, TypeOK, MutexInv, TableInv, PointerInv, OwnerInv, AloneInv, CondInv,
     SizeInv, FreshInv, UnloadInv, NoLostWakeup, NoLeakAtExit, Exiting, vars, shared, locks,
     alarm, client
<1> QED BY <1>1, <1>2, <1>3, <1>4 DEF Next, Exited

\* The invariant holds in every reachable state.
THEOREM InvHolds == Spec => []Inv
<1> QED BY InitInv, NextInv, PTL DEF Spec

\* The variables keep their types: in particular token never goes below zero,
\* whatever clients and the refill thread do to it.
THEOREM TypeCorrect == Spec => []TypeOK
<1>1. Inv => TypeOK
  BY DEF Inv
<1> QED BY InvHolds, <1>1, PTL

\* Neither the refill thread nor a client inside a call touches a bucket that
\* mytbf_destroy has freed.
THEOREM MemorySafe == Spec => []NoUseAfterFree
<1>1. Inv => NoUseAfterFree
  <2> SUFFICES ASSUME Inv PROVE NoUseAfterFree
    OBVIOUS
  <2>1. \A i \in Slots : job[i] # NULL => job[i] \in heap
    BY DEF Inv, TableInv
  <2>2. apc = "tick" => job[ai] \in heap
    BY <2>1, TbfAssumption DEF Inv, MutexInv
  <2>3. \A t \in Threads : pc[t] \in Deref => me[t] \in heap
    BY PointerInHeap DEF Inv, PointerInv, Deref
  <2> QED BY <2>1, <2>2, <2>3 DEF NoUseAfterFree
<1> QED BY InvHolds, <1>1, PTL

\* A thread blocked in mytbf_fetchToken finds its bucket empty: no token is
\* added without waking it.
THEOREM WakeupsArrive == Spec => []NoLostWakeup
<1>1. Inv => NoLostWakeup
  BY DEF Inv, CondInv
<1> QED BY InvHolds, <1>1, PTL

\* When exit() is through, module_unload has freed every bucket.
THEOREM ExitFreesAll == Spec => []NoLeakAtExit
<1>1. Inv => NoLeakAtExit
  BY DEF Inv, UnloadInv
<1> QED BY InvHolds, <1>1, PTL

-----------------------------------------------------------------------------
(***************************************************************************)
(* MyTbf implements TokenBucket.                                           *)
(***************************************************************************)

\* A bucket is published if it is in the slot its pos field names.
LEMMA PublishedAtPos ==
    ASSUME TypeOK, TableInv, NEW b \in Buckets
    PROVE  Published(b) <=> job[pos[b]] = b
BY TbfAssumption DEF TypeOK, TableInv, Published

\* A step that neither moves a bucket in job[] nor changes one is invisible.
LEMMA Invisible ==
    ASSUME job' = job,
           \A b \in Buckets : Published(b) =>
             cps'[b] = cps[b] /\ burst'[b] = burst[b] /\ token'[b] = token[b]
    PROVE  bucketBar' = bucketBar
BY DEF bucketBar, Published

\* A step that changes the tokens of one published bucket changes its level.
LEMMA LevelStep ==
    ASSUME TypeOK, NEW b \in Buckets, Published(b), NEW x,
           token' = [token EXCEPT ![b] = x],
           UNCHANGED <<job, cps, burst>>
    PROVE  /\ bucketBar[b] = [cps |-> cps[b], burst |-> burst[b], level |-> token[b]]
           /\ bucketBar[b] # NULL
           /\ bucketBar' = [bucketBar EXCEPT ![b].level = x]
<1>1. bucketBar[b] = [cps |-> cps[b], burst |-> burst[b], level |-> token[b]]
  BY DEF bucketBar
<1>2. bucketBar[b] # NULL
  BY <1>1, NullAssumption DEF TypeOK
<1>3. \A c \in Buckets : Published(c)' <=> Published(c)
  BY DEF Published
<1>4. \A c \in Buckets : bucketBar'[c] = [bucketBar EXCEPT ![b].level = x][c]
  BY <1>1, <1>3 DEF bucketBar, TypeOK
<1>5. bucketBar' = [bucketBar EXCEPT ![b].level = x]
  BY <1>4 DEF bucketBar
<1> QED BY <1>1, <1>2, <1>5

\* The initial state is an initial state of TokenBucket.
LEMMA InitRefines == Init => TB!Init
BY TbfAssumption DEF Init, TB!Init, bucketBar, Published

\* The refill of one bucket is Refill.
LEMMA TickRefines == Inv /\ AlarmTick => \E b \in Buckets : TB!Refill(b)
<1> SUFFICES ASSUME Inv, AlarmTick PROVE \E b \in Buckets : TB!Refill(b)
  OBVIOUS
<1> DEFINE b == job[ai]
<1>1. b \in Buckets /\ Published(b)
  BY DEF Inv, AlarmTick, MutexInv, Published
<1>2. token' = [token EXCEPT ![b] = Min2(token[b] + cps[b], burst[b])]
  BY <1>1 DEF Inv, TypeOK, AlarmTick
<1>3. UNCHANGED <<job, cps, burst>>
  BY DEF AlarmTick
<1> HIDE DEF b
<1>4. /\ bucketBar[b] = [cps |-> cps[b], burst |-> burst[b], level |-> token[b]]
      /\ bucketBar[b] # NULL
      /\ bucketBar' = [bucketBar EXCEPT ![b].level = Min2(token[b] + cps[b], burst[b])]
  BY <1>1, <1>2, <1>3, LevelStep DEF Inv
<1>5. Min2(token[b] + cps[b], burst[b]) = TB!Fill(bucketBar[b], bucketBar[b].cps)
  BY <1>1, <1>4 DEF Inv, TypeOK, Min2, TB!Fill
<1>6. TB!Refill(b)
  BY <1>4, <1>5 DEF TB!Refill
<1> QED BY <1>1, <1>6

\* Handing out tokens is Take.
LEMMA TakeRefines ==
    ASSUME NEW t \in Threads, Inv, FetchTake(t)
    PROVE  TB!Take(me[t])
<1> DEFINE b == me[t]
<1> DEFINE n == Min2(token[b], size[t])
<1>1. b \in Buckets /\ Published(b) /\ size[t] >= 1
  BY PublishedAtPos DEF Inv, TypeOK, FetchTake, PointerInv, SizeInv, Linked
<1>2. token' = [token EXCEPT ![b] = token[b] - n] /\ n \in 1 .. token[b]
  BY <1>1 DEF Inv, TypeOK, FetchTake, Min2
<1>3. UNCHANGED <<job, cps, burst>>
  BY DEF FetchTake
<1> HIDE DEF b, n
<1>4. /\ bucketBar[b] = [cps |-> cps[b], burst |-> burst[b], level |-> token[b]]
      /\ bucketBar[b] # NULL
      /\ bucketBar' = [bucketBar EXCEPT ![b].level = token[b] - n]
  BY <1>1, <1>2, <1>3, LevelStep DEF Inv
<1>5. n \in 1 .. bucketBar[b].level
  BY <1>2, <1>4
<1>6. bucketBar' = [bucketBar EXCEPT ![b].level = @ - n]
  BY <1>4
<1>7. TB!Take(b)
  BY <1>4, <1>5, <1>6, Zenon DEF TB!Take
<1> QED BY <1>7 DEF b

\* Returning tokens is Give: a client has no more of them than burst.
LEMMA GiveRefines ==
    ASSUME NEW t \in Threads, Inv, ReturnToken(t)
    PROVE  TB!Give(me[t])
<1> DEFINE b == me[t]
<1>1. b \in Buckets /\ Published(b) /\ size[t] \in 1 .. burst[b]
  BY PublishedAtPos DEF Inv, TypeOK, ReturnToken, PointerInv, SizeInv, Linked
<1>2. token' = [token EXCEPT ![b] = Min2(token[b] + size[t], burst[b])]
  BY <1>1 DEF Inv, TypeOK, ReturnToken
<1>3. UNCHANGED <<job, cps, burst>>
  BY DEF ReturnToken
<1> HIDE DEF b
<1>4. /\ bucketBar[b] = [cps |-> cps[b], burst |-> burst[b], level |-> token[b]]
      /\ bucketBar[b] # NULL
      /\ bucketBar' = [bucketBar EXCEPT ![b].level = Min2(token[b] + size[t], burst[b])]
  BY <1>1, <1>2, <1>3, LevelStep DEF Inv
<1>5. Min2(token[b] + size[t], burst[b]) = TB!Fill(bucketBar[b], size[t])
  BY <1>1, <1>4 DEF Inv, TypeOK, Min2, TB!Fill
<1>6. size[t] \in 1 .. bucketBar[b].burst
  BY <1>1, <1>4
<1>7. bucketBar' = [bucketBar EXCEPT ![b].level = TB!Fill(bucketBar[b], size[t])]
  BY <1>4, <1>5
<1>8. TB!Give(b)
  BY <1>4, <1>6, <1>7, Zenon DEF TB!Give
<1> QED BY <1>8 DEF b

\* Publishing a bucket is Create; a full table changes nothing.
LEMMA PlaceRefines ==
    ASSUME NEW t \in Threads, Inv, InitPlace(t)
    PROVE  TB!Create(me[t]) \/ bucketBar' = bucketBar
<1> DEFINE p == get_free_pos_unlocked
<1>1. PICK b \in Buckets : /\ b = me[t] /\ ~Published(b)
                           /\ token[b] = 0 /\ <<cps[b], burst[b]>> \in Params
  BY PublishedAtPos DEF Inv, TypeOK, InitPlace, PointerInv, Private, FreshInv
<1>2. CASE p = -1
  BY <1>2, Invisible DEF InitPlace
<1>3. CASE p # -1
  <2>1. p \in Slots /\ job[p] = NULL
    BY <1>3, FreePosFact DEF Inv
  <2>2. job' = [job EXCEPT ![p] = b] /\ UNCHANGED <<cps, burst, token>>
    BY <1>1, <1>3 DEF InitPlace
  <2> HIDE DEF p
  <2>3. \A c \in Buckets : c # b => (Published(c)' <=> Published(c))
    BY <2>1, <2>2, TbfAssumption DEF Inv, TypeOK, Published
  <2>4. Published(b)'
    BY <2>1, <2>2 DEF Inv, TypeOK, Published
  <2>5. bucketBar[b] = NULL
    BY <1>1 DEF bucketBar
  <2>6. bucketBar' = [bucketBar EXCEPT ![b] = [cps |-> cps[b], burst |-> burst[b], level |-> 0]]
    BY <1>1, <2>2, <2>3, <2>4 DEF bucketBar
  <2>7. TB!Create(b)
    BY <1>1, <2>5, <2>6 DEF TB!Create
  <2> QED BY <1>1, <2>7
<1> QED BY <1>2, <1>3

\* Unlinking a bucket is Destroy.
LEMMA UnlinkRefines ==
    ASSUME NEW t \in Threads, Inv, DestroyUnlink(t)
    PROVE  TB!Destroy(me[t])
<1>1. PICK b \in Buckets : /\ b = me[t] /\ Published(b)
                           /\ pos[b] \in Slots /\ job[pos[b]] = b
  BY PublishedAtPos DEF Inv, TypeOK, DestroyUnlink, PointerInv, Linked
<1>2. job' = [job EXCEPT ![pos[b]] = NULL] /\ UNCHANGED <<cps, burst, token>>
  BY <1>1 DEF DestroyUnlink
<1>3. \A c \in Buckets : c # b => (Published(c)' <=> Published(c))
  BY <1>1, <1>2, TbfAssumption DEF Inv, TypeOK, Published
<1>4. ~Published(b)'
  BY <1>1, <1>2, TbfAssumption DEF Inv, TypeOK, TableInv, Published
<1>5. bucketBar[b] # NULL
  BY <1>1, NullAssumption DEF Inv, TypeOK, bucketBar
<1>6. bucketBar' = [bucketBar EXCEPT ![b] = NULL]
  BY <1>1, <1>2, <1>3, <1>4 DEF bucketBar
<1>7. TB!Destroy(b)
  BY <1>5, <1>6 DEF TB!Destroy
<1> QED BY <1>1, <1>7

\* Every other step is invisible: what it changes of a bucket's fields, it
\* changes while the bucket is not published.
LEMMA OtherStepsInvisible ==
    ASSUME NEW t \in Threads, Inv,
           \/ InitLock(t) \/ FetchLock(t) \/ FetchWait(t) \/ ReadAll(t) \/ ReadShort(t)
           \/ ReturnLock(t) \/ DestroyLock(t) \/ UnloadJoin(t) \/ UnloadNext(t)
           \/ \E b \in Buckets, n \in Sizes : FetchCall(t, b, n)
           \/ \E b \in Buckets : DestroyCall(t, b)
           \/ SpuriousWakeup(t) \/ ExitCall(t)
    PROVE  bucketBar' = bucketBar
<1>1. UNCHANGED <<job, cps, burst, token>>
  BY DEF InitLock, FetchLock, FetchWait, ReadAll, ReadShort, ReturnLock, DestroyLock,
       UnloadJoin, UnloadNext, FetchCall, DestroyCall, SpuriousWakeup, ExitCall, shared
<1> QED BY <1>1, Invisible

\* mytbf_init fills in a block that no slot holds.
LEMMA InitCallInvisible ==
    ASSUME NEW t \in Threads, NEW b \in Buckets, NEW p \in Params, Inv, InitCall(t, b, p)
    PROVE  bucketBar' = bucketBar
<1>1. ~Published(b)
  BY TbfAssumption DEF Inv, InitCall, TableInv, Published
<1>2. \A c \in Buckets : c # b => cps'[c] = cps[c] /\ burst'[c] = burst[c] /\ token'[c] = token[c]
  BY DEF Inv, TypeOK, InitCall
<1> QED BY <1>1, <1>2, Invisible DEF InitCall

\* mytbf_destroy frees a block that no slot holds.
LEMMA FreeInvisible ==
    ASSUME NEW t \in Threads, Inv, DestroyFree(t)
    PROVE  bucketBar' = bucketBar
<1>1. PICK b \in Buckets : b = me[t] /\ ~Published(b)
  BY PublishedAtPos DEF Inv, TypeOK, DestroyFree, PointerInv, Private
<1>2. \A c \in Buckets : c # b => cps'[c] = cps[c] /\ burst'[c] = burst[c] /\ token'[c] = token[c]
  BY <1>1 DEF Inv, TypeOK, DestroyFree
<1> QED BY <1>1, <1>2, Invisible DEF DestroyFree

\* Every step of the library is a step of TokenBucket or leaves it alone.
LEMMA NextRefines == Inv /\ [Next]_vars => [TB!Next]_bucketBar
<1> SUFFICES ASSUME Inv, [Next]_vars PROVE TB!Next \/ bucketBar' = bucketBar
  OBVIOUS
<1>1. CASE AlarmTick
  BY <1>1, TickRefines DEF TB!Next, TB!BucketStep
<1>2. CASE AlarmLock \/ AlarmScan \/ AlarmUnlock \/ AlarmSleep \/ UNCHANGED vars
  BY <1>2, Invisible DEF AlarmLock, AlarmScan, AlarmUnlock, AlarmSleep, vars, shared
<1>3. ASSUME NEW t \in Threads, FetchTake(t) \/ ReturnToken(t) \/ InitPlace(t) \/ DestroyUnlink(t)
      PROVE  TB!Next \/ bucketBar' = bucketBar
  <2>1. me[t] \in Buckets
    BY <1>3 DEF Inv, TypeOK, PointerInv, FetchTake, ReturnToken, InitPlace, DestroyUnlink
  <2> QED BY <1>3, <2>1, TakeRefines, GiveRefines, PlaceRefines, UnlinkRefines
          DEF TB!Next, TB!BucketStep
<1>4. ASSUME NEW t \in Threads, InsideStep(t) \/ CallStep(t)
      PROVE  TB!Next \/ bucketBar' = bucketBar
  BY <1>3, <1>4, OtherStepsInvisible, InitCallInvisible, FreeInvisible
     DEF InsideStep, CallStep
<1> QED BY <1>1, <1>2, <1>4 DEF Next, AlarmStep, Exited

\* The library, with its locks, its condition variables and its refill thread,
\* behaves like the atomic token bucket of TokenBucket.
THEOREM ImplementsTokenBucket == Spec => IsTokenBucket
<1> QED BY InvHolds, InitRefines, NextRefines, PTL DEF Spec, IsTokenBucket, TB!Spec
=============================================================================
