---------------------------- MODULE SignalProofs ----------------------------
(***************************************************************************)
(* Proofs about the two models of programs that SIGALRM interrupts.        *)
(*                                                                         *)
(* AnyTimer, for any length of job[] and any delays.  That a job runs on   *)
(* time is not inductive: it rests on CountdownInv, the agreement of       *)
(* time_remain with the ticks that have passed; and that no job is freed   *)
(* too early rests on what at_canceljob and at_waitjob know of their job   *)
(* between two steps, WaitingInv.                                          *)
(*                                                                         *)
(* TbfSignal, for any rate, burst, buffer and file.  The bucket and the    *)
(* copy are independent: BucketInv says what is known of token at each     *)
(* place of the program where the handler may run, and CopyInv what the    *)
(* rest of buf[] still has to give to the output.                          *)
(***************************************************************************)
EXTENDS AnyTimer, TbfSignal, SequenceTheorems, WellFoundedInduction, TLAPS

-----------------------------------------------------------------------------
(***************************************************************************)
(* AnyTimer.                                                               *)
(***************************************************************************)

\* A running job has counted exactly the ticks since it was added or last ran;
\* one with a delay of 0 seconds has left 0 and will not be back.
CountdownInv ==
    \A i \in Slots : job_state[i] = "RUNNING" =>
      /\ sec[i] > 0 => time_remain[i] >= 1 /\ since[i] + time_remain[i] = sec[i]
      /\ sec[i] = 0 => time_remain[i] <= 0

\* Every run took place sec ticks after the job was added or the run before.
GapInv == \A i \in Slots : job_state[i] # "NULL" /\ runs[i] > 0 => gap[i] = sec[i]

\* What the state of a job says about its runs and cancellations.
StateInv ==
    \A i \in Slots :
      /\ job_state[i] = "RUNNING" => ~cancelled[i] /\ (~repeat[i] => runs[i] = 0)
      /\ job_state[i] = "CANCELED" => cancelled[i]
      /\ job_state[i] # "NULL" /\ ~repeat[i] => runs[i] <= 1
      /\ job_state[i] = "OVER" => ~repeat[i] /\ runs[i] = 1

\* The job the program asks about stays in the table until the program frees
\* it, and the one it waits for is not a repeating job.
WaitingInv ==
    /\ tpc \in {"cancel", "test", "pause", "paused", "reap"} => job_state[id] # "NULL"
    /\ tpc \in {"test", "pause", "paused", "reap"} => ~repeat[id]
    /\ tpc = "reap" => job_state[id] # "RUNNING"

TimerInv ==
    /\ TimerTypeOK
    /\ CountdownInv
    /\ GapInv
    /\ StateInv
    /\ WaitingInv

-----------------------------------------------------------------------------
\* get_free_pos returns -1 or the index of a free slot.
LEMMA FreePosFact ==
    get_free_pos = -1 \/ (get_free_pos \in Slots /\ job_state[get_free_pos] = "NULL")
<1>1. CASE FreeSlots = {}
  BY <1>1 DEF get_free_pos
<1>2. CASE FreeSlots # {}
  <2>1. FreeSlots \subseteq Nat
    BY TimerAssumption DEF FreeSlots, Slots
  <2>2. PICK i \in FreeSlots : \A k \in FreeSlots : ~(<<k, i>> \in OpToRel(<, Nat))
    BY <1>2, <2>1, NatLessThanWellFounded, WFMin, Zenon
  <2>3. \A k \in FreeSlots : i <= k
    <3> SUFFICES ASSUME NEW k \in FreeSlots PROVE ~(k < i)
      BY <2>1
    <3>1. k < i => <<k, i>> \in OpToRel(<, Nat)
      BY <2>1 DEF OpToRel
    <3> QED BY <2>2, <3>1
  <2>4. get_free_pos \in FreeSlots
    BY <1>2, <2>3 DEF get_free_pos
  <2> QED BY <2>4 DEF FreeSlots
<1> QED BY <1>1, <1>2

\* The invariant holds before the first job is added.
LEMMA TimerInitInv == TimerInit => TimerInv
<1> SUFFICES ASSUME TimerInit PROVE TimerInv
  OBVIOUS
<1>1. TimerTypeOK
  <2>1. 0 \in Slots /\ -1 \in -1 .. JOB_MAX
    BY TimerAssumption DEF Slots
  <2>2. /\ repeat \in [Slots -> BOOLEAN] /\ cancelled \in [Slots -> BOOLEAN]
        /\ initied \in BOOLEAN /\ woken \in BOOLEAN
    BY DEF TimerInit
  <2>3. /\ job_state \in [Slots -> {"NULL", "RUNNING", "CANCELED", "OVER"}]
        /\ sec \in [Slots -> Nat] /\ time_remain \in [Slots -> Nat \cup {-1}]
        /\ since \in [Slots -> Nat] /\ gap \in [Slots -> Nat]
        /\ runs \in [Slots -> 0 .. 2]
    BY DEF TimerInit
  <2> QED BY <2>1, <2>2, <2>3 DEF TimerInit, TimerTypeOK
<1>2. CountdownInv /\ GapInv /\ StateInv /\ WaitingInv
  BY DEF TimerInit, CountdownInv, GapInv, StateInv, WaitingInv
<1> QED BY <1>1, <1>2 DEF TimerInv

-----------------------------------------------------------------------------
\* The handler.

\* One round of alrm_action in which a job runs, with the jobs C cancelled by
\* its callback.
LEMMA FireStep ==
    ASSUME TimerInv, HandleFire
    PROVE  TimerInv'
<1> USE DEF TimerInv
<1>1. PICK C \in SUBSET {c \in Slots : CanCancel(c)} : Fire(hi, C)
  BY DEF HandleFire
<1>2. C \subseteq Slots /\ \A c \in C : job_state[c] = "RUNNING"
  BY DEF CanCancel
<1>3. /\ hi \in Slots /\ job_state[hi] = "RUNNING" /\ time_remain[hi] = 1
      /\ hi' = hi + 1
      /\ UNCHANGED <<sec, repeat, initied, tpc, id, woken>>
  BY DEF HandleFire, Decrement, program, TimerTypeOK
<1>4. sec[hi] > 0 /\ since[hi] + 1 = sec[hi]
  BY <1>3 DEF CountdownInv, TimerTypeOK
<1>5. /\ job_state' \in [Slots -> {"NULL", "RUNNING", "CANCELED", "OVER"}]
      /\ \A j \in Slots : job_state'[j] =
           IF j = hi /\ ~repeat[hi] THEN "OVER"
           ELSE IF j \in C THEN "CANCELED" ELSE job_state[j]
  BY <1>1, <1>2, <1>3 DEF Fire, TimerTypeOK
<1>6. /\ time_remain' = [time_remain EXCEPT ![hi] = IF repeat[hi] THEN sec[hi] ELSE 0]
      /\ gap' = [gap EXCEPT ![hi] = since[hi] + 1]
      /\ since' = [since EXCEPT ![hi] = 0]
      /\ runs' = [runs EXCEPT ![hi] = Saturate(@ + 1)]
      /\ cancelled' = [j \in Slots |-> cancelled[j] \/ j \in C]
  BY <1>1 DEF Fire
<1>7. TimerTypeOK'
  <2>1. hi' \in -1 .. JOB_MAX
    BY <1>3, TimerAssumption DEF Slots
  <2>2. runs' \in [Slots -> 0 .. 2]
    BY <1>3, <1>6 DEF Saturate, TimerTypeOK
  <2>3. cancelled' \in [Slots -> BOOLEAN]
    BY <1>6 DEF TimerTypeOK
  <2>4. time_remain' \in [Slots -> Nat \cup {-1}] /\ since' \in [Slots -> Nat] /\ gap' \in [Slots -> Nat]
    BY <1>3, <1>6 DEF TimerTypeOK
  <2> QED BY <1>3, <1>5, <2>1, <2>2, <2>3, <2>4 DEF TimerTypeOK
<1>8. CountdownInv'
  BY <1>2, <1>3, <1>4, <1>5, <1>6 DEF CountdownInv, TimerTypeOK
<1>9. GapInv'
  BY <1>2, <1>3, <1>4, <1>5, <1>6 DEF GapInv, TimerTypeOK, Saturate
<1>10. StateInv'
  <2> SUFFICES ASSUME NEW j \in Slots PROVE StateInv!(j)'
    BY DEF StateInv
  <2>1. CASE j = hi
    BY <2>1, <1>2, <1>3, <1>5, <1>6 DEF StateInv, TimerTypeOK, Saturate
  <2>2. CASE j # hi
    BY <2>2, <1>2, <1>3, <1>5, <1>6 DEF StateInv, TimerTypeOK
  <2> QED BY <2>1, <2>2
<1>11. WaitingInv'
  BY <1>2, <1>3, <1>5 DEF WaitingInv, TimerTypeOK
<1> QED BY <1>7, <1>8, <1>9, <1>10, <1>11

\* The other steps of the handler.
LEMMA HandlerSteps ==
    ASSUME TimerInv, Tick \/ ForeignAlarm \/ HandleSkip \/ HandleCount \/ HandlerReturn
    PROVE  TimerInv'
<1> USE DEF TimerInv
<1>1. CASE Tick
  BY <1>1, TimerAssumption
     DEF Tick, jobs, program, history, TimerTypeOK, Slots, CountdownInv, GapInv, StateInv, WaitingInv
<1>2. CASE ForeignAlarm
  BY <1>2 DEF ForeignAlarm, jobs, history, TimerTypeOK, CountdownInv, GapInv, StateInv, WaitingInv
<1>3. CASE HandleSkip
  <2>1. hi' \in -1 .. JOB_MAX
    BY <1>3, TimerAssumption DEF HandleSkip, Slots
  <2> QED BY <1>3, <2>1
      DEF HandleSkip, jobs, program, history, TimerTypeOK, CountdownInv, GapInv, StateInv, WaitingInv
<1>4. CASE HandlerReturn
  BY <1>4, TimerAssumption
     DEF HandlerReturn, jobs, history, TimerTypeOK, CountdownInv, GapInv, StateInv, WaitingInv
<1>5. CASE HandleCount
  <2> USE <1>5 DEF HandleCount, program
  <2>1. time_remain[hi] \in Nat \cup {-1} /\ sec[hi] \in Nat /\ since[hi] \in Nat
    BY DEF TimerTypeOK
  <2>2. Decrement(time_remain[hi]) \in Nat \cup {-1}
    BY <2>1 DEF Decrement
  <2>3. TimerTypeOK'
    BY <2>1, <2>2, TimerAssumption DEF TimerTypeOK, Slots
  <2>4. CountdownInv'
    BY <2>1 DEF CountdownInv, TimerTypeOK, Decrement
  <2>5. GapInv' /\ StateInv' /\ WaitingInv'
    BY DEF GapInv, StateInv, WaitingInv
  <2> QED BY <2>3, <2>4, <2>5
<1> QED BY <1>1, <1>2, <1>3, <1>4, <1>5

-----------------------------------------------------------------------------
\* The program.

\* at_addjob and at_addjob_repeat, with a free slot and without.
LEMMA AddStep ==
    ASSUME TimerInv, NEW s \in Secs, NEW rep \in BOOLEAN, Add(s, rep)
    PROVE  TimerInv'
<1> USE DEF TimerInv
<1> DEFINE p == get_free_pos
<1>1. s \in Nat /\ tpc = "run" /\ initied' = TRUE /\ UNCHANGED <<hi, tpc, id, woken>>
  BY TimerAssumption DEF Add, program
<1>2. CASE p < 0
  <2>1. UNCHANGED <<job_state, sec, time_remain, repeat, since, gap, runs, cancelled>>
    BY <1>2 DEF Add, jobs, history
  <2> QED BY <1>1, <2>1 DEF TimerTypeOK, CountdownInv, GapInv, StateInv, WaitingInv
<1>3. CASE ~(p < 0)
  <2> HIDE DEF p
  <2>1. p \in Slots /\ job_state[p] = "NULL"
    BY <1>3, FreePosFact DEF p
  <2>2. /\ job_state' = [job_state EXCEPT ![p] = "RUNNING"]
        /\ sec' = [sec EXCEPT ![p] = s]
        /\ time_remain' = [time_remain EXCEPT ![p] = s]
        /\ repeat' = [repeat EXCEPT ![p] = rep]
        /\ since' = [since EXCEPT ![p] = 0]
        /\ gap' = [gap EXCEPT ![p] = 0]
        /\ runs' = [runs EXCEPT ![p] = 0]
        /\ cancelled' = [cancelled EXCEPT ![p] = FALSE]
    BY <1>3 DEF Add, p
  <2>3. TimerTypeOK'
    BY <1>1, <2>1, <2>2 DEF TimerTypeOK
  <2>4. CountdownInv'
    BY <1>1, <2>1, <2>2 DEF TimerTypeOK, CountdownInv
  <2>5. GapInv'
    BY <2>1, <2>2 DEF TimerTypeOK, GapInv
  <2>6. StateInv'
    <3> SUFFICES ASSUME NEW j \in Slots PROVE StateInv!(j)'
      BY DEF StateInv
    <3>1. CASE j = p
      BY <3>1, <2>1, <2>2 DEF TimerTypeOK, StateInv
    <3>2. CASE j # p
      BY <3>2, <2>1, <2>2 DEF TimerTypeOK, StateInv
    <3> QED BY <3>1, <3>2
  <2>7. WaitingInv'
    BY <1>1 DEF WaitingInv
  <2> QED BY <2>3, <2>4, <2>5, <2>6, <2>7
<1> QED BY <1>2, <1>3

\* at_canceljob, whose assignment may come after the job has run.
LEMMA CancelSteps ==
    ASSUME TimerInv, CancelSet \/ \E i \in Slots : CancelTest(i)
    PROVE  TimerInv'
<1> USE DEF TimerInv
<1>1. CASE CancelSet
  <2> USE <1>1 DEF CancelSet
  <2>1. id \in Slots /\ job_state[id] # "NULL"
    BY DEF TimerTypeOK, WaitingInv
  <2>2. TimerTypeOK'
    BY <2>1 DEF TimerTypeOK
  <2>3. CountdownInv' /\ GapInv'
    BY <2>1 DEF CountdownInv, GapInv, TimerTypeOK
  <2>4. StateInv'
    BY <2>1 DEF StateInv, TimerTypeOK
  <2>5. WaitingInv'
    BY DEF WaitingInv
  <2> QED BY <2>2, <2>3, <2>4, <2>5
<1>2. ASSUME NEW i \in Slots, CancelTest(i) PROVE TimerInv'
  BY <1>2 DEF CancelTest, jobs, history, TimerTypeOK, CountdownInv, GapInv, StateInv, WaitingInv
<1> QED BY <1>1, <1>2

\* at_waitjob and exit().
LEMMA WaitSteps ==
    ASSUME TimerInv,
           \/ WaitTest \/ PauseEnter \/ PauseReturn \/ WaitReap \/ Exit
           \/ \E i \in Slots : WaitCall(i)
    PROVE  TimerInv'
<1> USE DEF TimerInv
<1>1. CASE WaitReap
  <2> USE <1>1 DEF WaitReap, history
  <2>1. id \in Slots
    BY DEF TimerTypeOK
  <2>2. TimerTypeOK'
    BY <2>1 DEF TimerTypeOK
  <2>3. CountdownInv' /\ GapInv' /\ StateInv' /\ WaitingInv'
    BY <2>1 DEF CountdownInv, GapInv, StateInv, WaitingInv, TimerTypeOK
  <2> QED BY <2>2, <2>3
<1>2. CASE WaitTest \/ PauseEnter \/ PauseReturn \/ Exit
  BY <1>2 DEF WaitTest, PauseEnter, PauseReturn, Exit, jobs, history, TimerTypeOK,
              CountdownInv, GapInv, StateInv, WaitingInv
<1>3. ASSUME NEW i \in Slots, WaitCall(i) PROVE TimerInv'
  BY <1>3 DEF WaitCall, jobs, history, TimerTypeOK, CountdownInv, GapInv, StateInv, WaitingInv
<1> QED BY <1>1, <1>2, <1>3

\* Every step preserves the invariant.
LEMMA NextInv == TimerInv /\ [TimerNext]_timerVars => TimerInv'
<1> SUFFICES ASSUME TimerInv, [TimerNext]_timerVars PROVE TimerInv'
  OBVIOUS
<1>1. CASE Tick \/ ForeignAlarm \/ Handler
  BY <1>1, FireStep, HandlerSteps DEF Handler
<1>2. CASE InsideStep
  BY <1>2, CancelSteps, WaitSteps DEF InsideStep
<1>3. ASSUME NEW s \in Secs, at_addjob(s) \/ at_addjob_repeat(s) PROVE TimerInv'
  BY <1>3, AddStep DEF at_addjob, at_addjob_repeat
<1>4. ASSUME NEW i \in Slots, CancelTest(i) \/ WaitCall(i) PROVE TimerInv'
  BY <1>4, CancelSteps, WaitSteps
<1>5. CASE Exit
  BY <1>5, WaitSteps
<1>6. CASE Exited \/ UNCHANGED timerVars
  BY <1>6 DEF Exited, timerVars, jobs, program, history, TimerInv, TimerTypeOK, CountdownInv, GapInv, StateInv,
              WaitingInv
<1> QED BY <1>1, <1>2, <1>3, <1>4, <1>5, <1>6 DEF TimerNext

LEMMA TimerInvariance == TimerSpec => []TimerInv
<1> QED BY TimerInitInv, NextInv, PTL DEF TimerSpec

-----------------------------------------------------------------------------
\* The variables keep their types: no index leaves job[], no countdown falls
\* below -1.
THEOREM TypeCorrect == TimerSpec => []TimerTypeOK
<1>1. TimerInv => TimerTypeOK
  BY DEF TimerInv
<1> QED BY <1>1, TimerInvariance, PTL

\* Every run of a job comes exactly sec ticks after it was added or last ran,
\* and no running job is overdue.
THEOREM OnTime == TimerSpec => []FiresOnTime
<1>1. TimerInv => FiresOnTime
  BY DEF TimerInv, TimerTypeOK, CountdownInv, GapInv, FiresOnTime
<1> QED BY <1>1, TimerInvariance, PTL

\* A one-shot job runs at most once, a cancelled job never again, and
\* at_waitjob frees only a job that has run or was cancelled.
THEOREM AsAsked == TimerSpec => []RunsAsAsked
<1>1. ASSUME TimerInv PROVE OneShotOnce
  BY <1>1 DEF TimerInv, TimerTypeOK, StateInv, OneShotOnce
<1>2. ASSUME TimerInv PROVE CancelIsFinal
  BY <1>2 DEF TimerInv, TimerTypeOK, StateInv, CancelIsFinal
<1>3. ASSUME TimerInv PROVE ReapsFinished
  BY <1>3 DEF TimerInv, TimerTypeOK, StateInv, WaitingInv, ReapsFinished
<1>4. TimerInv => RunsAsAsked
  BY <1>1, <1>2, <1>3 DEF RunsAsAsked
<1> QED BY <1>4, TimerInvariance, PTL

-----------------------------------------------------------------------------
(***************************************************************************)
(* TbfSignal.                                                              *)
(***************************************************************************)

\* The types of the variables.
TypeOK ==
    /\ prog \in {"tbf", "tbf_sa", "slowcat", "slowcat2", "mycat"}
    /\ pc \in {"start", "init", "wait", "pause", "paused", "fetch_min", "fetch_load",
               "fetch_store", "return_load", "return_store", "return_cap", "read", "write",
               "written", "close", "exit", "unloaded", "exited", "killed"}
    /\ token \in Nat /\ ideal \in Nat
    /\ reg \in Nat /\ pos \in Nat
    /\ size \in 0 .. BUFSIZE /\ len \in 0 .. BUFSIZE
    /\ offset \in 0 .. FileLength
    /\ buf \in [0 .. BUFSIZE - 1 -> Int]
    /\ out \in Seq(Int)

\* mycat.c has no bucket; tokens are given back by the token bucket programs
\* only, after a short read.
ProgramInv ==
    /\ prog = "mycat" => pc \in {"read", "write", "written", "close", "exit", "exited"}
    /\ pc \in {"return_load", "return_store", "return_cap"} => prog \in Buckets /\ len <= size

\* What the bucket holds, or the register while the program is between a load
\* and its store, is covered by the clock, and covers what is about to be taken.
BucketInv ==
    /\ ideal <= limit
    /\ pc # "return_cap" => token <= ideal /\ (~lost => token = ideal)
    /\ pc = "return_cap" => Least(token, BURST) <= ideal /\ (~lost => Least(token, BURST) = ideal)
    /\ Holding => reg <= ideal /\ (~lost => reg = ideal)
    /\ pc = "fetch_min" => token >= 1
    /\ pc = "fetch_load" => token >= Price
    /\ pc = "fetch_store" => reg >= Price

\* What has been read is written or is in buf[] from pos on.  In mycat.c pos
\* counts all bytes written, so the first buffer is the only one it gets right.
CopyInv ==
    /\ Len(out) + len = offset
    /\ pc \in {"start", "init", "wait", "pause", "paused", "fetch_min", "fetch_load",
               "fetch_store", "read", "written"} => len = 0
    /\ prog # "mycat" /\ len > 0 => pos + len <= BUFSIZE
    /\ \A k \in 0 .. len - 1 : pos + k < BUFSIZE => buf[pos + k] = Len(out) + k
    /\ prog = "mycat" => /\ pos = Len(out) /\ size = BUFSIZE
                         /\ offset = 0 \/ offset = FileLength \/ offset >= BUFSIZE

Inv == TypeOK /\ ProgramInv /\ BucketInv /\ CopyInv /\ CopyIsExact

-----------------------------------------------------------------------------
\* Everything holds when the program starts.
LEMMA InitInv == Init => Inv
<1> SUFFICES ASSUME Init PROVE Inv
  OBVIOUS
<1> USE SlowAssumption DEF Init
<1>1. BUFSIZE \in Nat /\ BUFSIZE > 0 /\ BURST \in Nat /\ BURST > 0
  BY DEF SlowAssumption
<1>2. out \in Seq(Int) /\ Len(out) = 0 /\ DOMAIN out = {}
  BY EmptySeq
<1>3. TypeOK
  <2>1. buf \in [0 .. BUFSIZE - 1 -> Int]
    BY DEF Garbage
  <2> QED BY <1>1, <1>2, <2>1 DEF TypeOK
<1>4. ProgramInv
  BY DEF ProgramInv
<1>5. BucketInv
  BY <1>1 DEF BucketInv, Holding, limit
<1>6. CopyInv
  BY <1>1, <1>2 DEF CopyInv
<1>7. CopyIsExact
  BY <1>2 DEF CopyIsExact
<1> QED BY <1>3, <1>4, <1>5, <1>6, <1>7 DEF Inv

\* The limits as the provers use them.
LEMMA Limits ==
    /\ BUFSIZE \in Nat \ {0} /\ BURST \in Nat \ {0} /\ CPS \in Nat \ {0} /\ FileLength \in Nat
    /\ limit \in Nat \ {0} /\ pace \in Nat \ {0}
    /\ prog \in Buckets => limit = BURST
    /\ \A a, b \in Int : Least(a, b) \in {a, b} /\ Least(a, b) <= a /\ Least(a, b) <= b
  BY SlowAssumption DEF limit, pace, Least, Buckets

\* A step that leaves the file and the buffer alone cannot spoil the copy.
LEMMA CopyKept ==
    ASSUME TypeOK, CopyInv, CopyIsExact, UNCHANGED <<prog, len, pos, offset, buf, out>>,
           prog = "mycat" => size' = size,
           len > 0 => pc' = pc \/ pc' \notin {"start", "init", "wait", "pause", "paused", "fetch_min",
                                   "fetch_load", "fetch_store", "read", "written"}
    PROVE  CopyInv' /\ CopyIsExact'
<1>1. CopyInv'
  <2>1. pc' \in {"start", "init", "wait", "pause", "paused", "fetch_min", "fetch_load",
                 "fetch_store", "read", "written"} => len' = 0
    BY DEF CopyInv, TypeOK
  <2> QED BY <2>1 DEF CopyInv, TypeOK
<1>2. CopyIsExact'
  BY DEF CopyIsExact
<1> QED BY <1>1, <1>2

-----------------------------------------------------------------------------
\* SIGALRM.

\* The handler adds to token and to what the clock has paid for alike; if it
\* came between a load and a store, token will fall behind.
LEMMA HandlerStep ==
    ASSUME Inv, alrm_handler
    PROVE  Inv'
<1> USE Limits DEF alrm_handler, Awake, Asleep, file, locals
<1>0. TypeOK /\ ProgramInv /\ BucketInv /\ CopyInv /\ CopyIsExact
  BY DEF Inv
<1>1. /\ pc' \in {pc, "wait"} /\ (pc' = pc \/ pc = "paused") /\ prog' = prog
      /\ limit' = limit /\ Price' = Price /\ UNCHANGED <<reg, size, len>>
  BY DEF limit, Price
<1>2. token' = Least(token + pace, limit) /\ ideal' = Least(ideal + pace, limit)
      /\ lost' = (lost \/ Holding)
  OBVIOUS
<1>3. TypeOK'
  BY <1>0, <1>1, <1>2 DEF TypeOK
<1>4. ProgramInv'
  BY <1>0, <1>1 DEF ProgramInv
<1>5. BucketInv'
  <2>1. ideal' >= ideal /\ ideal' <= limit
    BY <1>0, <1>2 DEF Least, TypeOK, BucketInv
  <2>2. CASE pc = "return_cap"
    <3>1. limit = BURST /\ pc' = "return_cap" /\ ~Holding' /\ (lost' <=> lost)
      BY <2>2, <1>0, <1>1, <1>2 DEF ProgramInv, Holding
    <3>2. Least(token', BURST) <= ideal' /\ (~lost => Least(token', BURST) = ideal')
      BY <2>2, <3>1, <1>0, <1>2 DEF Least, TypeOK, BucketInv
    <3> QED BY <2>1, <3>1, <3>2, <1>1 DEF BucketInv
  <2>3. CASE pc # "return_cap"
    <3>1. token' <= ideal' /\ (~lost => token' = ideal') /\ token' >= token
      BY <2>3, <1>0, <1>2 DEF Least, TypeOK, BucketInv
    <3>2. Holding' => Holding /\ lost'
      BY <1>1, <1>2 DEF Holding
    <3>3. Holding => reg <= ideal'
      BY <2>1, <1>0, <1>3 DEF BucketInv, TypeOK
    <3>4. lost \/ Holding \/ (~lost' /\ ~Holding')
      BY <1>1, <1>2 DEF Holding
    <3>5. Price \in Nat /\ token \in Nat /\ token' \in Nat
      BY <1>0, <1>3 DEF Price, TypeOK
    <3>6. /\ pc' = "fetch_min" => token' >= 1
          /\ pc' = "fetch_load" => token' >= Price
          /\ pc' = "fetch_store" => reg' >= Price
      BY <1>0, <1>1, <3>1, <3>5 DEF BucketInv
    <3> QED BY <2>1, <2>3, <3>1, <3>2, <3>3, <3>4, <3>6, <1>1, <1>2 DEF BucketInv
  <2> QED BY <2>2, <2>3
<1>6. CopyInv' /\ CopyIsExact'
  <2>1. len > 0 => pc # "paused"
    BY <1>0 DEF CopyInv, TypeOK
  <2> QED BY <1>0, <1>1, <2>1, CopyKept
<1> QED BY <1>3, <1>4, <1>5, <1>6 DEF Inv

\* The two signals that add nothing.
LEMMA OtherSignals ==
    ASSUME Inv, alrm_action_foreign \/ alrm_no_job
    PROVE  Inv'
<1> USE DEF alrm_action_foreign, alrm_no_job, Awake, Asleep, file, locals, clock
<1>0. TypeOK /\ ProgramInv /\ BucketInv /\ CopyInv /\ CopyIsExact
  BY DEF Inv
<1>1. /\ UNCHANGED <<prog, token, ideal, lost, reg, size, len, pos, offset, buf, out>>
      /\ pc' = pc \/ (pc = "paused" /\ pc' = "wait") \/ (pc = "unloaded" /\ pc' = "killed")
  OBVIOUS
<1>2. TypeOK'
  BY <1>0, <1>1 DEF TypeOK
<1>3. ProgramInv'
  BY <1>0, <1>1 DEF ProgramInv
<1>4. BucketInv'
  BY <1>0, <1>1 DEF BucketInv, limit, Price, Holding
<1>5. CopyInv' /\ CopyIsExact'
  <2>1. len > 0 => pc # "paused"
    BY <1>0 DEF CopyInv, TypeOK
  <2> QED BY <1>0, <1>1, <2>1, CopyKept
<1> QED BY <1>2, <1>3, <1>4, <1>5 DEF Inv

-----------------------------------------------------------------------------
\* The program.

\* A step that changes neither the bucket nor the copy, to a place of which
\* nothing is claimed, or to fetch_min with a token there.
LEMMA QuietStep ==
    ASSUME Inv, UNCHANGED <<prog, token, ideal, lost, reg, size, len, pos, offset, buf, out>>,
           TypeOK', ProgramInv', pc # "return_cap",
           pc' \notin {"fetch_load", "fetch_store", "return_store", "return_cap"},
           pc' = "fetch_min" => token >= 1,
           len > 0 => pc' \notin {"start", "init", "wait", "pause", "paused", "fetch_min",
                                   "fetch_load", "fetch_store", "read", "written"}
    PROVE  Inv'
<1>0. TypeOK /\ BucketInv /\ CopyInv /\ CopyIsExact
  BY DEF Inv
<1>1. BucketInv'
  BY <1>0 DEF BucketInv, limit, Holding
<1>2. CopyInv' /\ CopyIsExact'
  BY <1>0, CopyKept
<1> QED BY <1>1, <1>2 DEF Inv

\* The steps that move only the program counter and the timer.
LEMMA ControlStep ==
    ASSUME Inv,
           module_load \/ mytbf_init \/ Wait \/ pause \/ written \/ destroy \/ module_unload
             \/ read_fails \/ write_fails
    PROVE  Inv'
<1> USE DEF Goto, clock, file, locals
<1>0. TypeOK /\ ProgramInv /\ CopyInv
  BY DEF Inv
<1>1. /\ UNCHANGED <<prog, token, ideal, lost, reg, size, len, pos, offset, buf, out>>
      /\ \/ pc = "start" /\ pc' \in {"init", "wait"}
         \/ pc = "init" /\ pc' = "wait"
         \/ pc = "wait" /\ pc' = (IF token <= 0 THEN "pause" ELSE "fetch_min")
         \/ pc = "pause" /\ pc' = "paused"
         \/ pc = "written" /\ pc' = (IF prog = "mycat" THEN "read" ELSE "wait")
         \/ pc = "close" /\ pc' = "exit"
         \/ pc = "exit" /\ pc' = (IF prog \in Buckets THEN "unloaded" ELSE "exited")
         \/ pc = "unloaded" /\ pc' = "exited"
         \/ pc = "read" /\ pc' = "close"
         \/ pc = "write" /\ pc' = "exit"
  BY DEF module_load, mytbf_init, Wait, pause, written, destroy, module_unload, read_fails, write_fails
<1>2. TypeOK'
  BY <1>0, <1>1 DEF TypeOK
<1>3. ProgramInv'
  BY <1>0, <1>1 DEF ProgramInv, Buckets
<1>4. pc' = "fetch_min" => token >= 1
  BY <1>0, <1>1 DEF TypeOK
<1>5. len > 0 => pc' \notin {"start", "init", "wait", "pause", "paused", "fetch_min",
                              "fetch_load", "fetch_store", "read", "written"}
  BY <1>0, <1>1 DEF CopyInv, TypeOK
<1>6. pc # "return_cap" /\ pc' \notin {"fetch_load", "fetch_store", "return_store", "return_cap"}
  BY <1>1
<1> QED BY <1>1, <1>2, <1>3, <1>4, <1>5, <1>6, QuietStep

LEMMA FetchMinStep ==
    ASSUME Inv, fetch_min
    PROVE  Inv'
<1> USE Limits DEF fetch_min, Goto, clock, file
<1>0. TypeOK /\ ProgramInv /\ BucketInv /\ CopyInv /\ CopyIsExact
  BY DEF Inv
<1>1. size' \in 0 .. BUFSIZE /\ (prog \in Buckets => size' <= token)
  BY <1>0 DEF TypeOK
<1>2. TypeOK'
  BY <1>0, <1>1 DEF TypeOK
<1>3. ProgramInv'
  BY <1>0 DEF ProgramInv
<1>4. BucketInv'
  <2>1. token >= Price'
    BY <1>0, <1>1 DEF BucketInv, Price
  <2> QED BY <1>0, <2>1 DEF BucketInv, limit, Holding
<1>5. CopyInv' /\ CopyIsExact'
  BY <1>0, CopyKept DEF ProgramInv, CopyInv, TypeOK
<1> QED BY <1>2, <1>3, <1>4, <1>5 DEF Inv

LEMMA LoadStep ==
    ASSUME Inv, fetch_load \/ return_load
    PROVE  Inv'
<1> USE DEF fetch_load, return_load, Goto, clock, file
<1>0. TypeOK /\ ProgramInv /\ BucketInv /\ CopyInv /\ CopyIsExact
  BY DEF Inv
<1>1. /\ reg' = token /\ UNCHANGED <<prog, token, ideal, lost, size, len, pos, offset, buf, out>>
      /\ \/ pc = "fetch_load" /\ pc' = "fetch_store"
         \/ pc = "return_load" /\ pc' = "return_store"
  OBVIOUS
<1>2. TypeOK'
  BY <1>0, <1>1 DEF TypeOK
<1>3. ProgramInv'
  BY <1>0, <1>1 DEF ProgramInv
<1>4. BucketInv'
  BY <1>0, <1>1 DEF BucketInv, limit, Price, Holding
<1>5. CopyInv' /\ CopyIsExact'
  BY <1>0, <1>1, CopyKept DEF ProgramInv, CopyInv, TypeOK
<1> QED BY <1>2, <1>3, <1>4, <1>5 DEF Inv

\* The store takes from the loaded value, so what the handler added is lost.
LEMMA FetchStoreStep ==
    ASSUME Inv, fetch_store
    PROVE  Inv'
<1> USE Limits DEF fetch_store, Goto, file, locals
<1>0. TypeOK /\ ProgramInv /\ BucketInv /\ CopyInv /\ CopyIsExact
  BY DEF Inv
<1>1. Price \in Nat /\ reg >= Price /\ reg <= ideal /\ (~lost => reg = ideal)
  BY <1>0 DEF BucketInv, Holding, Price, TypeOK
<1>2. token' \in Nat /\ ideal' \in Nat /\ token' <= ideal' /\ ideal' <= ideal
      /\ (~lost => token' = ideal')
  BY <1>0, <1>1 DEF TypeOK
<1>3. TypeOK'
  BY <1>0, <1>2 DEF TypeOK
<1>4. ProgramInv'
  BY <1>0 DEF ProgramInv
<1>5. BucketInv'
  <2>1. limit' = limit /\ lost' = lost /\ pc' = "read"
    BY DEF limit
  <2>2. ideal' <= limit
    BY <1>0, <1>2 DEF BucketInv, TypeOK
  <2> QED BY <1>2, <2>1, <2>2 DEF BucketInv, Holding
<1>6. CopyInv' /\ CopyIsExact'
  BY <1>0, CopyKept DEF CopyInv, TypeOK
<1> QED BY <1>3, <1>4, <1>5, <1>6 DEF Inv

LEMMA ReturnStoreStep ==
    ASSUME Inv, return_store
    PROVE  Inv'
<1> USE Limits DEF return_store, Goto, file, locals
<1>0. TypeOK /\ ProgramInv /\ BucketInv /\ CopyInv /\ CopyIsExact
  BY DEF Inv
<1>1. /\ prog \in Buckets /\ len <= size /\ size - len \in Nat
      /\ reg <= ideal /\ (~lost => reg = ideal)
  BY <1>0 DEF BucketInv, Holding, ProgramInv, TypeOK
<1>2. token' \in Nat /\ ideal' \in Nat
  BY <1>0, <1>1 DEF TypeOK
<1>3. ideal' <= BURST /\ Least(token', BURST) <= ideal' /\ (~lost => Least(token', BURST) = ideal')
  BY <1>0, <1>1 DEF TypeOK, Least
<1>4. TypeOK'
  BY <1>0, <1>2 DEF TypeOK
<1>5. ProgramInv'
  BY <1>0, <1>1 DEF ProgramInv
<1>6. BucketInv'
  <2>1. limit' = BURST /\ lost' = lost /\ pc' = "return_cap"
    BY <1>1 DEF limit, Buckets
  <2> QED BY <1>3, <2>1 DEF BucketInv, Holding
<1>7. CopyInv' /\ CopyIsExact'
  BY <1>0, CopyKept DEF CopyInv, TypeOK, Buckets, ProgramInv
<1> QED BY <1>4, <1>5, <1>6, <1>7 DEF Inv

LEMMA ReturnCapStep ==
    ASSUME Inv, return_cap
    PROVE  Inv'
<1> USE Limits DEF return_cap, Goto, file, locals
<1>0. TypeOK /\ ProgramInv /\ BucketInv /\ CopyInv /\ CopyIsExact
  BY DEF Inv
<1>1. TypeOK'
  BY <1>0 DEF TypeOK
<1>2. ProgramInv'
  BY <1>0 DEF ProgramInv, Buckets
<1>3. BucketInv'
  BY <1>0 DEF BucketInv, Holding, limit
<1>4. CopyInv' /\ CopyIsExact'
  BY <1>0, CopyKept DEF CopyInv, TypeOK
<1> QED BY <1>1, <1>2, <1>3, <1>4 DEF Inv

-----------------------------------------------------------------------------
\* The copy.

\* A read fills the beginning of buf[]; all that was read before is written.
LEMMA ReadStep ==
    ASSUME Inv, read
    PROVE  Inv'
<1> USE Limits DEF Goto, clock
<1>0. TypeOK /\ ProgramInv /\ BucketInv /\ CopyInv /\ CopyIsExact
  BY DEF Inv
<1> DEFINE l == Least(size, Rest)
<1>1. /\ pc = "read" /\ UNCHANGED <<prog, token, ideal, lost, out, reg, size>>
      /\ len' = l /\ offset' = offset + l
      /\ buf' = [i \in 0 .. BUFSIZE - 1 |-> IF i < l THEN offset + i ELSE buf[i]]
      /\ pos' = IF prog = "mycat" THEN pos ELSE 0
      /\ pc' \in {"close", "return_load", "write"}
      /\ pc' = "return_load" => prog \in Buckets
  BY DEF read
<1>2. l \in 0 .. BUFSIZE /\ offset + l \in 0 .. FileLength /\ l <= size
      /\ (l = size \/ offset + l = FileLength)
  BY <1>0 DEF TypeOK, Least, Rest
<1> HIDE DEF l
<1>3. len = 0 /\ Len(out) = offset /\ Len(out) \in Nat /\ offset \in Nat
  BY <1>0, <1>1 DEF CopyInv, TypeOK
<1>4. TypeOK'
  <2>1. buf' \in [0 .. BUFSIZE - 1 -> Int]
    BY <1>0, <1>1, <1>3 DEF TypeOK
  <2>2. pos' \in Nat
    BY <1>0, <1>1 DEF TypeOK
  <2> QED BY <1>0, <1>1, <1>2, <2>1, <2>2 DEF TypeOK
<1>5. ProgramInv'
  BY <1>0, <1>1, <1>2 DEF ProgramInv, Buckets
<1>6. BucketInv'
  BY <1>0, <1>1 DEF BucketInv, Holding, limit
<1>7. CopyInv'
  <2>1. Len(out') + len' = offset'
    BY <1>1, <1>2, <1>3
  <2>2. prog # "mycat" => pos' + len' <= BUFSIZE
    BY <1>1, <1>2
  <2>3. prog = "mycat" => /\ pos' = Len(out') /\ size' = BUFSIZE
                          /\ offset' = 0 \/ offset' = FileLength \/ offset' >= BUFSIZE
    BY <1>0, <1>1, <1>2, <1>3 DEF CopyInv
  <2>4. ASSUME NEW k \in 0 .. len' - 1, pos' + k < BUFSIZE
        PROVE  buf'[pos' + k] = Len(out') + k
    <3>1. CASE pos' = 0
      <4>1. offset = 0 \/ prog # "mycat"
        BY <1>0, <1>1, <1>3, <3>1 DEF CopyInv
      <4>2. k \in 0 .. BUFSIZE - 1 /\ k < l
        BY <1>1, <1>2, <2>4
      <4> QED BY <1>1, <1>3, <3>1, <4>2
    <3>2. CASE pos' # 0
      <4>1. prog = "mycat" /\ pos = offset /\ offset > 0 /\ l > 0
        BY <1>0, <1>1, <1>2, <1>3, <2>4, <3>2 DEF CopyInv
      <4>2. offset >= BUFSIZE
        BY <1>0, <1>2, <1>3, <4>1 DEF CopyInv
      <4> QED BY <1>1, <1>3, <2>4, <4>1, <4>2
    <3> QED BY <3>1, <3>2
  <2>5. pc' \notin {"start", "init", "wait", "pause", "paused", "fetch_min", "fetch_load",
                    "fetch_store", "read", "written"}
    BY <1>1
  <2> QED BY <1>1, <2>1, <2>2, <2>3, <2>4, <2>5 DEF CopyInv
<1>8. CopyIsExact'
  BY <1>0, <1>1 DEF CopyIsExact
<1> QED BY <1>4, <1>5, <1>6, <1>7, <1>8 DEF Inv

\* A write, short or not, moves the front of buf[] to the output.
LEMMA WriteStep ==
    ASSUME Inv, write
    PROVE  Inv'
<1> USE Limits DEF Goto, clock
<1>0. TypeOK /\ ProgramInv /\ BucketInv /\ CopyInv /\ CopyIsExact
  BY DEF Inv
<1>1. PICK ret \in 1 .. len :
         /\ Goto("write", IF ret = len THEN "written" ELSE "write")
         /\ out' = out \o Bytes(ret)
         /\ len' = len - ret
         /\ pos' = pos + ret
  BY DEF write
<1>2. UNCHANGED <<prog, token, ideal, lost, offset, buf, reg, size>> /\ len > 0
  BY DEF write
<1>3. /\ ret \in Nat /\ ret > 0 /\ len \in Nat /\ pos \in Nat /\ ret <= len /\ Len(out) \in Nat
      /\ out \in Seq(Int) /\ BUFSIZE \in Nat
  BY <1>0 DEF TypeOK
<1>4. Bytes(ret) \in Seq(Int) /\ Len(Bytes(ret)) = ret
  <2>1. \A k \in 1 .. ret : At(pos + k - 1) \in Int
    BY <1>0, <1>3 DEF At, Garbage, TypeOK
  <2>2. Bytes(ret) \in [1 .. ret -> Int]
    BY <2>1 DEF Bytes
  <2> HIDE DEF Bytes
  <2> QED BY <1>3, <2>2
<1>5. /\ out' \in Seq(Int) /\ Len(out') = Len(out) + ret
      /\ \A k \in 1 .. Len(out) : out'[k] = out[k]
      /\ \A k \in 1 .. ret : out'[Len(out) + k] = At(pos + k - 1)
  <2>0. ASSUME NEW t \in Seq(Int)
        PROVE  /\ out \o t \in Seq(Int) /\ Len(out \o t) = Len(out) + Len(t)
               /\ \A j \in 1 .. Len(out) + Len(t) :
                    (out \o t)[j] = IF j <= Len(out) THEN out[j] ELSE t[j - Len(out)]
    BY <1>3, ConcatProperties
  <2>1. /\ out' \in Seq(Int) /\ Len(out') = Len(out) + ret
        /\ \A j \in 1 .. Len(out) + ret :
              out'[j] = IF j <= Len(out) THEN out[j] ELSE Bytes(ret)[j - Len(out)]
    BY <1>1, <1>4, <2>0
  <2>2. ASSUME NEW k \in 1 .. ret PROVE out'[Len(out) + k] = Bytes(ret)[k]
    <3>1. Len(out) + k \in 1 .. Len(out) + ret /\ ~(Len(out) + k <= Len(out)) /\ Len(out) + k - Len(out) = k
      BY <1>3
    <3> QED BY <2>1, <3>1
  <2>3. \A k \in 1 .. ret : Bytes(ret)[k] = At(pos + k - 1)
    BY DEF Bytes
  <2>4. \A k \in 1 .. Len(out) : k \in 1 .. Len(out) + ret /\ k <= Len(out)
    BY <1>3
  <2> QED BY <2>1, <2>2, <2>3, <2>4
<1>6. \A k \in 0 .. len - 1 : (prog = "mycat" => pos + k < BUFSIZE) => At(pos + k) = Len(out) + k
  BY <1>0, <1>2, <1>3 DEF At, CopyInv
<1>7. TypeOK'
  <2>1. len' \in 0 .. BUFSIZE /\ pos' \in Nat
    BY <1>0, <1>1, <1>3 DEF TypeOK
  <2> QED BY <1>0, <1>1, <1>2, <1>5, <2>1 DEF TypeOK
<1>8. ProgramInv'
  BY <1>0, <1>1, <1>2 DEF ProgramInv
<1>9. BucketInv'
  BY <1>0, <1>1, <1>2 DEF BucketInv, Holding, limit
<1>10. CopyInv'
  <2>1. Len(out') + len' = offset'
    BY <1>0, <1>1, <1>2, <1>3, <1>5 DEF CopyInv
  <2>2. pc' \in {"written", "write"} /\ (pc' = "written" => len' = 0)
    BY <1>1, <1>3
  <2>3. prog' # "mycat" => pos' + len' <= BUFSIZE
    BY <1>0, <1>1, <1>2, <1>3 DEF CopyInv
  <2>4. prog' = "mycat" => /\ pos' = Len(out') /\ size' = BUFSIZE
                           /\ offset' = 0 \/ offset' = FileLength \/ offset' >= BUFSIZE
    BY <1>0, <1>1, <1>2, <1>3, <1>5 DEF CopyInv
  <2>5. ASSUME NEW k \in 0 .. len' - 1, pos' + k < BUFSIZE
        PROVE  buf'[pos' + k] = Len(out') + k
    <3>1. ret + k \in 0 .. len - 1 /\ pos' + k = pos + (ret + k) /\ Len(out') + k = Len(out) + (ret + k)
      BY <1>1, <1>3, <1>5
    <3>2. buf[pos + (ret + k)] = Len(out) + (ret + k)
      BY <1>0, <2>5, <3>1 DEF CopyInv
    <3> QED BY <1>2, <3>1, <3>2
  <2> QED BY <2>1, <2>2, <2>3, <2>4, <2>5 DEF CopyInv
<1>11. CopyIsExact'
  <2> SUFFICES ASSUME NEW k \in DOMAIN out', prog = "mycat" => k <= BUFSIZE
               PROVE  out'[k] = k - 1
    BY <1>2 DEF CopyIsExact
  <2>1. k \in 1 .. Len(out) + ret
    BY <1>5
  <2>2. CASE k <= Len(out)
    <3>1. k \in 1 .. Len(out) /\ k \in DOMAIN out
      BY <1>3, <2>1, <2>2
    <3> QED BY <1>0, <1>5, <3>1 DEF CopyIsExact
  <2>3. CASE k > Len(out)
    <3> DEFINE j == k - Len(out)
    <3>1. j \in 1 .. ret /\ j - 1 \in 0 .. len - 1 /\ k = Len(out) + j /\ pos + (j - 1) = pos + j - 1
      BY <1>3, <2>1, <2>3
    <3>2. prog = "mycat" => pos + (j - 1) < BUFSIZE
      BY <1>0, <1>3, <2>1, <2>3 DEF CopyInv
    <3> HIDE DEF j
    <3>3. At(pos + (j - 1)) = Len(out) + (j - 1)
      BY <1>6, <3>1, <3>2
    <3>4. out'[Len(out) + j] = At(pos + j - 1)
      BY <1>5, <3>1
    <3> QED BY <1>3, <3>1, <3>3, <3>4
  <2> QED BY <1>3, <2>1, <2>2, <2>3
<1> QED BY <1>7, <1>8, <1>9, <1>10, <1>11 DEF Inv

-----------------------------------------------------------------------------
\* Every step preserves the invariant.
LEMMA StepInv == Inv /\ [Next]_vars => Inv'
<1> SUFFICES ASSUME Inv, [Next]_vars PROVE Inv'
  OBVIOUS
<1>1. CASE Next
  BY <1>1, HandlerStep, OtherSignals, ControlStep, FetchMinStep, LoadStep, FetchStoreStep,
     ReturnStoreStep, ReturnCapStep, ReadStep, WriteStep DEF Next, Program
<1>2. CASE UNCHANGED vars
  BY <1>2 DEF Inv, TypeOK, ProgramInv, BucketInv, CopyInv, CopyIsExact, vars, clock, file, locals,
              limit, Price, Holding
<1> QED BY <1>1, <1>2

LEMMA Invariance == Spec => []Inv
  BY InitInv, StepInv, PTL DEF Spec

\* Whatever SIGALRM interrupts, the bucket never holds more than the clock has
\* paid for, for every rate and burst; only a handler that came between a load
\* and its store makes it hold less.
THEOREM BucketNeverAhead == Spec => []NeverAhead
<1>1. Inv => NeverAhead
  BY DEF Inv, TypeOK, BucketInv, NeverAhead
<1> QED BY <1>1, Invariance, PTL

\* Across short reads, short writes and signals what is written is the
\* beginning of the file, for every length of the file and of buf[]; mycat.c
\* is right up to its first BUFSIZE bytes.
THEOREM CopyExact == Spec => []CopyIsExact
<1>1. Inv => CopyIsExact
  BY DEF Inv
<1> QED BY <1>1, Invariance, PTL
=============================================================================
