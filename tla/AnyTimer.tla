------------------------------ MODULE AnyTimer ------------------------------
(***************************************************************************)
(* The one-clock, many-jobs timer library of src/anytimer/anytimer.c: a    *)
(* program with one thread and the SIGALRM handler that interrupts it      *)
(* between any two of its steps.  While the handler runs the program does  *)
(* not, and SIGALRM is blocked, so the handler is not interrupted; the     *)
(* callbacks it runs may call at_canceljob.                                *)
(*                                                                         *)
(* A definition marked "Variant" is a plausible mistake in the code that   *)
(* follows it; no specification uses it.                                   *)
(***************************************************************************)
EXTENDS Integers

CONSTANTS JOB_MAX,     \* length of job[]
          Secs         \* the delays jobs are added with

ASSUME TimerAssumption ==
    /\ JOB_MAX \in Nat \ {0}
    /\ Secs \subseteq Int

VARIABLES
  job_state, sec, time_remain, repeat,   \* *job[i]; job_state "NULL" is job[i] == NULL
  initied,                               \* module_load has run: the clock ticks
  hi,                                    \* the handler's index, -1 when it does not run
  tpc, id,                               \* the program: where it is, the job it asks about
  woken,                                 \* a handler ran since pause() was entered
  since, gap, runs, cancelled            \* history, per job: ticks since it was added or
                                         \* ran, ticks before its last run, runs (0, 1 or
                                         \* 2 for more), at_canceljob returned 0 for it

jobs    == <<job_state, sec, time_remain, repeat>>
history == <<since, gap, runs, cancelled>>
program == <<tpc, id, woken>>
timerVars == <<jobs, initied, hi, program, history>>

Slots == 0 .. JOB_MAX - 1

FreeSlots == {i \in Slots : job_state[i] = "NULL"}
get_free_pos ==
    IF FreeSlots = {} THEN -1 ELSE CHOOSE i \in FreeSlots : \A k \in FreeSlots : i <= k

\* A job added with 0 seconds counts down from 0; all negative values behave
\* alike (it would take 2^31 ticks to get back to 0), so -1 stands for them.
Decrement(n) == IF n < 0 THEN -1 ELSE n - 1

Saturate(n) == IF n > 2 THEN 2 ELSE n

TimerInit ==
    /\ job_state = [i \in Slots |-> "NULL"]
    /\ sec = [i \in Slots |-> 0]
    /\ time_remain = [i \in Slots |-> 0]
    /\ repeat = [i \in Slots |-> FALSE]
    /\ initied = FALSE
    /\ hi = -1
    /\ tpc = "run" /\ id = 0 /\ woken = FALSE
    /\ since = [i \in Slots |-> 0]
    /\ gap = [i \in Slots |-> 0]
    /\ runs = [i \in Slots |-> 0]
    /\ cancelled = [i \in Slots |-> FALSE]

-----------------------------------------------------------------------------
\* The handler.

\* The interval timer expires.
Tick ==
    /\ initied /\ tpc # "exited"
    /\ hi = -1
    /\ hi' = 0
    /\ UNCHANGED <<jobs, initied, program, history>>

\* SIGALRM from somebody else: si_code is not SI_KERNEL and the handler returns
\* at once, but pause() has been interrupted.
ForeignAlarm ==
    /\ initied /\ hi = -1
    /\ tpc = "paused"
    /\ woken' = TRUE
    /\ UNCHANGED <<jobs, initied, hi, tpc, id, history>>

\* at_canceljob called from a callback, where nothing can come between its
\* test and its assignment.
CanCancel(c) == job_state[c] = "RUNNING"

\* Variant: the repeating job goes on one tick early.
FireEarlyReload(i, C) ==
    LET after == [j \in Slots |-> IF j \in C THEN "CANCELED" ELSE job_state[j]] IN
    /\ job_state' = IF repeat[i] THEN after ELSE [after EXCEPT ![i] = "OVER"]
    /\ time_remain' = [time_remain EXCEPT ![i] = IF repeat[i] THEN sec[i] - 1 ELSE 0]
    /\ gap' = [gap EXCEPT ![i] = since[i] + 1]
    /\ since' = [since EXCEPT ![i] = 0]
    /\ runs' = [runs EXCEPT ![i] = Saturate(@ + 1)]
    /\ cancelled' = [j \in Slots |-> cancelled[j] \/ j \in C]

\* Variant: the reload makes the job run again.
FireRevive(i, C) ==
    LET after == [j \in Slots |-> IF j \in C THEN "CANCELED" ELSE job_state[j]] IN
    /\ job_state' = [after EXCEPT ![i] = IF repeat[i] THEN "RUNNING" ELSE "OVER"]
    /\ time_remain' = [time_remain EXCEPT ![i] = IF repeat[i] THEN sec[i] ELSE 0]
    /\ gap' = [gap EXCEPT ![i] = since[i] + 1]
    /\ since' = [since EXCEPT ![i] = 0]
    /\ runs' = [runs EXCEPT ![i] = Saturate(@ + 1)]
    /\ cancelled' = [j \in Slots |-> cancelled[j] \/ j \in C]

\* Variant: a one-shot job is not marked as over.
FireForever(i, C) ==
    /\ job_state' = [j \in Slots |-> IF j \in C THEN "CANCELED" ELSE job_state[j]]
    /\ time_remain' = [time_remain EXCEPT ![i] = sec[i]]
    /\ gap' = [gap EXCEPT ![i] = since[i] + 1]
    /\ since' = [since EXCEPT ![i] = 0]
    /\ runs' = [runs EXCEPT ![i] = Saturate(@ + 1)]
    /\ cancelled' = [j \in Slots |-> cancelled[j] \/ j \in C]

\* jobp(arg), during which the jobs C are cancelled; then the job is reloaded
\* or over, whatever the callback did to it.
Fire(i, C) ==
    LET after == [j \in Slots |-> IF j \in C THEN "CANCELED" ELSE job_state[j]] IN
    /\ job_state' = IF repeat[i] THEN after ELSE [after EXCEPT ![i] = "OVER"]
    /\ time_remain' = [time_remain EXCEPT ![i] = IF repeat[i] THEN sec[i] ELSE 0]
    /\ gap' = [gap EXCEPT ![i] = since[i] + 1]
    /\ since' = [since EXCEPT ![i] = 0]
    /\ runs' = [runs EXCEPT ![i] = Saturate(@ + 1)]
    /\ cancelled' = [j \in Slots |-> cancelled[j] \/ j \in C]

\* One round of the loop of alrm_action.
HandleSkip ==
    /\ hi \in Slots
    /\ job_state[hi] # "RUNNING"
    /\ hi' = hi + 1
    /\ UNCHANGED <<jobs, initied, program, history>>

HandleCount ==
    /\ hi \in Slots
    /\ job_state[hi] = "RUNNING"
    /\ Decrement(time_remain[hi]) # 0
    /\ time_remain' = [time_remain EXCEPT ![hi] = Decrement(@)]
    /\ since' = [since EXCEPT ![hi] = IF sec[hi] = 0 THEN 0 ELSE @ + 1]
    /\ hi' = hi + 1
    /\ UNCHANGED <<job_state, sec, repeat, initied, program, gap, runs, cancelled>>

HandleFire ==
    /\ hi \in Slots
    /\ job_state[hi] = "RUNNING"
    /\ Decrement(time_remain[hi]) = 0
    /\ \E C \in SUBSET {c \in Slots : CanCancel(c)} : Fire(hi, C)
    /\ hi' = hi + 1
    /\ UNCHANGED <<sec, repeat, initied, program>>

HandlerReturn ==
    /\ hi = JOB_MAX
    /\ hi' = -1
    /\ woken' = (tpc = "paused")
    /\ UNCHANGED <<jobs, initied, tpc, id, history>>

-----------------------------------------------------------------------------
\* The program.

Calm == hi = -1

\* at_addjob and at_addjob_repeat: the job is not in job[] before the last
\* assignment, so an interruption before it makes no difference.  A negative
\* delay returns -EINVAL and a full table -ENOSPC.
Add(s, rep) ==
    /\ Calm /\ tpc = "run"
    /\ s >= 0
    /\ initied' = TRUE
    /\ LET pos == get_free_pos IN
         IF pos < 0
           THEN UNCHANGED <<jobs, history>>
           ELSE /\ job_state' = [job_state EXCEPT ![pos] = "RUNNING"]
                /\ sec' = [sec EXCEPT ![pos] = s]
                /\ time_remain' = [time_remain EXCEPT ![pos] = s]
                /\ repeat' = [repeat EXCEPT ![pos] = rep]
                /\ since' = [since EXCEPT ![pos] = 0]
                /\ gap' = [gap EXCEPT ![pos] = 0]
                /\ runs' = [runs EXCEPT ![pos] = 0]
                /\ cancelled' = [cancelled EXCEPT ![pos] = FALSE]
    /\ UNCHANGED <<hi, program>>

at_addjob(s) == Add(s, FALSE)
at_addjob_repeat(s) == Add(s, TRUE)

\* at_canceljob: the handler may run between the tests and the assignment.
CancelTest(i) ==
    /\ Calm /\ tpc = "run"
    /\ job_state[i] = "RUNNING"
    /\ tpc' = "cancel"
    /\ id' = i
    /\ UNCHANGED <<jobs, initied, hi, woken, history>>

CancelSet ==
    /\ Calm /\ tpc = "cancel"
    /\ job_state' = [job_state EXCEPT ![id] = "CANCELED"]
    /\ cancelled' = [cancelled EXCEPT ![id] = TRUE]
    /\ tpc' = "run"
    /\ UNCHANGED <<sec, time_remain, repeat, initied, hi, id, woken, since, gap, runs>>

\* at_waitjob: -EINVAL and -EBUSY change nothing.
WaitCall(i) ==
    /\ Calm /\ tpc = "run"
    /\ job_state[i] # "NULL" /\ ~repeat[i]
    /\ tpc' = "test"
    /\ id' = i
    /\ UNCHANGED <<jobs, initied, hi, woken, history>>

\* while(job_state == STATE_RUNNING) pause();
WaitTest ==
    /\ Calm /\ tpc = "test"
    /\ tpc' = IF job_state[id] = "RUNNING" THEN "pause" ELSE "reap"
    /\ UNCHANGED <<jobs, initied, hi, id, woken, history>>

\* A signal that arrived before pause() does not end it.
PauseEnter ==
    /\ Calm /\ tpc = "pause"
    /\ tpc' = "paused"
    /\ woken' = FALSE
    /\ UNCHANGED <<jobs, initied, hi, id, history>>

PauseReturn ==
    /\ Calm /\ tpc = "paused" /\ woken
    /\ tpc' = "test"
    /\ woken' = FALSE
    /\ UNCHANGED <<jobs, initied, hi, id, history>>

WaitReap ==
    /\ Calm /\ tpc = "reap"
    /\ job_state' = [job_state EXCEPT ![id] = "NULL"]
    /\ tpc' = "run"
    /\ UNCHANGED <<sec, time_remain, repeat, initied, hi, id, woken, history>>

\* exit(): module_unload stops the clock and restores the old SIGALRM action.
Exit ==
    /\ Calm /\ tpc = "run"
    /\ tpc' = "exited"
    /\ UNCHANGED <<jobs, initied, hi, id, woken, history>>

Exited == tpc = "exited" /\ UNCHANGED timerVars

-----------------------------------------------------------------------------
Handler == HandleSkip \/ HandleCount \/ HandleFire \/ HandlerReturn

\* What the program does inside a call, if it is not blocked.
InsideStep == CancelSet \/ WaitTest \/ PauseEnter \/ PauseReturn \/ WaitReap

TimerNext ==
    \/ Tick \/ ForeignAlarm \/ Handler
    \/ InsideStep
    \/ \E s \in Secs : at_addjob(s) \/ at_addjob_repeat(s)
    \/ \E i \in Slots : CancelTest(i) \/ WaitCall(i)
    \/ Exit \/ Exited

TimerSpec == TimerInit /\ [][TimerNext]_timerVars

\* The clock ticks, the handler ends, and between two ticks, a second apart,
\* the program gets on.
TimerFairSpec == TimerSpec /\ WF_timerVars(Tick) /\ WF_timerVars(Handler) /\ SF_timerVars(InsideStep)

-----------------------------------------------------------------------------
\* The types of the variables.
TimerTypeOK ==
    /\ job_state \in [Slots -> {"NULL", "RUNNING", "CANCELED", "OVER"}]
    /\ sec \in [Slots -> Nat]
    /\ time_remain \in [Slots -> Nat \cup {-1}]
    /\ repeat \in [Slots -> BOOLEAN]
    /\ initied \in BOOLEAN
    /\ hi \in -1 .. JOB_MAX
    /\ tpc \in {"run", "cancel", "test", "pause", "paused", "reap", "exited"}
    /\ id \in Slots
    /\ woken \in BOOLEAN
    /\ since \in [Slots -> Nat] /\ gap \in [Slots -> Nat]
    /\ runs \in [Slots -> 0 .. 2]
    /\ cancelled \in [Slots -> BOOLEAN]

\* Every run of a job comes exactly sec ticks after it was added or last ran,
\* and a running job is never overdue, whatever the program and the other
\* callbacks do in between.
FiresOnTime ==
    \A i \in Slots : job_state[i] # "NULL" =>
      /\ runs[i] > 0 => gap[i] = sec[i]
      /\ job_state[i] = "RUNNING" /\ sec[i] > 0 => since[i] < sec[i]

\* A one-shot job runs at most once, and is over only because it ran, also
\* when it is cancelled at the very moment it fires.
OneShotOnce ==
    \A i \in Slots : job_state[i] # "NULL" /\ ~repeat[i] =>
      /\ runs[i] <= 1
      /\ job_state[i] = "OVER" => runs[i] = 1

\* A job that at_canceljob reported as cancelled never runs again.
CancelIsFinal == \A i \in Slots : cancelled[i] => job_state[i] # "RUNNING"

\* at_waitjob frees only a job that has run or was cancelled: the handler never
\* finds a freed job among the running ones.
ReapsFinished ==
    tpc = "reap" => runs[id] = 1 \/ cancelled[id]

\* A one-shot job runs once, a cancelled job does not run again, and no job is
\* freed while the handler may still run it.
RunsAsAsked == OneShotOnce /\ CancelIsFinal /\ ReapsFinished

\* at_waitjob returns, although a tick between its test and pause() is missed:
\* the next tick ends the pause.  (A job added with 0 seconds never ends.)
WaitReturns == (tpc = "test" /\ sec[id] > 0) ~> (tpc = "run")
=============================================================================
