----------------------------- MODULE TbfSignal -----------------------------
(***************************************************************************)
(* The programs that copy a file at the pace of SIGALRM, without threads:  *)
(*   "tbf"       mytbf/: a token bucket filled by the handler, alarm(1);   *)
(*   "tbf_sa"    mytbf_sa/: the same with sigaction and setitimer;         *)
(*   "slowcat"   slowcat.c: one flag, set by the handler;                  *)
(*   "slowcat2"  slowcat2.c: a counter of type sig_atomic_t;               *)
(* and "mycat", mycat.c, which does not wait at all.  The handler runs to  *)
(* its end between any two steps of the program; an operation on token     *)
(* such as token -= n is a load and a store, with room for the handler in  *)
(* between.                                                                *)
(*                                                                         *)
(* mytbf_sa/mytbf.c sleeps in sigsuspend(&oldmask), and oldmask is not     *)
(* declared anywhere; as nothing in the program blocks a signal it is      *)
(* modelled as the pause() it replaced.                                    *)
(***************************************************************************)
EXTENDS Integers, Sequences

CONSTANTS CPS, BURST,
          BUFSIZE,     \* length of buf[]
          FileLength   \* bytes of the file; byte i of it is known by i

ASSUME SlowAssumption ==
    /\ {CPS, BURST, BUFSIZE} \subseteq Nat \ {0}
    /\ FileLength \in Nat

VARIABLES
  prog, pc,
  token,           \* me->token, loop or token
  job,             \* the bucket is in job[]: the handler fills it
  armed,           \* the next SIGALRM is due
  reg, size, len, pos,   \* a loaded token; the variables of main
  offset, buf,     \* the file offset; what buf[] holds (-1: nothing yet)
  out,             \* history: what was written
  ideal, lost,     \* history: the bucket if every operation were atomic; the
                   \* handler has run between a load and its store
  failed           \* history: read or write reported an error

clock   == <<token, job, armed, ideal, lost>>
file    == <<offset, buf, out>>
locals  == <<reg, size, len, pos>>
vars    == <<prog, pc, clock, file, locals, failed>>

Garbage == -1
Buckets == {"tbf", "tbf_sa"}
Least(a, b) == IF a < b THEN a ELSE b
limit == CASE prog = "slowcat" -> 1 [] OTHER -> BURST
pace  == CASE prog \in Buckets -> CPS [] OTHER -> 1

Init ==
    /\ prog \in {"tbf", "tbf_sa", "slowcat", "slowcat2", "mycat"}
    /\ pc = IF prog = "mycat" THEN "read" ELSE "start"
    /\ token = 0 /\ job = FALSE /\ armed = FALSE
    /\ ideal = 0 /\ lost = FALSE
    /\ reg = 0 /\ size = BUFSIZE /\ len = 0 /\ pos = 0
    /\ offset = 0 /\ buf = [i \in 0 .. BUFSIZE - 1 |-> Garbage] /\ out = <<>>
    /\ failed = FALSE

Goto(a, b) == pc = a /\ pc' = b /\ UNCHANGED prog

-----------------------------------------------------------------------------
\* SIGALRM.  A paused program goes on behind pause().
Asleep == pc = "paused"
Awake  == IF Asleep THEN "wait" ELSE pc

\* Between a load and its store the program holds an old value of token.
Holding == pc \in {"fetch_store", "return_store"}

\* Variant: the handler does not ask for the next alarm.
alrm_handler_once ==
    /\ armed /\ job
    /\ armed' = FALSE
    /\ token' = Least(token + pace, limit)
    /\ ideal' = Least(ideal + pace, limit)
    /\ lost' = (lost \/ Holding)
    /\ pc' = Awake
    /\ UNCHANGED <<prog, job, file, locals, failed>>

\* The handler of mytbf.c calls alarm(1), those of mytbf_sa and slowcat.c have
\* an interval timer: either way the next one is due.  It fills every bucket
\* in job[]; slowcat.c sets its flag, slowcat2.c counts.
alrm_handler ==
    /\ armed /\ job
    /\ armed' = TRUE
    /\ token' = Least(token + pace, limit)
    /\ ideal' = Least(ideal + pace, limit)
    /\ lost' = (lost \/ Holding)
    /\ pc' = Awake
    /\ UNCHANGED <<prog, job, file, locals, failed>>

\* Variant: si_code is not looked at.
alrm_action_any ==
    /\ prog = "tbf_sa" /\ armed /\ job
    /\ token' = Least(token + pace, limit)
    /\ pc' = Awake
    /\ UNCHANGED <<prog, job, armed, ideal, lost, file, locals, failed>>

\* alrm_action of mytbf_sa for a SIGALRM that some process sent: si_code is not
\* SI_KERNEL, nothing is added, but the program is awake.
alrm_action_foreign ==
    /\ prog = "tbf_sa" /\ armed /\ Asleep
    /\ pc' = Awake
    /\ UNCHANGED <<prog, clock, file, locals, failed>>

\* Before mytbf_init has made the bucket and after mytbf_destroy the handler
\* finds nothing to fill; once module_unload has put the old disposition back,
\* the signal ends the process.
alrm_no_job ==
    /\ armed /\ ~job
    /\ pc' = IF pc = "unloaded" THEN "killed" ELSE pc
    /\ armed' = (pc # "unloaded")
    /\ UNCHANGED <<prog, token, job, ideal, lost, file, locals, failed>>

-----------------------------------------------------------------------------
\* The bucket.

\* module_load: the handler and the first alarm; then the new bucket.  The
\* flag and the counter are there from the start.
module_load ==
    /\ Goto("start", IF prog \in Buckets THEN "init" ELSE "wait")
    /\ armed' = TRUE
    /\ job' = (prog \notin Buckets)
    /\ UNCHANGED <<token, ideal, lost, file, locals, failed>>

mytbf_init ==
    /\ Goto("init", "wait")
    /\ job' = TRUE
    /\ UNCHANGED <<token, armed, ideal, lost, file, locals, failed>>

\* while(me->token <= 0) pause();  A signal between the test and pause() is
\* taken before the program sleeps, and does not wake it.
Wait ==
    /\ Goto("wait", IF token <= 0 THEN "pause" ELSE "fetch_min")
    /\ UNCHANGED <<clock, file, locals, failed>>
pause ==
    /\ Goto("pause", "paused")
    /\ UNCHANGED <<clock, file, locals, failed>>

\* n = min(me->token, size);  slowcat and slowcat2 always take one.
fetch_min ==
    /\ Goto("fetch_min", "fetch_load")
    /\ size' = IF prog \in Buckets THEN Least(token, BUFSIZE) ELSE BUFSIZE
    /\ UNCHANGED <<clock, file, reg, len, pos, failed>>

\* me->token -= n, token--, or loop = 0 (which does not load).
fetch_load ==
    /\ Goto("fetch_load", "fetch_store")
    /\ reg' = token
    /\ UNCHANGED <<clock, file, size, len, pos, failed>>

Price == IF prog \in Buckets THEN size ELSE 1

fetch_store ==
    /\ Goto("fetch_store", "read")
    /\ token' = IF prog = "slowcat" THEN 0 ELSE reg - Price
    /\ ideal' = IF prog = "slowcat" THEN 0 ELSE ideal - Price
    /\ UNCHANGED <<job, armed, lost, file, locals, failed>>

\* mytbf_returnToken(tbf, size - len): a load and a store, and the cap.
return_load ==
    /\ Goto("return_load", "return_store")
    /\ reg' = token
    /\ UNCHANGED <<clock, file, size, len, pos, failed>>

return_store ==
    /\ Goto("return_store", "return_cap")
    /\ token' = reg + (size - len)
    /\ ideal' = Least(ideal + (size - len), BURST)
    /\ UNCHANGED <<job, armed, lost, file, locals, failed>>

return_cap ==
    /\ Goto("return_cap", "write")
    /\ token' = Least(token, BURST)
    /\ UNCHANGED <<job, armed, ideal, lost, file, locals, failed>>

-----------------------------------------------------------------------------
\* main: the copy.

\* len = read(sfd, buf, size);  mycat.c alone does not set pos back to 0.
Rest == FileLength - offset
read ==
    /\ LET l == Least(size, Rest) IN
       /\ Goto("read", CASE l = 0 -> "close"
                         [] l > 0 /\ l < size /\ prog \in Buckets -> "return_load"
                         [] OTHER -> "write")
       /\ len' = l
       /\ buf' = [i \in 0 .. BUFSIZE - 1 |-> IF i < l THEN offset + i ELSE buf[i]]
       /\ offset' = offset + l
       /\ pos' = IF prog = "mycat" THEN pos ELSE 0
    /\ UNCHANGED <<clock, out, reg, size, failed>>

\* read fails, on a slow file also because of the signal (mytbf_sa does not set
\* SA_RESTART), and the copy is over; main exits with 0 all the same.
read_fails ==
    /\ Goto("read", "close")
    /\ failed' = TRUE
    /\ UNCHANGED <<clock, file, locals>>

At(i) == IF i < BUFSIZE THEN buf[i] ELSE Garbage
Bytes(n) == [k \in 1 .. n |-> At(pos + k - 1)]

\* Variant: the rest is written from the start of buf again.
write_restart ==
    /\ len > 0
    /\ \E ret \in 1 .. len :
         /\ Goto("write", IF ret = len THEN "written" ELSE "write")
         /\ out' = out \o [k \in 1 .. ret |-> buf[k - 1]]
         /\ len' = len - ret
         /\ pos' = pos
    /\ UNCHANGED <<clock, offset, buf, reg, size, failed>>

\* ret = write(dfd, buf + pos, len) may write less than len.
write ==
    /\ len > 0
    /\ \E ret \in 1 .. len :
         /\ Goto("write", IF ret = len THEN "written" ELSE "write")
         /\ out' = out \o Bytes(ret)
         /\ len' = len - ret
         /\ pos' = pos + ret
    /\ UNCHANGED <<clock, offset, buf, reg, size, failed>>

written ==
    /\ Goto("written", IF prog = "mycat" THEN "read" ELSE "wait")
    /\ UNCHANGED <<clock, file, locals, failed>>

\* write fails, in mytbf_sa also because the signal came while it waited for a
\* full pipe: exit(1).
write_fails ==
    /\ Goto("write", "exit")
    /\ failed' = TRUE
    /\ UNCHANGED <<clock, file, locals>>

\* close(sfd) and mytbf_destroy(tbf): job[] first, then free.
destroy ==
    /\ Goto("close", "exit")
    /\ job' = (job /\ prog \notin Buckets)
    /\ UNCHANGED <<token, armed, ideal, lost, file, locals, failed>>

\* exit() runs module_unload: first the old disposition, then the timer, which
\* mytbf.c stops and mytbf_sa/mytbf.c starts again.
module_unload ==
    \/ /\ prog \in Buckets /\ Goto("exit", "unloaded")
       /\ job' = FALSE
       /\ UNCHANGED <<token, armed, ideal, lost, file, locals, failed>>
    \/ /\ prog \notin Buckets /\ Goto("exit", "exited")
       /\ armed' = FALSE
       /\ UNCHANGED <<token, job, ideal, lost, file, locals, failed>>
    \/ /\ Goto("unloaded", "exited")
       /\ armed' = FALSE
       /\ UNCHANGED <<token, job, ideal, lost, file, locals, failed>>

Program ==
    \/ module_load \/ mytbf_init \/ Wait \/ pause \/ fetch_min \/ fetch_load \/ fetch_store
    \/ return_load \/ return_store \/ return_cap
    \/ read \/ write \/ written \/ destroy \/ module_unload

Next == Program \/ alrm_handler \/ alrm_action_foreign \/ alrm_no_job \/ read_fails \/ write_fails

\* The program runs, and the clock goes on as long as it is armed.
Spec == Init /\ [][Next]_vars /\ WF_vars(Program) /\ WF_vars(alrm_handler)

-----------------------------------------------------------------------------
\* The bucket never holds more than the clock has paid for, whatever the
\* handler interrupts, and a SIGALRM of somebody else adds nothing to that of
\* mytbf_sa; and unless the handler came between a load and its store it holds
\* exactly that: the races of mytbf.c:103 lose tokens and never make any.
NeverAhead ==
    pc # "return_cap" => token \in 0 .. ideal /\ (~lost => token = ideal)

\* What has been written is the beginning of the file, byte for byte, across
\* short reads, short writes and signals.  mycat.c is right up to its first
\* BUFSIZE bytes only: pos is not set back.
CopyIsExact ==
    \A k \in DOMAIN out : (prog = "mycat" => k <= BUFSIZE) => out[k] = k - 1

\* The copy ends, with the whole file unless a call failed, although a tick
\* that comes between the test of token and pause() wakes nobody.
CopyEnds ==
    <>(pc \in {"exited", "killed"} /\ (failed \/ Len(out) = FileLength))
=============================================================================
