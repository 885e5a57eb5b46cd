------------------------------ MODULE StatPool ------------------------------
(***************************************************************************)
(* The file statistics with a thread pool of                               *)
(* src/homework/statistic_file_with_thread_pool.c: workers take a          *)
(* directory from a bounded queue, walk it and put the subdirectories they *)
(* find back into the same queue; the main thread polls the queue and sets *)
(* done_flag when it has seen it empty twice.                              *)
(*                                                                         *)
(* queue_mutex is released only by pthread_cond_wait and at the end of a   *)
(* call, so a call is one step between two waits.  The same holds for      *)
(* stat_mutex and the counters.  The tree does not change during the walk. *)
(* A definition marked "Variant" is a plausible mistake in the code that   *)
(* follows it; no specification uses it.                                   *)
(***************************************************************************)
EXTENDS Integers, FiniteSets

CONSTANTS Workers, QUEUE_MAX,
          Dirs, Root,      \* the directories, and the one given on the command line
          Files,           \* the regular files
          Entries          \* what readdir finds in a directory: files and directories

ASSUME StatAssumption ==
    /\ IsFiniteSet(Workers) /\ Workers # {}
    /\ QUEUE_MAX \in Nat \ {0}
    /\ Root \in Dirs
    /\ Dirs \cap Files = {}
    /\ Entries \in [Dirs -> SUBSET ((Dirs \cup Files) \ {Root})]
    /\ \A d, e \in Dirs : d # e => Entries[d] \cap Entries[e] = {}

VARIABLES
  task_queue, queue_front, queue_rear, queue_count, done_flag,
  cond_not_empty, cond_not_full,   \* the threads blocked on each condition
  file_count, dir_count,
  pc,                              \* a worker: "dequeue", "open", "walk", "enqueue", "exited"
  dir,                             \* its dir_name
  todo,                            \* the entries readdir has still to return
  sub,                             \* the subdirectory it is about to enqueue
  mpc,                             \* the main thread
  seen,                            \* history: the entries that stat() classified
  ended                            \* history: directories walked, unreadable or dropped

queue    == <<task_queue, queue_front, queue_rear, queue_count>>
conds    == <<cond_not_empty, cond_not_full>>
counters == <<file_count, dir_count>>
locals   == <<dir, todo, sub>>
vars     == <<queue, done_flag, conds, counters, pc, locals, mpc, seen, ended>>

Cells == 0 .. QUEUE_MAX - 1

Goto(w, l) == pc' = [pc EXCEPT ![w] = l]

\* pthread_cond_signal: one of the threads that wait, if any, goes on.
Signalled(C) == IF C = {} THEN {{}} ELSE {C \ {w} : w \in C}

\* The threads were created before the first directory is enqueued; cells that
\* were never written hold no directory that anybody reads.
Init ==
    /\ task_queue = [c \in Cells |-> Root]
    /\ queue_front = 0 /\ queue_rear = 0 /\ queue_count = 0
    /\ done_flag = FALSE
    /\ cond_not_empty = {} /\ cond_not_full = {}
    /\ file_count = 0 /\ dir_count = 0
    /\ pc = [w \in Workers |-> "dequeue"]
    /\ dir = [w \in Workers |-> Root]
    /\ todo = [w \in Workers |-> {}]
    /\ sub = [w \in Workers |-> Root]
    /\ mpc = "start"
    /\ seen = {}
    /\ ended = {}

-----------------------------------------------------------------------------
\* The queue.

\* Variant: nobody is told that the queue has a task.
PutSilent(d) ==
    /\ queue_count < QUEUE_MAX
    /\ task_queue' = [task_queue EXCEPT ![queue_rear] = d]
    /\ queue_rear' = (queue_rear + 1) % QUEUE_MAX
    /\ queue_count' = queue_count + 1
    /\ UNCHANGED <<queue_front, cond_not_empty>>

\* enqueue_task with room in the queue.
Put(d) ==
    /\ queue_count < QUEUE_MAX
    /\ task_queue' = [task_queue EXCEPT ![queue_rear] = d]
    /\ queue_rear' = (queue_rear + 1) % QUEUE_MAX
    /\ queue_count' = queue_count + 1
    /\ cond_not_empty' \in Signalled(cond_not_empty)
    /\ UNCHANGED queue_front

\* The wait of enqueue_task: the queue is full and the program is not done.
EnqueueWait(w) ==
    /\ pc[w] = "enqueue" /\ w \notin cond_not_full
    /\ queue_count >= QUEUE_MAX /\ ~done_flag
    /\ cond_not_full' = cond_not_full \cup {w}
    /\ UNCHANGED <<queue, done_flag, cond_not_empty, counters, pc, locals, mpc, seen, ended>>

EnqueuePut(w) ==
    /\ pc[w] = "enqueue" /\ w \notin cond_not_full
    /\ Put(sub[w])
    /\ Goto(w, "walk")
    /\ UNCHANGED <<done_flag, cond_not_full, counters, locals, mpc, seen, ended>>

\* Full and done: the path is freed, and its directory will not be walked.
EnqueueDrop(w) ==
    /\ pc[w] = "enqueue" /\ w \notin cond_not_full
    /\ queue_count >= QUEUE_MAX /\ done_flag
    /\ ended' = ended \cup {sub[w]}
    /\ Goto(w, "walk")
    /\ UNCHANGED <<queue, done_flag, conds, counters, locals, mpc, seen>>

DequeueWait(w) ==
    /\ pc[w] = "dequeue" /\ w \notin cond_not_empty
    /\ queue_count = 0 /\ ~done_flag
    /\ cond_not_empty' = cond_not_empty \cup {w}
    /\ UNCHANGED <<queue, done_flag, cond_not_full, counters, pc, locals, mpc, seen, ended>>

DequeueTake(w) ==
    /\ pc[w] = "dequeue" /\ w \notin cond_not_empty
    /\ queue_count > 0
    /\ dir' = [dir EXCEPT ![w] = task_queue[queue_front]]
    /\ queue_front' = (queue_front + 1) % QUEUE_MAX
    /\ queue_count' = queue_count - 1
    /\ cond_not_full' \in Signalled(cond_not_full)
    /\ Goto(w, "open")
    /\ UNCHANGED <<task_queue, queue_rear, done_flag, cond_not_empty, counters, todo, sub,
                   mpc, seen, ended>>

\* Variant: a worker leaves as soon as the program is done.
DequeueNullEarly(w) ==
    /\ pc[w] = "dequeue" /\ w \notin cond_not_empty
    /\ done_flag
    /\ Goto(w, "exited")
    /\ UNCHANGED <<queue, done_flag, conds, counters, locals, mpc, seen, ended>>

\* dequeue_task returns NULL and the worker leaves its loop.
DequeueNull(w) ==
    /\ pc[w] = "dequeue" /\ w \notin cond_not_empty
    /\ queue_count = 0 /\ done_flag
    /\ Goto(w, "exited")
    /\ UNCHANGED <<queue, done_flag, conds, counters, locals, mpc, seen, ended>>

SpuriousWakeup(w) ==
    /\ w \in cond_not_empty \cup cond_not_full
    /\ cond_not_empty' = cond_not_empty \ {w}
    /\ cond_not_full' = cond_not_full \ {w}
    /\ UNCHANGED <<queue, done_flag, counters, pc, locals, mpc, seen, ended>>

-----------------------------------------------------------------------------
\* A worker walks a directory.

OpenDir(w) ==
    /\ pc[w] = "open"
    /\ todo' = [todo EXCEPT ![w] = Entries[dir[w]]]
    /\ Goto(w, "walk")
    /\ UNCHANGED <<queue, done_flag, conds, counters, dir, sub, mpc, seen, ended>>

OpenFail(w) ==
    /\ pc[w] = "open"
    /\ ended' = ended \cup {dir[w]}
    /\ Goto(w, "dequeue")
    /\ UNCHANGED <<queue, done_flag, conds, counters, locals, mpc, seen>>

\* stat() fails, or the entry is of another kind, and the entry is passed over.
SkipEntry(w, e) ==
    /\ pc[w] = "walk" /\ e \in todo[w]
    /\ todo' = [todo EXCEPT ![w] = @ \ {e}]
    /\ UNCHANGED <<queue, done_flag, conds, counters, pc, dir, sub, mpc, seen, ended>>

\* A regular file; the lines that code_counter finds are summed the same way.
CountFile(w, f) ==
    /\ pc[w] = "walk" /\ f \in todo[w] \cap Files
    /\ todo' = [todo EXCEPT ![w] = @ \ {f}]
    /\ file_count' = file_count + 1
    /\ seen' = seen \cup {f}
    /\ UNCHANGED <<queue, done_flag, conds, dir_count, pc, dir, sub, mpc, ended>>

FoundDir(w, d) ==
    /\ pc[w] = "walk" /\ d \in todo[w] \cap Dirs
    /\ todo' = [todo EXCEPT ![w] = @ \ {d}]
    /\ dir_count' = dir_count + 1
    /\ seen' = seen \cup {d}
    /\ sub' = [sub EXCEPT ![w] = d]
    /\ Goto(w, "enqueue")
    /\ UNCHANGED <<queue, done_flag, conds, file_count, dir, mpc, ended>>

CloseDir(w) ==
    /\ pc[w] = "walk" /\ todo[w] = {}
    /\ ended' = ended \cup {dir[w]}
    /\ Goto(w, "dequeue")
    /\ UNCHANGED <<queue, done_flag, conds, counters, locals, mpc, seen>>

-----------------------------------------------------------------------------
\* The main thread.

MainStart ==
    /\ mpc = "start"
    /\ Put(Root)
    /\ mpc' = "poll"
    /\ UNCHANGED <<done_flag, cond_not_full, counters, pc, locals, seen, ended>>

\* The polling loop; finding the queue in use changes nothing.  usleep orders
\* nothing: the workers may do any number of steps between the two looks.
MainFindsEmpty ==
    /\ mpc = "poll"
    /\ queue_count = 0
    /\ mpc' = "again"
    /\ UNCHANGED <<queue, done_flag, conds, counters, pc, locals, seen, ended>>

MainLooksAgain ==
    /\ mpc = "again"
    /\ mpc' = IF queue_count = 0 THEN "set_done" ELSE "poll"
    /\ UNCHANGED <<queue, done_flag, conds, counters, pc, locals, seen, ended>>

\* Variant: set_done wakes nobody.
set_done_silent ==
    /\ mpc = "set_done"
    /\ done_flag' = TRUE
    /\ mpc' = "join"
    /\ UNCHANGED <<queue, conds, counters, pc, locals, seen, ended>>

set_done ==
    /\ mpc = "set_done"
    /\ done_flag' = TRUE
    /\ cond_not_empty' = {}
    /\ mpc' = "join"
    /\ UNCHANGED <<queue, cond_not_full, counters, pc, locals, seen, ended>>

MainJoin ==
    /\ mpc = "join"
    /\ \A w \in Workers : pc[w] = "exited"
    /\ mpc' = "finished"
    /\ UNCHANGED <<queue, done_flag, conds, counters, pc, locals, seen, ended>>

-----------------------------------------------------------------------------
Main == MainStart \/ MainFindsEmpty \/ MainLooksAgain \/ set_done \/ MainJoin

Walk(w) ==
    \/ OpenDir(w) \/ OpenFail(w) \/ CloseDir(w)
    \/ \E e \in Dirs \cup Files : SkipEntry(w, e) \/ CountFile(w, e) \/ FoundDir(w, e)

Worker(w) ==
    \/ DequeueWait(w) \/ DequeueTake(w) \/ DequeueNull(w)
    \/ EnqueueWait(w) \/ EnqueuePut(w) \/ EnqueueDrop(w)
    \/ Walk(w)

Next == Main \/ \E w \in Workers : Worker(w) \/ SpuriousWakeup(w)

Spec == Init /\ [][Next]_vars

\* Every thread that is not blocked is scheduled.
FairSpec == Spec /\ WF_vars(Main) /\ \A w \in Workers : WF_vars(Worker(w))

-----------------------------------------------------------------------------
\* The types of the variables; the indices stay inside the ring.
TypeOK ==
    /\ task_queue \in [Cells -> Dirs]
    /\ queue_front \in Cells /\ queue_rear \in Cells
    /\ queue_count \in 0 .. QUEUE_MAX
    /\ done_flag \in BOOLEAN
    /\ cond_not_empty \subseteq Workers /\ cond_not_full \subseteq Workers
    /\ file_count \in Nat /\ dir_count \in Nat
    /\ pc \in [Workers -> {"dequeue", "open", "walk", "enqueue", "exited"}]
    /\ dir \in [Workers -> Dirs] /\ sub \in [Workers -> Dirs]
    /\ todo \in [Workers -> SUBSET (Dirs \cup Files)]
    /\ mpc \in {"start", "poll", "again", "set_done", "join", "finished"}
    /\ seen \subseteq Dirs \cup Files
    /\ ended \subseteq Dirs

\* pthread_cond_signal wakes one thread, and that is enough: while a worker
\* sleeps for a task, every task in the queue has a worker of its own on the
\* way to it; and while one sleeps for room, so has every free cell.
NoLostWakeup ==
    /\ cond_not_empty # {} =>
         /\ ~done_flag
         /\ queue_count <= Cardinality({w \in Workers : pc[w] = "dequeue" /\ w \notin cond_not_empty})
    /\ cond_not_full # {} =>
         QUEUE_MAX - queue_count
           <= Cardinality({w \in Workers : pc[w] = "enqueue" /\ w \notin cond_not_full})

\* The cells of the ring that hold a task.
Occupied == {c \in Cells : (c - queue_front) % QUEUE_MAX < queue_count}

\* Where directory d is: in a cell of the queue, with a worker, or dealt with.
Places(d) ==
      {<<"queue", c>> : c \in {c \in Occupied : task_queue[c] = d}}
    \cup {<<"walk", w>> : w \in {w \in Workers : pc[w] \in {"open", "walk", "enqueue"} /\ dir[w] = d}}
    \cup {<<"enqueue", w>> : w \in {w \in Workers : pc[w] = "enqueue" /\ sub[w] = d}}
    \cup {<<"ended", 0>> : x \in ended \cap {d}}

\* Between the discovery of a directory and its end it is in exactly one place:
\* none is walked twice, none vanishes, although full queues, waits and the
\* end of the program come in between.
OnePlace ==
    mpc # "start" =>
      \A d \in Dirs : Cardinality(Places(d)) = (IF d \in seen \cup {Root} THEN 1 ELSE 0)

\* When the totals are printed they are exact, and every directory that was
\* found has been dealt with, although main may set done_flag too early, while
\* a worker is still producing tasks.
TotalsExact ==
    mpc = "finished" =>
      /\ file_count = Cardinality(seen \cap Files)
      /\ dir_count = Cardinality(seen \cap Dirs)
      /\ seen \cap Dirs \subseteq ended

\* No directory is walked twice or forgotten, and so the totals are exact.
WalkExact == OnePlace /\ TotalsExact

\* The program ends, or all workers that are left block each other: each has a
\* subdirectory to put into the full queue, and nobody is left to take one.
Jammed ==
    /\ queue_count = QUEUE_MAX
    /\ \E w \in Workers : pc[w] = "enqueue"
    /\ \A w \in Workers :
         \/ pc[w] = "exited"
         \/ pc[w] = "enqueue" /\ (done_flag => w \in cond_not_full)
EndsOrJams == <>(mpc = "finished" \/ Jammed)
=============================================================================
