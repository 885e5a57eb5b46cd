# Verification of Linux_coding

The repository is a collection of Linux system programs in C: small libraries
(token buckets, timers, pipes, semaphores, relays), servers and clients, programs
of threads and processes that share a counter, a buffer or a search, and many
demonstrations of single system calls.  This directory holds TLA+ models of the
libraries and programs whose correctness depends on threads, signals, processes
or partial I/O, the TLC runs that check them on small instances, and TLAPS proofs
of their safety for every instance.

## 1. Inventory

### What the system consists of

| component | source | state | operations | what is hard |
|---|---|---|---|---|
| token bucket library (threads) | `thread/posix/mytbf_multithread` | `job[]`, the buckets, `mut_job`, one mutex and one condition per bucket | init, fetchToken, returnToken, destroy; the refill thread; load and unload | lock order, free against refill, wake-ups, cancellation at exit |
| in-process pipe | `mypipe` | ring buffer, reader and writer counts, one mutex, one condition | init, register, unregister, read, write, destroy | one condition for three kinds of waiter |
| dynamic server pool | `IPC/socket/stream/pool_dynamic` | `serverpool[]` in shared memory, the parent's two counts, a pending signal | scan, add, delete; a child's accept loop | signals coalesce, the scan is no snapshot, children are killed at any point |
| multi-job timer | `anytimer` | `job[]`, the remaining seconds of each job | addjob, addjob_repeat, canceljob, waitjob; the SIGALRM handler | the handler interrupts the program anywhere, callbacks call the library |
| file statistics with a thread pool | `homework/statistic_file_with_thread_pool.c` | bounded queue, two conditions, `done_flag`, counters | enqueue, dequeue, walk; main's guess that the work is done | consumers are producers, early termination, jams |
| relays | `proIO/non-blocked/relay*.c`, `proIO/select`, `proIO/poll`, `proIO/epoll` | two state machines with a buffer each, reported events | read, write, wait for events | short reads, partial writes, EAGAIN, stale events, ends and errors of one side |
| relay library | `proIO/non-blocked/relayer` | table of jobs, its mutex, the flags of the descriptors | rel_addjob; the relayer thread | adding while the table is walked, one mutex for everything |
| token buckets with signals, paced copies | `mytbf`, `mytbf_sa`, `slowcat.c`, `slowcat2.c`, `mycat.c` | `token` or `loop`, the timer, `buf`, `pos`, `len` | init, fetch, return, destroy; read, write; SIGALRM | `token` is shared with the handler, test-then-pause, partial writes |
| shared counters, tickets | `thread/posix/add_race.c`, `IPC/xsi/sem`, `proIO/mmap`, `thread/posix/Newer`, `samphore`, `homework/tickets.c` | a number in a file or in memory | add, sell | atomicity, what a lock covers |
| semaphores, bounded buffers, parking lot, read-write lock | `thread/posix/mysemphon`, `productor_consumer`, `homework`, `Newer` | a count, a mutex, one or two conditions or semaphores | sub, add; produce, consume; enter, leave | wake-ups, limits, starvation |
| prime searches and pools, thread rings | `primer*.c`, `thread*.c`, `thread/posix` | the next number, the slot `num`, the turn | hand over a number or a turn | turn taking, one condition for many, who waits for whom |
| static pool, forking and thread-pool servers | `IPC/socket` | a backlog, a descriptor in every process, a task list | accept, fork, serve, close | descriptors shared across fork, one signal per task |
| file transfer over message queues | `IPC/xsi/msg/myftp_msg` | one queue of typed messages | path, data, end of transfer | several clients take from one queue, the queue fills |
| FIFO chats | `IPC/pipe` | two named pipes, `print_mutex` | make, open, write, read, leave | the order of the opens, blocking writes, cut and joined lines |
| datagrams, shared memory, shell, daemons, standard I/O, OpenSSL exercises, the file copy over sockets | the rest | none that outlives a call | | sequential, or single system calls |

`PROJECT.json` lists every component with its status.  All rows but the last are
modelled; the last is left out for the reasons in section 6.

### How the parts interact

Each program is a process group of its own; no library calls another.  The
interactions are inside a component:

- threads over mutexes, condition variables and semaphores (mytbf, mypipe,
  statistics, relayer, counters, buffers, rings, pools);
- a signal handler with the program it interrupts (anytimer, mytbf, slowcat);
- processes over shared memory, signals and a listening socket (dynamic pool),
  over descriptors a fork has copied (the other servers), over a message queue
  (myftp), over named pipes (chats), over locks on a file (add_race);
- a program with two terminals over non-blocking descriptors (relays).

The relays and the relay library use the same state machine (`fsm_driver`); so
do their modules.  The three token bucket libraries have the same interface, and
one abstract specification, `TokenBucket`, says what it promises.

### What makes each component correct

- *token bucket*: no bucket is used after `free`; a waiter is woken when tokens
  come; exit frees everything and ends; seen from outside, the library is an
  atomic bucket that never exceeds `burst` and never hands out what it has not.
- *pipe*: no waiter sleeps through its event; as many bytes come out as went in;
  register is a barrier that opens.
- *server pool*: the parent's counts protect `serverpool[]`; no state change is
  missed; clients are served.
- *timer*: every job runs when it is due, a one-shot job once, a cancelled one
  never; waitjob frees only what has ended, and returns.
- *statistics*: each directory is walked exactly once; the totals are exact; the
  program ends.
- *relays*: bytes arrive in order, once; one direction's end does not stop the
  other; the loop ends.
- *relay library*: no job is lost, refused jobs are undone; nothing blocks the
  one thread that serves all.
- *paced copies*: the pace is never exceeded; the copy is exact and ends.
- *counters, buffers, rings, searches*: the numbers are right (or wrong only as
  far as the missing lock allows), limits are kept, turns are taken in order,
  every prime is found once, and nobody waits for ever.
- *servers, transfer, chats*: every answer, packet and line arrives once and in
  order, and each exchange comes to its end.

The hazards behind these properties are listed with their lines in
`PROJECT.json`.

## 2. The modules and the code

Definitions keep the names of the code; `PROJECT.json` maps each to its lines.
In every module a definition marked *Variant* is a plausible mistake in the code
it stands before.  No specification uses it: each was put in the place of the
real definition once, to see that the property it is aimed at then fails.  The
modules of section 1's first seven rows state their types as `TypeOK`
(`TimerTypeOK` in `AnyTimer`, whose names differ from those of `TbfSignal` so that
one module can prove about both), and the proofs of `TbfSignal`, `Threads` and
`Exchange` add theirs; these are parts of the inductive invariants of section 5 and
proved there, and the one of `MyTbf` is checked by a run too.

**TokenBucket** is the abstract specification: a function from buckets to
`NULL` or a record `cps, burst, level`, and the atomic steps Create, Refill,
Take, Give and Destroy.

**MyTbf** models `mytbf.c` and the loop of `main.c`.  Acquiring a mutex is a
step; what it protects, up to the unlock or the `pthread_cond_wait`, is the next
one.  `mut_job` and each bucket's `mut` are variables, because `thr_alarm` holds
the first while it takes the second.  `heap` is the set of blocks that are
allocated; a block that is freed may be returned by the next malloc, with new
contents.  `apc, ai` are the refill thread; cancellation takes effect in its
sleep, which is outside its critical section.  The client (`pc, me, size`) does
what `main.c` does: init, fetch, read, return what was not used, destroy; several
threads may share a bucket.  `DestroyCall` is only possible when nobody else uses
the handle, which is the caller's duty as in every such interface.  A spurious
wake-up is an action.  Exit runs `module_unload`, which cancels, joins and
destroys what is left.

**MyPipe** models `mypipe.c`.  The one mutex is given up only in
`pthread_cond_wait`, so a call is one step between two waits.  The bytes written
are numbered; `written` and `got`, how many went in and came out, are history.
`next()` and the guard of `mypipe_unregister` are modelled as C evaluates them
(section 4).  `mypipe_read` and `mypipe_write` do not test for a null pipe or a
missing registration; the constant `Registered` says whether the clients register
first.

**ServerPool** models `pool_dynamic/server.c`.  The parent scans one slot per
step; every store into `serverpool[]` and every `kill` of a child is a step.  A
pending SIG_NOTIFY is one bit; it is blocked except in `sigsuspend`.  `kill`
ends a child before its next step; in reality a child on another processor may
execute a few more instructions, whose only effect here could be one more store
into a slot the parent has just released.  A pid is not reused.  `faults` counts
the children that die of an `accept` error and the forks that fail; `killed` is
history: the parent has killed a child since its last scan.

**AnyTimer** models `anytimer.c`: one program and the handler.  While the handler
runs (`hi # -1`) the program stands still; it can be interrupted between any two
steps, and in particular between the test and the assignment of `at_canceljob`
and between the test and the `pause` of `at_waitjob`.  A callback may cancel any
job, its own included.  `pause` is ended by any handler (`ForeignAlarm`).
`time_remain` below -1 behaves like -1 and is kept there: such a job (delay 0)
is never due.

**StatPool** models the statistics program.  The queue's mutex is held for a
whole call except in a wait; `main` polls the count twice with a sleep between
and then calls `set_done`.  The tree does not change during the walk; opening a
directory may fail and an entry may fail `stat`.  `seen` and `ended` are history.

**RelFsm** is `fsm_driver` on a *link*: the state machine of one direction
together with what its source still has and what its destination took.
**Relay** has two links and the loop; its variable `wait`, chosen initially, says
which program it is: busy, select, poll or epoll (the directories `proIO/poll`
and `proIO/epoll` hold each other's program).  The events a wait reports are any
non-empty set of those that are true (one for epoll).  Hang-up without input is
not distinguished from the end of input.  The constants that describe the
terminals are those of RelFsm, and Relayer's specification has names of its own
(`RelayerSpec`, `apc` and so on), so that one module can prove about both.

**Relayer** models `rel_addjob` and `thr_relayer` over a table.  A caller adds
one job for descriptors of its own.  Two callers with the same descriptor could
restore each other's blocking flag; nothing in the code or in `main.c` does that.

**TbfSignal** models the five copying programs; `prog` says which one runs.  The
handler runs to its end between two steps of the program.  `token -= n`,
`token += size` and `token--` are a load and a store, since nothing blocks the
signal; the cap in `mytbf_returnToken` is a step of its own, and so are the test
and the `pause()`.  `ideal` is the level a bucket with atomic operations would
have, `lost` says that the handler has come between a load and its store.  A read
takes what the file has, a write takes any part of what it is given, either may
fail.  `alrm_action_foreign` is a SIGALRM that some process sent; `mytbf_sa`
ignores it but is woken by it.  Between the old disposition being restored and
the timer being stopped a tick ends the process (`"killed"`).  Each program has
one bucket, as `main.c` has.

**Pthreads** holds what the threaded and forking programs use of the system, as
steps of a thread from one program point to the next: mutexes, conditions
(with spurious wake-ups), semaphores, loads and stores of a shared integer, the
end of a loop's iteration.  Four modules extend it with the programs, each a
disjunction of such steps in the order of the C code:

- **Counters**: the three `add_race.c` (a file read, incremented and written
  back under a mutex, an XSI semaphore and a record lock), the counters with a
  mutex, with none, with a spin lock and with a semaphore, and the ticket office.
- **Turns**: the two rings that write abcd, and the readers and the writer on a
  read-write lock that prefers writers.
- **Buffers**: `mysem`, `pc.c`, `parking.c`, `sem_prod_cons.c`, `sem.c`.
- **Primes**: the searches by one process, by a process per number, by N
  processes, by threads with ranges and by threads that claim numbers, and the
  two pools.  Each program's own test for primality is an operator (`mark_...`),
  and compared with the definition of a prime.

**Threads** puts the four together: `prog` is chosen initially and does not
change, so that a behaviour is a run of one of the twenty-seven programs.
Threads are created in any order, since a thread may take its first step late.

**Servers** models four ways to serve a stream socket, with the clients.  A
connection is named after its client; `open` says which processes have a
descriptor for it, and the client reads the end of the stream when nobody has.
`backlog` holds the connections not yet accepted, `tasks` the list of the thread
pool.  The pool's mutex is never held across a blocking call except the wait, so
adding and taking a task are steps.  `faults` bounds the calls that fail.  A
client that types sends up to `MaxLines` lines and then the word to leave, or
none.

**MyFtp** models the file server and its clients over the one queue.  `msgrcv`
takes the first message of the type asked for, `msgsnd` waits for room.  The
kernel limits a queue both in messages (`QueueMax`) and in bytes (`QueueBytes`, where
a message with content counts as one): MSG_EOT has no content, so only the first
limit stops it.  A file is a number of packets.  A client leaves when its user stops it or when a packet
cannot be written: the message it would end at is never sent (section 4).

**FifoChat** models a conversation between two of the programs of `IPC/pipe`:
first the calls each makes to get connected, then the lines.  `made` counts how
often a path was made, so that an open pipe whose path was removed and made
again is another pipe.  A character is known by its line and its place in it;
place 0 is the terminating zero.  `mkfifo_chat.c` and `mkfifowrite.c` do not look at
the result of `fgets`: at the end of their input `buffer` is left as it is and sent
again (`Repeating`), and if nothing was ever typed it is uninitialised and may hold
any line, "exit" included (`Buffered`).  `MaxSent` bounds how much is repeated.

**Exchange** runs one of the last three with the other two idle.

`MCMyTbf`, `MCMyPipe`, `MCAnyTimer`, `MCStatPool`, `MCRelay`, `MCRelayer` and
`MCExchange` give the constants their values for TLC.

## 3. Runs

| run | what it shows | bounds | states |
|---|---|---|---|
| `mytbf` | memory safety, no lost wake-up, exit frees all, refinement of TokenBucket | 2 threads, 3 blocks, 2 slots, cps above and below burst, sizes -1, 1, 3; symmetry | 203,841 |
| `mytbf_live` | a fetch succeeds, exit ends | 2 threads, 1 block, 1 slot | 2,926 |
| `mypipe` | wake-ups, barrier, byte count, register returns | 3 threads, a pipe of 2, counts 1 and 3, no write starts after 3 bytes | 295,979 |
| `server_pool` | counts, no missed state change, clients are served | 3 slots, 2 spare, 2 waiting connections, 1 fault | 285,831 |
| `anytimer` | punctuality, one-shot, cancellation, freeing, waitjob returns | 2 slots, delays -1, 0, 1, 2 | 46,967 |
| `stat_pool` | wake-ups, one place per directory, exact totals, ends or jams | 2 workers, queue of 2, 6 directories, 1 file | 289,212 |
| `relay` | order, no futile call, delivery, return | buffer of 2, 2 bytes and 1 byte, destination of 1, every ending | 179,768 |
| `relayer` | table, no blocking, delivery, jobs end | 3 callers, 2 slots, 1 byte one way | 179,124 |
| `threads` | final counts, tickets, turns, primes, limits, everyone gets on | 4 threads (2 or 3 where the code has so few), 2 rounds, capacity 2, numbers 10 to 13 | 49,979 |
| `tbf_signal` | never ahead of the clock, exact copy, the copy ends | cps 2, burst 5, buffer of 3, file of 8 | 52,385 |
| `exchange` | answers, tasks, packets, lines; every exchange concludes: clients leave, requests are served, chats end | 2 clients and 2 children or workers, up to 1 line with or without the word to leave, 1 fault; 3 clients, files of 2 packets or none, a queue of 2 messages of which 1 with content, 2 clients may leave; pipes of 3, reads of 2, lines of 0, 1 and 2, inputs empty, with and without exit, repeated up to 5 characters | 113,131 |
| `mypipe_eof` | a violation: see section 4 | | |

Why the bounds are enough for the cases that matter:

- `mytbf`: three blocks and two slots let one thread meet a full table while the
  other destroys, and the refill thread meet a slot that was freed and filled
  again; size 3 is more than any bucket holds, 1 leaves tokens behind, and with
  `<<2, 1>>` a tick overfills the bucket.
- `mypipe`: with three threads there is always a waiter of a second kind, a
  transfer of 3 through 2 cells is split, and a third byte has to wait for room.
- `server_pool`: with three slots and a minimum of two the parent adds servers
  when one becomes busy, fills the table, and kills when it has become idle again.
- `anytimer`: two jobs fire in the same tick and cancel each other; a third finds
  the table full.
- `stat_pool`: the root's four subdirectories overfill the queue of two, both
  workers can hold a subdirectory of a full queue, and the queue is empty twice
  while a worker still produces.
- `relay`: the destination takes one byte where the buffer has two, so writes are
  partial and meet EAGAIN.
- `relayer`: three callers and two slots give a refused job next to running ones.
- `threads`: two producers make four items for two places, so both kinds of
  thread wait; two rounds are enough for an addition to be lost by another's
  first and last; with four threads a wake-up can reach three wrong ones; the
  range has two primes, and as many numbers as there are threads, which the
  programs with a process per number need.  `PrimesPrinted` was checked with three
  threads for the numbers 2 to 11 too (60,668 states), where each thread, stride
  and range gets several and the range holds 2 and 4, which the programs treat
  differently; there `PrimesInit` leaves out the programs with a process per number.
- `tbf_signal`: the file is a multiple neither of the buffer nor of a tick's
  tokens, the bucket is full after three ticks and holds more than a buffer, the
  last read is short, so that tokens are returned, and each write may be cut in
  three.
- `exchange`: two clients meet in the backlog and in the task list, one of two
  workers is awake when a task comes.  The queue fills with requests, packets and
  ends of transfer: a packet has to wait where an end of transfer still fits, and
  an end of transfer waits when the queue has all its messages.  A line with its
  zero is longer than a read and fills the pipe, two short pieces share one.  A
  line is repeated until the pipe has been filled twice; a program that has repeated
  so much waits, until the other side, which goes on to the end of its own input,
  has left and SIGPIPE ends it.  TLC reaches the stuck server, both kinds of endless
  input and the jam.  The parts were also checked alone on larger instances: two
  lines for a client (173,003 states), a queue of 3 messages of which 2 with
  content (256,787) and 7 characters repeated (63,017).

Deadlock is not an error where the program may really stop: a pipe with nobody to
wake its readers, a server whose first fork fails or that nobody calls, a jammed
or finished statistics run, a relay that has returned or waits for input for
ever, a program that has ended, a ticket office whose lock is gone.

### Fairness

- MyTbf: a thread that can run is scheduled (weak), and a thread that waits for a
  mutex that is released again and again gets it (strong).  The refill thread
  sleeps between its passes, so this is what any real mutex gives.
  Nothing forces a client to call the library.
- MyPipe: a thread that was woken runs (weak); nobody is forced to call.
- ServerPool: parent and children run (weak); clients and failures are free.
- AnyTimer: the clock ticks and the handler ends (weak); between two ticks the
  program gets on inside a call (strong, since the handler disables it again and
  again).
- StatPool: main and the workers run (weak).
- Relay: the loop runs and the terminals show what they took (weak); input need
  not come and need not end.
- Relayer: as Relay, and strong fairness for the lock in `rel_addjob`.  The
  relayer unlocks and locks again at once without sleeping, so this is a real
  demand on the scheduler: with an unfair mutex `rel_addjob` may starve.
- Threads: strong fairness for every thread, failing calls excepted: mutexes and
  semaphores are not denied for ever to a thread that keeps asking.  Most of
  these programs yield or sleep after an unlock; the busy pool relies on
  `sched_yield`.  Spurious wake-ups are never forced, so that no lost wake-up is
  hidden by one.
- TbfSignal: the program runs, and the clock ticks while it is armed (weak).
  Failures and foreign signals are free.
- Servers: every process and thread runs, and clients that have connected go on
  (weak); no call has to fail.
- MyFtp: the server runs (weak); a client that waits for a message that others
  take first is served in turn (strong), as `msgrcv` queues its callers.
- FifoChat: both programs run, and somebody types until the input is over, however
  much there is to read meanwhile (weak): the endless lines of the other side must
  not keep `fifo_chat_b.c`, which looks at both in one `select`, from its terminal.

### Exceptions built into the properties

- `RelayReturns` excludes the select relay after an error in machine 21:
  `select/relay.c:155` tests `fsm21.state < STATE_AUTO` where the line above it
  has `>`, so nothing drives `STATE_EX` and `relay()` spins for ever.
  `NoFutileCall` excludes that machine too, which is driven whether ready or not.
- `EndsOrJams` allows the jam: all workers wait for room in the full queue.
- `WaitReturns` is about jobs with a positive delay.
- `ClientsServed` says that the pool goes on accepting.  A server that has
  accepted and not yet stored STATE_BUSY can be killed as idle, and its client is
  dropped.
- `SleepsInformed` says that a sleeping parent has not counted too few idle slots
  unless it has killed a child since its last scan.  `del_1_server` takes
  any slot that says IDLE and always decrements `idle_count`, also when the child
  became idle after the scan and was counted as busy: `idle_count` is then too low
  by one until the next signal, and `busy_count` too high.  TLC found this with a
  pool of at most one spare server in three slots (312,822 states), an instance
  too small for `ClientsServed`, whose only server may die.
- `FinalCounts` states what the programs without a proper lock really give: the
  counter without one ends between 2 and the full count, and the one with the
  spin lock, whose local count starts at the shared one, too high by whole
  multiples.  A thread of `thread/posix/add_race.c` that cannot open the file
  ends the whole process, and nothing is said then.
- `EveryoneGetsOn` leaves out the ticket office, which `TicketsSold` is about:
  the window that finds no ticket leaves with the lock, and a window that has
  not yet got it waits for ever.
- `PrimesPrinted` expects of `thread0.c`, whose `mark` is never set again, only
  the primes before the first composite, and of `primer_by_four.c` no 2.  Of the
  programs whose loop stops below the half (`BelowHalf`) it expects 4 as well: they
  never try its divisor 2.
- `CopyIsExact` is about the first BUFSIZE bytes of `mycat.c`, whose `pos` grows
  for ever.
- `ExchangesConclude` is `ClientsLeave`, `RequestsServed` and `ChatsConclude`.
- `ClientsLeave`: a client of `c_s/c.c` whose input ends without the word to
  leave, or is empty, sends nothing and waits for an answer.
- `RequestsServed`: until the server waits for room that messages nobody takes
  will not give.
- `ChatsConclude`: side b, started before side a removes and makes the pipes
  anew, may wait on a removed pipe; and `fifo_chat_a.c` holds `print_mutex`
  during a write that may block, so that two full pipes jam both sides (`Jammed`).
  After the end of its input `mkfifowrite.c` repeats its last line for ever, to a
  reader that waits for it to leave; `mkfifo_chat.c` does so until the other side has
  left and SIGPIPE ends it, or for ever if the line is empty, since a write of
  nothing raises no signal (`Endless`).  An uninitialised buffer that holds "exit" by
  chance ends them at once.

## 4. Where code and comments disagree

`mypipe_eof` (`WaitsForAWriter`) shows by a counterexample that the code does not
do what a comment in it says: in `opmap | 0 != 1` the comparison binds first;
`mypipe_unregister` always returns -1, the writer count never falls, and a reader
waits for a writer that has left, where the comment says that it waits only while
there is one.  The quotation is in `PROJECT.json`.

The models follow the code in these places too, which disagree with a comment, a
header or the evident purpose, and are not the subject of a run of their own:

- `mypipe.c:41`: `next()` returns `head % PIPESIZE` and does not advance, so all
  bytes go through one cell.
- `pool_dynamic/server.c:254`: the loop that kills the surplus compares with a
  count that its body decrements, and kills about half of it.
- `statistic_file_with_thread_pool.c:115`: `set_done` is said to wake all waiting
  threads, and broadcasts one of two conditions (the jam of `EndsOrJams`).
- `relayer.c:208`: `rel_addjob` ends without a return value although `relayer.h`
  promises the job id; jobs that are over keep their slots, since `rel_canceljob`
  and `rel_waitjob` are not defined.
- `anytimer.c:210`: a repeating job can be cancelled and not waited for, so its
  slot is lost.
- `IPC/xsi/sem/add_race.c:28`: `errno != EINTR || errno != EAGAIN` is always
  true, so an interrupted `semop` ends the process.
- `mytbf_sa/mytbf.c:59`: `module_unload` starts the timer again where `mytbf.c`
  stops it.
- `myftp_msg`: `protol2.h:34` calls a packet of length 0 the end of a file, the
  client waits for one, and the server sends a message of type MSG_EOT instead,
  which the client never receives: it does not end by itself.
- `mkfifowrite.c:44` says the message is sent with its terminating zero;
  `strlen(buffer)` does not count it, and lines run together (`LinesShown`).
- `mkfifo_chat.c:72` and `mkfifowrite.c:35` tell the user to type 'exit' to leave and
  ignore what `fgets` returns: at the end of the input they do not leave, but send
  the last line, or an uninitialised buffer, again and again (`ChatsConclude`).
- `slowcat2.c:11`: the comment says that `sig_atomic_t` makes the operations on
  `token` one instruction.  It does so for a load and for a store; `token--` is one
  of each, and the handler may come between them: a tick gets lost (`NeverAhead`).
- `primer_by_eight.c` and its larger copies write `primes8_*.txt` and so on and
  put together `primes_*.txt`, the files of `primer_by_four.c`.

## 5. Proofs

Each theorem is `Spec => []P` for a property `P` that a run of section 3 checks on
its instance, or for the module's `TypeOK` (`ImplementsTokenBucket` is
`Spec => IsTokenBucket`), for every value of the constants that satisfies the
assumptions of the module.  `P` is never
inductive: the module defines an invariant that is (`Inv`, with a name in front
where a module has several), proves one lemma for the initial states and one for
each action or program, and ends in a temporal step.  Each was first checked by
TLC on the instance of its run.

| module | theorem | property |
|---|---|---|
| `MyTbfProofs` | `TypeCorrect`, `MemorySafe`, `WakeupsArrive`, `ExitFreesAll`, `ImplementsTokenBucket` | `TypeOK`, `NoUseAfterFree`, `NoLostWakeup`, `NoLeakAtExit`, `IsTokenBucket` |
| `MyPipeProofs` | `TypeCorrect`, `WakeupsArrive`, `BytesConserved` | `TypeOK`, `NoLostWakeup`, `ByteConservation` |
| `ServerPoolProofs` | `TypeCorrect`, `CountsAddUp`, `ParentInformed` | `TypeOK`, `CountsMatch`, `SleepsInformed` |
| `SignalProofs` | `TypeCorrect`, `OnTime`, `AsAsked`; `BucketNeverAhead`, `CopyExact` | `TimerTypeOK`, `FiresOnTime`, `RunsAsAsked`; `NeverAhead`, `CopyIsExact` |
| `StatPoolProofs` | `TypeCorrect`, `WakeupsArrive`, `EveryDirectoryOnce` | `TypeOK`, `NoLostWakeup`, `WalkExact` |
| `RelayProofs` | `BytesInOrder`, `CallsNotFutile`; `TableExact`, `OverDelivered` | `InOrder`, `NoFutileCall`; `JobsInTable`, `OverMeansDelivered` |
| `ThreadsProofs` | `LettersWritten`, `CountsFinal`, `TicketsAllSold`, `LimitsKept`; `AllPrimesPrinted` | `LettersInTurn`, `FinalCounts`, `TicketsSold`, `WithinLimits`; `PrimesPrinted` |
| `ExchangeProofs` | `AnswersArrive`, `TasksTaken`; `PacketsArrive`; `ChatShown` | `AnsweredInFull`, `NoTaskForgotten`; `PacketsOnce`; `LinesShown` |

### Token bucket (MyTbfProofs)

Assumed: parameters are naturals, the table has a slot, `NULL` and the refill
thread are none of the threads and blocks (`TbfAssumption`), and `NULL` is no
bucket record (`NullAssumption`).  `Inv` adds to the properties:

- `MutexInv`: who holds which mutex, by program counter.  It gives mutual
  exclusion between `thr_alarm`, `mytbf_init` and `mytbf_destroy`.
- `TableInv`: a bucket in `job[]` is allocated and knows its slot.
- `PointerInv`: a thread inside a call points to a published bucket, or to an
  allocated one that is in no slot (before `place`, after `unlink`).
- `OwnerInv`: a thread that creates or destroys a bucket is alone with it, so
  `free` takes it from nobody.
- `AloneInv`: once exit runs no other thread is inside the library.
- `CondInv`: the wait set of a bucket holds waiters of that bucket, and is empty
  when there are tokens.
- `SizeInv`: levels and what clients hold stay within `burst`.
- `FreshInv`: an unpublished bucket is as `mytbf_init` made it.
- `UnloadInv`: every allocated block is published or in the hands of a thread
  that publishes or frees it, and `module_unload` has emptied the slots below its
  index.

For the refinement, `bucketBar` shows a bucket as existing while it is in
`job[]`.  `InitPlace` is Create, `AlarmTick` is Refill, `FetchTake` is Take,
`ReturnToken` is Give, `DestroyUnlink` is Destroy, and every other step leaves
`bucketBar` alone: that `free` and the initialisation of a new block do so is
where `Inv` is needed.

### Pipe (MyPipeProofs)

Assumed: `PIPESIZE` positive, counts natural (`PipeAssumption`).  A thread that
waits in a read or a write is woken by the broadcast at the end of every transfer
and every registration.  That nobody is missed rests on `RoleInv`, which says of a
registered waiter that it has met the other side, so its call does not return
early; and on `FreshInv`: `mypipe_init` may reset the counters only because
nobody is inside before it.  `BytesConserved` says that `datasize` is what was
written and not yet read, and between 0 and `PIPESIZE`: a read stops at the empty
buffer and a write at the full one, so nothing is delivered that was not written.

### Server pool (ServerPoolProofs)

Assumed: `MAXCLIENT` positive, the limits natural (`PoolAssumption`).
`SleepsInformed` is about a sleeping parent; what is inductive holds at every slot
of a scan.  While no signal is pending `UpperBound` says that the parent has
counted no more than the slots that are idle or whose child is about to say it is
busy (`MayCount`), `LowerBound` that it has counted at least those that are idle
and have said so (`MustCount`).  A child that changes its state first leaves the
one set without entering the other, and only its signal ends that.  `ScanSum` ties
the two sums of the scan to the slots passed, which gives `CountsMatch` when the
scan ends.

### Timer (SignalProofs)

Assumed: `JOB_MAX` positive, delays are integers (`TimerAssumption`).
`CountdownInv`: for a running job, the ticks since it was added or last ran and
`time_remain` add up to its delay.  `GapInv` and `StateInv` are what the handler
makes of it; `WaitingInv` is what `at_canceljob` and `at_waitjob` know of their job
between a test and what follows it, whatever the handler does in between.

### Statistics (StatPoolProofs)

Assumed: a finite, non-empty set of workers, a queue of at least one place, and a
tree: no entry is in two directories, and the root is in none (`StatAssumption`).  A directory is in one place (`PlaceInv`: a cell of the queue,
a worker that walks it, a worker that carries it, or dealt with), so no two
workers read the same; what they have still to read is new (`TodoInv`); what was
seen belongs to a directory that is read or was dealt with (`SeenInv`).  With
`CountInv` these give the exact totals.  `NoLostWakeup` is inductive with
`SleepInv`; `RingInv` and `EmptyInv` are the queue's.

### Signals (SignalProofs)

Assumed: positive rate, burst and buffer, a file of any length (`SlowAssumption`).  `BucketInv` says
for every program point at which the handler may run what `token`, or the register
between a load and its store, can be: never more than the bucket with atomic
operations (`ideal`), and exactly that while no tick was lost.  `CopyInv` says what
the rest of `buf[]` still owes to the output.

### Relays (RelayProofs)

Assumed: a positive buffer (`RelAssumption`); for the library a slot in the table,
and `NULL`, the callers and the relayer thread distinct (`RelayerAssumption`).
`LinkInv` is kept by every step of `fsm_driver` and of the terminals, a lemma that
both specifications use: it adds to the order of the bytes what a machine in
STATE_EX has delivered.  `ReadyInv`: the events reported for machine 21 are still
true after machine 12 was driven.  For the library `MutexInv` gives mutual
exclusion of `rel_addjob` and the walk, `FoundInv` that the slot found is still
free when it is filled, `TableInv` that jobs and slots correspond one to one.

### Threads (ThreadsProofs)

Assumed: at least three threads and two rounds, positive capacity, room in `out`
for every ticket (`ThreadsAssumption`).  A behaviour runs one program, so `Inv` has a
part for each, with a lemma for each; `OwnStep` says that a step is one of the
program that runs and `ProgFixed` that this program stays.  The parts that carry the
argument:

- `RingMutexInv`: all mutexes of the ring but one are locked, or all are and one
  thread is past its own; `RingCondInv`: `num` is the thread after the last letter.
- `CountInv`: the file holds the number of threads that have written it, and the
  one about to write has read exactly that.
- `WithoutLockInv`: no value read is more than what was added; a thread in a later
  round has read 1 at least, so that whoever stores last stores 2 at least.
  `SpinInv`: after the t-th addition the count is t to 2^t - 1 times `Rounds`.
- `TicketInv`: all tickets above `n`, and above what a window has read, are sold;
  while tickets are left somebody sells or the lock can be taken.
- `SemPcInv`: the two semaphores with the threads between one and the other add up
  to the buffer; `MySemInv`, `SemInv`, `BufferInv`, `RwLockInv` likewise.

*Searches.*  Assumed: the range begins at 2 or later (in the source at 2 or at
30000000; `PrimesAssumption`).  It may be longer than there are threads, as in the
pools, in `second.c` and in `thread4.c`.  Only the two programs that fork a process
for every number (`PerNumber`) need as many processes as numbers: `PrimesInit` says
so for them, and `ForkInv` keeps it.  Of `primer_by_four.c` it says that no range
holds 2, as in all its tables.
`PrimesInv` has a part for each way of searching, and each says the same: here is
the set of numbers found so far, and `out` counts 1 for each of them and 0 for the
others (`Only`).  What the set is depends on how the work is shared out:

- `AloneInv`, `ByOneInv`, `ForkInv`: the numbers below the loop variable, or those
  whose process has been forked and has printed.
- `StrideInv`: each of the N processes has the numbers of one remainder modulo N, so
  every number belongs to one process and to no other.
- `RangeInv`: the four ranges of `primer_by_four.c` are disjoint (`RangesApart`) and
  cover the odd numbers (`RangesCover`, from a least number that is in none).
- `SecondInv`, `PoolInv`: a number that was taken is with one thread (`Apart`), and
  one that was given out and is with no thread has been dealt with (`Handed`).

The loops that test a number differ, and a lemma for each says that it agrees with
`Prime`: a divisor has a cofactor (`Cofactor`), the smaller of the two is at most
the root, the other at most the half (`RootFact`, `OddRootFact`, `HalfFact`), and
below the half only 4 loses its divisor (`BelowHalfFact`).

### Exchanges (ExchangeProofs)

The three programs of `Exchange` share no variable, so each has an inductive
invariant of its own and a step of the others leaves it alone.

*Servers.*  Assumed: a process at least, and -1, which a failed
accept returns, is no client (`ServersAssumption`); the number of lines
(`MaxLines`) is any.  `ServersInv` holds
`NoTaskForgotten` as it stands, and for a run without faults:

- `ServedInv`: a connection is in the backlog once, and after accept it waits in
  the list of tasks or is served by one process, which keeps it open.  This is what
  makes closing the parent's copy after fork harmless.
- `AccountInv`: for each client what it has asked, what is on the way in both
  directions and what it has got add up (`StampInv` for the servers that send one
  time stamp, `TalkInv` for those that answer line by line), with one case for each
  point between a line and its answer.

`AnsweredInFull` is that account for a client that is done.

*File transfer.*  Assumed: sizes natural or -1 for a file that cannot be opened, a
queue with room for a message by either limit (`MyFtpAssumption`).  `FtpInv` adds to `PacketsOnce`
only `RequestInv`, a client asks once and its file is sent once, so that the
server's counter for a file starts at zero when its first packet is sent.  The work
is in lemmas about the queue: what removing the first message for a client, or
appending one, does to the packets of every client, and that a packet that leaves
the queue enters exactly one file or is lost.

*Chats.*  Assumed: reads of at least one character, lines that with their zero fit
into a pipe (`FifoChatAssumption`); a last line may be repeated any number of times
(`MaxSent`).  `ChatInv` says of each side that what it
has not shown is a suffix of what the other has sent (`Suffix`), that what it has
shown comes, in order, from before that suffix (`Drawn`), and that what it showed at
once is of one line (`OneLine`), because in what was sent there is a zero between
any two lines (`Ordered`).  Writers that send no zero get the stronger statement:
what was shown, followed by what is in the pipe, is what was sent.  `FlattenSeq`,
the characters on a screen, is recursive over the lines shown; that it is a
function to sequences and that it appends the last line (`FlattenIs`, `FlatAppend`)
is proved from a least counterexample, for which the library's theorem on
well-founded minima suffices.

The proofs led to five corrections.  In `Servers` and `Primes` two arms of a CASE
overlapped, where TLC takes the first and the logic leaves open which; they are
disjoint now.  A union in `MyFtp` has the parentheses its reading needs.  That -1
is no client, and that what is typed is sequences that fit, was relied upon and is
now assumed.  And `PrimesPrinted`, checked by TLC on a range above 4, was not true
of a range that holds 4: it now says what the loops below the half do with it.

### Only model-checked

All liveness properties: fairness and ENABLED are out of the prover's reach.  Every
invariant that a run checks, apart from the one that is expected to fail, has a
theorem.

## 6. Not modelled, and what is left out of the models

Left out of the modelled programs: messages, time stamps and status lines;
opening and configuring terminals, files and sockets; the text of paths; malloc
failures (except where the code undoes work after one); `code_counter`'s line
counting, which touches no shared state but the counters; 32-bit overflow of
counters, which no run of these programs reaches; a `pthread_create` that fails
while a pool or a ring is being set up; the `alarm(3)` that ends the rings, whose
promises are about the time before it; SIGPIPE in the thread-pool server and
several lines in one read of `handle_client`, for clients that send a line
without waiting for the answer to the one before; message queues that are removed
while in use; the lengths of messages in a queue, each of which counts as one, or
as none if it is empty.

Programs that are not modelled:

- `IO/FileIO/filecopy`: `client.c:71` initialises an array member from a pointer
  and does not compile.
- `IPC/socket/dgram`, `IPC/xsi/msg/basic`, `IPC/xsi/shm`, `mmap_share.c`, the
  multicast and broadcast variants: one call after the other, with no state of
  their own; what happens is up to the kernel.
- `myshell.c`, the daemons, the fork, exec, signal and process-group
  demonstrations: thin wrappers of single system calls.
- `homework/statistic_file.c`, `mydu.c`, `mycp.c`, the directory and standard I/O
  exercises, `openssl`: sequential programs whose behaviour is that of the
  library functions they call.  `statistic_file.c` walks the same tree as
  StatPool with one thread.

## 7. Plan

Done, in this order: TokenBucket, MyTbf with proofs, MyPipe, ServerPool,
AnyTimer, StatPool, RelFsm with Relay and Relayer; then TbfSignal, Pthreads with
Counters, Turns, Buffers, Primes and Threads, and Servers, MyFtp and FifoChat with
Exchange.

All their invariants have proofs, as has the refinement of TokenBucket.  Liveness
stays with TLC.
