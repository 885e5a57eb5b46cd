------------------------------ MODULE Servers ------------------------------
(***************************************************************************)
(* Four ways to serve stream sockets, with their clients:                  *)
(*   "static"  stream/pool_static/server.c: children that all accept;      *)
(*   "fork"    stream/basic/server.c: a child for every connection;        *)
(*   "chat"    Newer/c_s/s.c: a child for every conversation, which then   *)
(*             goes on as one more accepting server;                       *)
(*   "pool"    Newer/server.c: one thread accepts, others talk.            *)
(* A connection is named after its client.  It is closed when the last     *)
(* descriptor for it in any server process is: only then does the client   *)
(* read the end of the stream.                                             *)
(***************************************************************************)
EXTENDS Integers, Sequences, FiniteSets

CONSTANTS Clients,
          PROCNUM,     \* children, or threads, beside process 0
          MaxLines,    \* bound: lines a client sends before it leaves
          MaxFaults    \* bound: calls of accept, fork or send that fail

ASSUME ServersAssumption ==
    /\ PROCNUM \in Nat \ {0} /\ MaxLines \in Nat /\ MaxFaults \in Nat
    /\ -1 \notin Clients      \* what a failed accept returns is no connection

Procs == 0 .. PROCNUM
None  == -1

VARIABLES
  prog,
  spc, cur,      \* [Procs -> point], [Procs -> the client it is at, or None]
  open,          \* [Clients -> the processes with a descriptor for it]
  backlog,       \* connections not yet accepted
  tasks,         \* "pool": pool.task_head..., the connections (or None) to talk to
  up, down,      \* [Clients -> messages on their way to the server, to the client]
  cpc, say,      \* [Clients -> point], [Clients -> what it has still to say]
  got, asked,    \* history, per client: answers read; answers due
  faults

server  == <<spc, cur, open, tasks>>
streams == <<up, down>>
client  == <<cpc, say, got, asked>>
vars    == <<prog, server, backlog, streams, client, faults>>

\* What somebody types at a client: lines, and then the word to leave or the
\* end of the input.
Lines(k) == [i \in 1 .. k |-> "line"]
Inputs   == {Lines(k) : k \in 0 .. MaxLines} \cup {Append(Lines(k), "bye") : k \in 0 .. MaxLines}

Init ==
    /\ prog \in {"static", "fork", "chat", "pool"}
    /\ \E made \in 0 .. PROCNUM :      \* "static": fork fails after so many
          spc = [p \in Procs |->
            CASE prog = "static" /\ p = 0 -> IF made = PROCNUM THEN "wait" ELSE "exited"
              [] prog = "static" /\ p # 0 -> IF p <= made THEN "accept" ELSE "exited"
              [] prog # "static" /\ p = 0 -> "accept"
              [] prog = "pool" /\ p # 0   -> "take"
              [] OTHER                    -> "free"]
    /\ cur = [p \in Procs |-> None]
    /\ open = [c \in Clients |-> {}]
    /\ backlog = <<>> /\ tasks = <<>>
    /\ up = [c \in Clients |-> <<>>] /\ down = [c \in Clients |-> <<>>]
    /\ cpc = [c \in Clients |-> "connect"]
    /\ say \in [Clients -> IF prog \in {"chat", "pool"} THEN Inputs ELSE {<<>>}]
    /\ got = [c \in Clients |-> 0] /\ asked = [c \in Clients |-> 0]
    /\ faults = 0

\* No server runs, and nobody connects.
Idle ==
    /\ prog = "fork"
    /\ spc = [p \in Procs |-> "exited"] /\ cur = [p \in Procs |-> None]
    /\ open = [c \in Clients |-> {}]
    /\ backlog = <<>> /\ tasks = <<>>
    /\ up = [c \in Clients |-> <<>>] /\ down = [c \in Clients |-> <<>>]
    /\ cpc = [c \in Clients |-> "done"] /\ say = [c \in Clients |-> <<>>]
    /\ got = [c \in Clients |-> 0] /\ asked = [c \in Clients |-> 0]
    /\ faults = 0

Accepted(c) == cpc[c] # "connect" /\ \A k \in DOMAIN backlog : backlog[k] # c
Eof(c)      == Accepted(c) /\ open[c] = {}

At(p, a, b) == spc[p] = a /\ spc' = [spc EXCEPT ![p] = b]

-----------------------------------------------------------------------------
\* The steps the servers are made of.

accept(p, b) ==
    /\ At(p, "accept", b)
    /\ backlog # <<>>
    /\ cur' = [cur EXCEPT ![p] = Head(backlog)]
    /\ open' = [open EXCEPT ![Head(backlog)] = {p}]
    /\ backlog' = Tail(backlog)
    /\ UNCHANGED <<prog, tasks, streams, client, faults>>

\* A call fails and the process exits: its descriptors are closed.
ExitOnError(p, a) ==
    /\ faults < MaxFaults /\ faults' = faults + 1
    /\ At(p, a, "exited")
    /\ open' = [c \in Clients |-> open[c] \ {p}]
    /\ UNCHANGED <<prog, cur, tasks, backlog, streams, client>>

\* fork(): child q is at b with the connection, and so is still the parent.
fork(p, a, q, b) ==
    /\ spc[p] = a /\ spc[q] = "free"
    /\ spc' = [spc EXCEPT ![p] = "close", ![q] = b]
    /\ cur' = [cur EXCEPT ![q] = cur[p]]
    /\ open' = [open EXCEPT ![cur[p]] = @ \cup {q}]
    /\ UNCHANGED <<prog, tasks, backlog, streams, client, faults>>

\* close(sd2) by p, whose descriptor is listed under holder.
close(p, b, holder) ==
    /\ At(p, "close", b)
    /\ open' = [c \in Clients |-> IF c = cur[p] THEN open[c] \ {holder} ELSE open[c]]
    /\ cur' = [cur EXCEPT ![p] = None]
    /\ UNCHANGED <<prog, tasks, backlog, streams, client, faults>>

Send(p, message) == down' = [down EXCEPT ![cur[p]] = Append(@, message)]

\* server_job of the first two: the time stamp.
server_job(p) ==
    /\ At(p, "job", "close")
    /\ Send(p, "stamp")
    /\ UNCHANGED <<prog, cur, open, tasks, backlog, up, client, faults>>

-----------------------------------------------------------------------------
\* The servers.

\* stream/pool_static/server.c: server_loop, and the parent's waits.
server_loop(p) ==
    \/ p # 0 /\ (accept(p, "job") \/ ExitOnError(p, "accept"))
    \/ server_job(p) \/ ExitOnError(p, "job")
    \/ close(p, "accept", p)
    \/ /\ \A q \in Procs \ {0} : spc[q] = "exited"
       /\ p = 0 /\ At(p, "wait", "exited")
       /\ UNCHANGED <<prog, cur, open, tasks, backlog, streams, client, faults>>

\* Variant: the parent keeps its descriptor.
basic_leak(p) ==
    \/ accept(p, "fork") \/ ExitOnError(p, "accept")
    \/ \E q \in Procs : fork(p, "fork", q, "job")
    \/ ExitOnError(p, "fork")
    \/ server_job(p) \/ ExitOnError(p, "job")
    \/ p = 0 /\ close(p, "accept", None)
    \/ p # 0 /\ close(p, "zombie", p)

\* stream/basic/server.c: both sides of the fork close the connection; nobody
\* waits for a child, so its place in the process table is not free again.
basic_server(p) ==
    \/ accept(p, "fork") \/ ExitOnError(p, "accept")
    \/ \E q \in Procs : fork(p, "fork", q, "job")
    \/ ExitOnError(p, "fork")
    \/ server_job(p) \/ ExitOnError(p, "job")
    \/ p = 0 /\ close(p, "accept", p)
    \/ p # 0 /\ close(p, "zombie", p)

\* One round of a conversation: a line is answered; the word to leave (which
\* s.c answers and server.c does not) and the end of the stream end it.
Talk(p, lastword) ==
    /\ cur[p] # None
    /\ \/ /\ up[cur[p]] # <<>>
          /\ spc[p] = "talk"
          /\ up' = [up EXCEPT ![cur[p]] = Tail(@)]
          /\ IF Head(up[cur[p]]) = "bye"
               THEN At(p, "talk", "close") /\ IF lastword THEN Send(p, "bye") ELSE UNCHANGED down
               ELSE Send(p, "answer") /\ UNCHANGED spc
       \/ /\ up[cur[p]] = <<>> /\ cpc[cur[p]] = "done"
          /\ At(p, "talk", "close")
          /\ UNCHANGED streams
    /\ UNCHANGED <<prog, cur, open, tasks, backlog, client, faults>>

\* Variant: the last word is not answered.
chat_silent(p) ==
    \/ accept(p, "fork") \/ ExitOnError(p, "accept")
    \/ \E q \in Procs : fork(p, "fork", q, "talk")
    \/ ExitOnError(p, "fork")
    \/ Talk(p, FALSE)
    \/ close(p, "accept", p)

\* Newer/c_s/s.c: after its conversation the child is at accept(), as its
\* parent is.
chat_server(p) ==
    \/ accept(p, "fork") \/ ExitOnError(p, "accept")
    \/ \E q \in Procs : fork(p, "fork", q, "talk")
    \/ ExitOnError(p, "fork")
    \/ Talk(p, TRUE)
    \/ close(p, "accept", p)

\* Newer/server.c.  The mutex is held from the first to the last access to the
\* list, so adding and taking a task are one step each.

\* Variant: a worker is only woken for the first task of an empty list.
pool_add_lazy(p) ==
    /\ p = 0 /\ spc[0] = "add"
    /\ tasks' = Append(tasks, cur[0])
    /\ \E q \in IF tasks = <<>> THEN {q \in Procs : spc[q] = "asleep"} \cup {0} ELSE {0} :
          /\ q = 0 => tasks # <<>> \/ \A r \in Procs : spc[r] # "asleep"
          /\ spc' = [spc EXCEPT ![0] = "accept", ![q] = IF q = 0 THEN "accept" ELSE "take"]
    /\ UNCHANGED <<prog, cur, open, backlog, streams, client, faults>>

\* pthread_cond_signal wakes one sleeper, if there is one.
pool_add_task(p) ==
    /\ p = 0 /\ spc[0] = "add"
    /\ tasks' = Append(tasks, cur[0])
    /\ LET S == {q \in Procs : spc[q] = "asleep"} IN
       \E q \in IF S = {} THEN {0} ELSE S :
          spc' = [spc EXCEPT ![0] = "accept", ![q] = IF q = 0 THEN "accept" ELSE "take"]
    /\ UNCHANGED <<prog, cur, open, backlog, streams, client, faults>>

\* worker_thread: shutdown is never set.
worker_thread(p) ==
    /\ p # 0
    /\ \/ /\ tasks = <<>>
          /\ At(p, "take", "asleep")
          /\ UNCHANGED <<cur, tasks>>
       \/ /\ tasks # <<>>
          /\ cur' = [cur EXCEPT ![p] = Head(tasks)]
          /\ tasks' = Tail(tasks)
          /\ At(p, "take", "talk")
    /\ UNCHANGED <<prog, open, backlog, streams, client, faults>>

\* pthread_cond_wait may return though nobody signalled.
SpuriousWakeup(p) ==
    /\ At(p, "asleep", "take")
    /\ UNCHANGED <<prog, cur, open, tasks, backlog, streams, client, faults>>

\* A failed accept is not noticed: -1 is queued like a descriptor, and the
\* worker's first read from it fails.
accept_unchecked(p) ==
    /\ faults < MaxFaults /\ faults' = faults + 1
    /\ At(p, "accept", "add")
    /\ cur' = [cur EXCEPT ![p] = None]
    /\ UNCHANGED <<prog, open, tasks, backlog, streams, client>>

handle_client(p) ==
    \/ Talk(p, FALSE)
    \/ /\ cur[p] = None /\ At(p, "talk", "close")
       /\ UNCHANGED <<prog, cur, open, tasks, backlog, streams, client, faults>>
    \/ close(p, "take", 0)

thread_pool(p) ==
    \/ p = 0 /\ (accept(p, "add") \/ accept_unchecked(p))
    \/ pool_add_task(p) \/ worker_thread(p) \/ handle_client(p)

Server(p) ==
    \/ prog = "static" /\ server_loop(p)
    \/ prog = "fork"   /\ basic_server(p)
    \/ prog = "chat"   /\ chat_server(p)
    \/ prog = "pool"   /\ thread_pool(p)

-----------------------------------------------------------------------------
\* The clients.

connect(c) ==
    /\ cpc[c] = "connect"
    /\ cpc' = [cpc EXCEPT ![c] = IF prog \in {"chat", "pool"} THEN "say" ELSE "scan"]
    /\ asked' = [asked EXCEPT ![c] = IF prog \in {"chat", "pool"} THEN 0 ELSE 1]
    /\ backlog' = Append(backlog, c)
    /\ UNCHANGED <<prog, server, streams, say, got, faults>>

\* stream/basic/client.c and its copy in pool_static: the white space at the
\* end of FMT_STAMP makes fscanf read on to the end of the stream.
scan_stamp(c) ==
    /\ cpc[c] = "scan" /\ Eof(c)
    /\ cpc' = [cpc EXCEPT ![c] = "done"]
    /\ got' = [got EXCEPT ![c] = Len(down[c])]
    /\ down' = [down EXCEPT ![c] = <<>>]
    /\ UNCHANGED <<prog, server, backlog, up, say, asked, faults>>

\* Newer/c_s/c.c: send a line, read an answer.  The result of fgets(stdin) is
\* not looked at: when the input is over nothing is sent, and the client waits
\* for the answer to it.  The client of "pool" is not in the repository; it
\* leaves when its input is over, and waits for the end after its last word.
say_line(c) ==
    /\ cpc[c] = "say"
    /\ IF say[c] = <<>>
         THEN /\ cpc' = [cpc EXCEPT ![c] = IF prog = "pool" THEN "done" ELSE "read"]
              /\ UNCHANGED <<say, up, asked>>
         ELSE /\ up' = [up EXCEPT ![c] = Append(@, Head(say[c]))]
              /\ asked' = [asked EXCEPT ![c] =
                             IF prog = "pool" /\ Head(say[c]) = "bye" THEN @ ELSE @ + 1]
              /\ say' = [say EXCEPT ![c] = Tail(@)]
              /\ cpc' = [cpc EXCEPT ![c] = IF Head(say[c]) = "bye" THEN "leave" ELSE "read"]
    /\ UNCHANGED <<prog, server, backlog, down, got, faults>>

read_answer(c) ==
    /\ cpc[c] \in {"read", "leave"}
    /\ \/ /\ down[c] # <<>>
          /\ down' = [down EXCEPT ![c] = Tail(@)]
          /\ got' = [got EXCEPT ![c] = @ + 1]
          /\ cpc' = [cpc EXCEPT ![c] = IF cpc[c] = "leave" THEN "done" ELSE "say"]
       \/ /\ down[c] = <<>> /\ Eof(c)
          /\ cpc' = [cpc EXCEPT ![c] = "done"]
          /\ UNCHANGED <<down, got>>
    /\ UNCHANGED <<prog, server, backlog, up, say, asked, faults>>

Client(c) == connect(c) \/ scan_stamp(c) \/ say_line(c) \/ read_answer(c)

Next == (\E p \in Procs : Server(p) \/ SpuriousWakeup(p)) \/ (\E c \in Clients : Client(c))

\* The scheduler runs every process and thread; clients that have connected go
\* on (nobody stays away from the keyboard for ever).  No call has to fail.
Fairness ==
    /\ \A p \in Procs : WF_vars(Server(p) /\ faults' = faults)
    /\ \A c \in Clients : WF_vars(Client(c))

Spec == Init /\ [][Next]_vars /\ Fairness

-----------------------------------------------------------------------------
\* A client that is done has read one answer, no more and no less, for
\* everything it asked, unless a call of the server failed: no connection is
\* dropped, served twice or answered by two processes.
AnsweredInFull ==
    \A c \in Clients : cpc[c] = "done" /\ faults = 0 => got[c] = asked[c] /\ down[c] = <<>>

\* No worker of the thread pool sleeps while there is a task that no worker is
\* on its way to take, although a signal may go to a worker that finds the
\* task taken by another.
NoTaskForgotten ==
    (\E p \in Procs : spc[p] = "asleep") =>
       Len(tasks) <= Cardinality({p \in Procs : spc[p] = "take"})

\* While no call fails every client is served to its end and its connection is
\* closed on the server's side too, except that c.c waits for ever when its
\* input ends without the word to leave, and that the static pool needs a child.
Patient(c) ==
    /\ prog = "chat" => say[c] # <<>> /\ say[c][Len(say[c])] = "bye"
    /\ prog = "static" => \E p \in Procs : spc[p] = "accept"
ClientsLeave ==
    \A c \in Clients : Patient(c) => <>(faults > 0 \/ (cpc[c] = "done" /\ open[c] = {}))
=============================================================================
