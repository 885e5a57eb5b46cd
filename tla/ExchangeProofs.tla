--------------------------- MODULE ExchangeProofs ---------------------------
(***************************************************************************)
(* Proofs about Exchange: every answer, packet and line arrives once and   *)
(* in order, for any number of clients, processes, packets and lines, and  *)
(* no task of the thread pool is forgotten.  The three programs do not run *)
(* together, so each has an inductive invariant over its own variables.    *)
(***************************************************************************)
EXTENDS Exchange, FiniteSetTheorems, SequenceTheorems, WellFoundedInduction, TLAPS

-----------------------------------------------------------------------------
(***************************************************************************)
(* The invariant of Servers.                                               *)
(***************************************************************************)

Words    == {"line", "bye"}
Answers  == {"stamp", "answer", "bye"}

ServersTypeOK ==
    /\ prog \in {"static", "fork", "chat", "pool"}
    /\ spc = [p \in Procs |-> spc[p]]
    /\ cur \in [Procs -> Clients \cup {None}]
    /\ open \in [Clients -> SUBSET Procs]
    /\ backlog \in Seq(Clients)
    /\ tasks \in Seq(Clients \cup {None})
    /\ up \in [Clients -> Seq(Words)]
    /\ down \in [Clients -> Seq(Answers)]
    /\ cpc = [c \in Clients |-> cpc[c]]
    /\ say \in [Clients -> Seq(Words)]
    /\ got \in [Clients -> Nat] /\ asked \in [Clients -> Nat]
    /\ faults \in Nat

\* Where the processes of each program can be.
Points(g, p) ==
    IF g = "static"    THEN IF p = 0 THEN {"wait", "exited"} ELSE {"accept", "job", "close", "exited"}
    ELSE IF g = "fork" THEN IF p = 0 THEN {"accept", "fork", "close", "exited"}
                            ELSE {"free", "job", "close", "zombie", "exited"}
    ELSE IF g = "chat" THEN {"accept", "fork", "talk", "close", "free", "exited"}
    ELSE                    IF p = 0 THEN {"accept", "add"} ELSE {"take", "asleep", "talk", "close"}

PointsInv == \A p \in Procs : spc[p] \in Points(prog, p)

\* Process p has still to serve c, or has served it and will close it.
Serves(p, c) == cur[p] = c /\ spc[p] \in {"job", "fork", "talk", "add"}
Keeps(p, c)  == cur[p] = c /\ spc[p] \in {"job", "fork", "talk", "add", "close"}

Waiting(c) == \E k \in DOMAIN tasks : tasks[k] = c
Pending(c) == Waiting(c) \/ \E p \in Procs : Serves(p, c)

\* The process under which p's descriptor is listed.
Holder(p) == IF prog = "pool" THEN 0 ELSE p

\* A connection is accepted once, and then served by one process, which keeps
\* it open.
ServedInv ==
    /\ \A j, k \in DOMAIN backlog : backlog[j] = backlog[k] => j = k
    /\ \A k \in DOMAIN backlog : cpc[backlog[k]] # "connect"
    /\ \A c \in Clients, p \in Procs : Keeps(p, c) => Accepted(c)
    /\ \A c \in Clients : Waiting(c) => Accepted(c)
    /\ \A c \in Clients, p \in Procs : Serves(p, c) => Holder(p) \in open[c]
    /\ \A c \in Clients : Waiting(c) => 0 \in open[c]
    /\ \A c \in Clients, p, q \in Procs : Serves(p, c) /\ Serves(q, c) => p = q
    /\ prog = "pool" =>
         /\ \A c \in Clients, p, q \in Procs : Keeps(p, c) /\ Keeps(q, c) => p = q
         /\ \A c \in Clients, p \in Procs : Keeps(p, c) => ~Waiting(c)
         /\ \A j, k \in DOMAIN tasks : tasks[j] = tasks[k] => j = k
         /\ \A k \in DOMAIN tasks : tasks[k] # None
    /\ prog # "pool" => tasks = <<>>
    /\ \A p \in Procs : spc[p] \in {"job", "fork", "talk", "add"} => cur[p] # None

\* What each client has sent, is owed and has received.
StampInv(c) ==
    /\ cpc[c] \in {"connect", "scan", "done"}
    /\ cpc[c] = "scan" =>
         /\ asked[c] = 1
         /\ Pending(c) \/ ~Accepted(c) => down[c] = <<>>
         /\ ~Pending(c) /\ Accepted(c) => Len(down[c]) = 1
    /\ cpc[c] = "done" => ~Pending(c) /\ Accepted(c) /\ down[c] = <<>> /\ got[c] = asked[c]

TalkInv(c) ==
    /\ cpc[c] \in {"connect", "say", "read", "leave", "done"}
    /\ cpc[c] \in {"say", "done"} => up[c] = <<>> /\ down[c] = <<>> /\ asked[c] = got[c]
    /\ cpc[c] = "read" =>
         \/ up[c] = <<>> /\ down[c] = <<>> /\ asked[c] = got[c]
         \/ up[c] = <<"line">> /\ down[c] = <<>> /\ asked[c] = got[c] + 1
         \/ up[c] = <<>> /\ Len(down[c]) = 1 /\ asked[c] = got[c] + 1
    /\ cpc[c] = "leave" =>
         \/ prog = "chat" /\ up[c] = <<"bye">> /\ down[c] = <<>> /\ asked[c] = got[c] + 1
         \/ prog = "chat" /\ up[c] = <<>> /\ Len(down[c]) = 1 /\ asked[c] = got[c] + 1
         \/ prog = "pool" /\ up[c] \in {<<>>, <<"bye">>} /\ down[c] = <<>> /\ asked[c] = got[c]
    /\ Accepted(c) /\ (cpc[c] \in {"say", "read"} \/ (cpc[c] = "leave" /\ up[c] # <<>>)) => Pending(c)

AccountInv ==
    \A c \in Clients :
      /\ cpc[c] = "connect" => up[c] = <<>> /\ down[c] = <<>> /\ got[c] = 0
      /\ prog \in {"static", "fork"} => StampInv(c)
      /\ prog \in {"chat", "pool"} => TalkInv(c)

ServersInv ==
    /\ ServersTypeOK /\ PointsInv /\ NoTaskForgotten
    /\ faults = 0 => ServedInv /\ AccountInv
-----------------------------------------------------------------------------
(***************************************************************************)
(* Sequences as queues.                                                    *)
(***************************************************************************)

LEMMA TailFact ==
  ASSUME NEW S, NEW s \in Seq(S), s # <<>>
  PROVE  /\ Len(s) \in Nat \ {0} /\ DOMAIN s = 1 .. Len(s)
         /\ Head(s) = s[1] /\ Head(s) \in S
         /\ Tail(s) \in Seq(S) /\ Len(Tail(s)) = Len(s) - 1
         /\ DOMAIN Tail(s) = 1 .. Len(s) - 1
         /\ \A k \in 1 .. Len(s) - 1 : Tail(s)[k] = s[k + 1]
OBVIOUS

LEMMA AppendFact ==
  ASSUME NEW S, NEW s \in Seq(S), NEW x \in S
  PROVE  /\ Len(s) \in Nat /\ DOMAIN s = 1 .. Len(s)
         /\ Append(s, x) \in Seq(S) /\ Append(s, x) # <<>>
         /\ Len(Append(s, x)) = Len(s) + 1
         /\ DOMAIN Append(s, x) = 1 .. Len(s) + 1
         /\ \A k \in 1 .. Len(s) : Append(s, x)[k] = s[k]
         /\ Append(s, x)[Len(s) + 1] = x
OBVIOUS

-----------------------------------------------------------------------------
(***************************************************************************)
(* Servers: types and points.                                              *)
(***************************************************************************)

LEMMA ProcsFact == 0 \in Procs /\ None \notin Clients /\ None \notin Procs
BY ServersAssumption DEF Procs, None

LEMMA InputsFact == Inputs \subseteq Seq(Words)
<1> SUFFICES ASSUME NEW k \in 0 .. MaxLines
             PROVE  Lines(k) \in Seq(Words) /\ Append(Lines(k), "bye") \in Seq(Words)
  BY DEF Inputs
<1>1. k \in Nat /\ "line" \in Words /\ "bye" \in Words
  BY ServersAssumption DEF Words
<1>2. Lines(k) \in Seq(Words)
  BY <1>1 DEF Lines
<1> QED BY <1>1, <1>2, AppendFact

LEMMA ServersInitInv ==
  Init \/ Idle => ServersInv
<1>1. ASSUME Init PROVE ServersInv
  <2>1. ServersTypeOK
    <3>1. spc = [p \in Procs |-> spc[p]]
      BY <1>1 DEF Init
    <3>2. say \in [Clients -> Seq(Words)]
      <4>1. CASE prog \in {"chat", "pool"}
        BY <1>1, <4>1, InputsFact DEF Init
      <4>2. CASE prog \notin {"chat", "pool"}
        <5>1. say \in [Clients -> {<<>>}]
          BY <1>1, <4>2 DEF Init
        <5>2. <<>> \in Seq(Words)
          OBVIOUS
        <5> QED BY <5>1, <5>2
      <4> QED BY <4>1, <4>2
    <3> QED BY <1>1, <3>1, <3>2 DEF Init, ServersTypeOK
  <2>2. PointsInv
    <3>1. PICK m \in 0 .. PROCNUM :
            spc = [p \in Procs |->
              CASE prog = "static" /\ p = 0 -> IF m = PROCNUM THEN "wait" ELSE "exited"
                [] prog = "static" /\ p # 0 -> IF p <= m THEN "accept" ELSE "exited"
                [] prog # "static" /\ p = 0 -> "accept"
                [] prog = "pool" /\ p # 0   -> "take"
                [] OTHER                    -> "free"]
      BY <1>1 DEF Init
    <3> SUFFICES ASSUME NEW p \in Procs
                 PROVE  spc[p] \in Points(prog, p)
      BY DEF PointsInv
    <3>2. CASE prog = "static" /\ p = 0
      BY <3>1, <3>2 DEF Points
    <3>6. CASE prog = "static" /\ p # 0
      BY <3>1, <3>6 DEF Points
    <3>3. CASE prog # "static" /\ p = 0
      BY <3>1, <3>3 DEF Points
    <3>4. CASE prog # "static" /\ p # 0 /\ prog = "pool"
      BY <3>1, <3>4 DEF Points
    <3>5. CASE prog # "static" /\ p # 0 /\ prog # "pool"
      BY <1>1, <3>1, <3>5 DEF Points, Init
    <3> QED BY <3>2, <3>3, <3>4, <3>5, <3>6
  <2>3. NoTaskForgotten
    BY <1>1, ServersAssumption DEF Init, NoTaskForgotten, Procs
  <2>4. ServedInv /\ AccountInv
    BY <1>1, ProcsFact DEF Init, ServedInv, AccountInv, StampInv, TalkInv, Serves, Keeps, Waiting,
       Pending, Accepted
  <2> QED BY <2>1, <2>2, <2>3, <2>4 DEF ServersInv
<1>2. ASSUME Idle PROVE ServersInv
  <2>1. ServersTypeOK
    BY <1>2, ProcsFact DEF Idle, ServersTypeOK, Words
  <2>2. PointsInv
    BY <1>2 DEF Idle, PointsInv, Points
  <2>3. NoTaskForgotten
    BY <1>2 DEF Idle, NoTaskForgotten
  <2>4. ServedInv /\ AccountInv
    BY <1>2, ProcsFact DEF Idle, ServedInv, AccountInv, StampInv, TalkInv, Serves, Keeps, Waiting,
       Pending, Accepted
  <2> QED BY <2>1, <2>2, <2>3, <2>4 DEF ServersInv
<1> QED BY <1>1, <1>2

\* The steps of the servers, one by one.
LEMMA ServerCases ==
  ASSUME NEW p \in Procs, Server(p)
  PROVE  \/ \E a \in {"accept", "fork", "job"} : ExitOnError(p, a) /\ prog # "pool"
         \/ prog = "static" /\ p # 0 /\ accept(p, "job")
         \/ prog = "fork" /\ accept(p, "fork")
         \/ prog = "chat" /\ accept(p, "fork")
         \/ prog = "pool" /\ p = 0 /\ accept(p, "add")
         \/ prog = "fork" /\ \E q \in Procs : fork(p, "fork", q, "job")
         \/ prog = "chat" /\ \E q \in Procs : fork(p, "fork", q, "talk")
         \/ prog \in {"static", "fork"} /\ server_job(p)
         \/ prog = "static" /\ close(p, "accept", p)
         \/ prog = "fork" /\ p = 0 /\ close(p, "accept", p)
         \/ prog = "fork" /\ p # 0 /\ close(p, "zombie", p)
         \/ prog = "chat" /\ close(p, "accept", p)
         \/ prog = "pool" /\ close(p, "take", 0)
         \/ /\ prog = "static" /\ p = 0 /\ At(p, "wait", "exited")
            /\ UNCHANGED <<prog, cur, open, tasks, backlog, streams, client, faults>>
         \/ prog = "chat" /\ Talk(p, TRUE)
         \/ prog = "pool" /\ Talk(p, FALSE)
         \/ /\ prog = "pool" /\ cur[p] = None /\ At(p, "talk", "close")
            /\ UNCHANGED <<prog, cur, open, tasks, backlog, streams, client, faults>>
         \/ prog = "pool" /\ pool_add_task(p)
         \/ prog = "pool" /\ worker_thread(p)
         \/ prog = "pool" /\ p = 0 /\ accept_unchecked(p)
BY DEF Server, server_loop, basic_server, chat_server, thread_pool, handle_client

LEMMA ServersTypeStep ==
  ASSUME ServersTypeOK, [Next]_vars
  PROVE  ServersTypeOK'
<1> USE DEF ServersTypeOK, server, streams, client
<1>1. ASSUME NEW p \in Procs, NEW b, accept(p, b) PROVE ServersTypeOK'
  BY <1>1, TailFact DEF accept, At
<1>2. ASSUME NEW p \in Procs, NEW a, ExitOnError(p, a) PROVE ServersTypeOK'
  <2>1. open' = [c \in Clients |-> open[c] \ {p}] /\ spc' = [spc EXCEPT ![p] = "exited"]
        /\ faults' = faults + 1
        /\ UNCHANGED <<prog, cur, tasks, backlog, up, down, cpc, say, got, asked>>
    BY <1>2 DEF ExitOnError, At
  <2>2. open' \in [Clients -> SUBSET Procs] /\ spc' = [q \in Procs |-> spc'[q]]
    BY <2>1
  <2>3. faults' \in Nat
    BY <2>1
  <2> QED BY <2>1, <2>2, <2>3
<1>3. ASSUME NEW p \in Procs, NEW a, NEW q \in Procs, NEW b, fork(p, a, q, b) PROVE ServersTypeOK'
  BY <1>3 DEF fork, At
<1>4. ASSUME NEW p \in Procs, NEW b, NEW h, close(p, b, h) PROVE ServersTypeOK'
  BY <1>4 DEF close, At
<1>5. ASSUME NEW p \in Procs, server_job(p) PROVE ServersTypeOK'
  BY <1>5, AppendFact DEF server_job, At, Send, Answers
<1>6. ASSUME NEW p \in Procs, NEW w, Talk(p, w) PROVE ServersTypeOK'
  <2>1. cur[p] \in Clients
    BY <1>6 DEF Talk
  <2>2. CASE up[cur[p]] # <<>>
    <3>1. Tail(up[cur[p]]) \in Seq(Words)
      BY <2>1, <2>2, TailFact
    <3>2. up' \in [Clients -> Seq(Words)]
      BY <1>6, <2>1, <2>2, <3>1 DEF Talk
    <3>3. \A x \in Answers : Append(down[cur[p]], x) \in Seq(Answers)
      BY <2>1, AppendFact
    <3>4. down' \in [Clients -> Seq(Answers)]
      BY <1>6, <2>1, <2>2, <3>3 DEF Talk, Send, Answers
    <3>5. spc' = [q \in Procs |-> spc'[q]]
      BY <1>6, <2>2 DEF Talk, At
    <3> QED BY <1>6, <2>2, <3>2, <3>4, <3>5 DEF Talk
  <2>3. CASE up[cur[p]] = <<>>
    BY <1>6, <2>1, <2>3 DEF Talk, At
  <2> QED BY <2>2, <2>3
<1>7. ASSUME NEW p \in Procs, pool_add_task(p) PROVE ServersTypeOK'
  BY <1>7, AppendFact, ProcsFact DEF pool_add_task
<1>8. ASSUME NEW p \in Procs, worker_thread(p) PROVE ServersTypeOK'
  <2>1. CASE tasks = <<>>
    BY <1>8, <2>1 DEF worker_thread, At
  <2>2. CASE tasks # <<>>
    <3>1. Head(tasks) \in Clients \cup {None} /\ Tail(tasks) \in Seq(Clients \cup {None})
      BY <2>2, TailFact
    <3> QED BY <1>8, <2>2, <3>1 DEF worker_thread, At
  <2> QED BY <2>1, <2>2
<1>9. ASSUME NEW p \in Procs, accept_unchecked(p) \/ SpuriousWakeup(p) PROVE ServersTypeOK'
  <2>1. CASE accept_unchecked(p)
    <3>1. cur' = [cur EXCEPT ![p] = None] /\ spc' = [spc EXCEPT ![p] = "add"]
          /\ faults' = faults + 1
          /\ UNCHANGED <<prog, open, tasks, backlog, up, down, cpc, say, got, asked>>
      BY <2>1 DEF accept_unchecked, At
    <3>2. cur' \in [Procs -> Clients \cup {None}] /\ spc' = [q \in Procs |-> spc'[q]]
      BY <3>1
    <3>3. faults' \in Nat
      BY <3>1
    <3> QED BY <3>1, <3>2, <3>3
  <2>2. CASE SpuriousWakeup(p)
    BY <2>2 DEF SpuriousWakeup, At
  <2> QED BY <1>9, <2>1, <2>2
<1>10. ASSUME NEW p \in Procs, NEW a, NEW b, At(p, a, b),
              UNCHANGED <<prog, cur, open, tasks, backlog, streams, client, faults>>
       PROVE ServersTypeOK'
  BY <1>10 DEF At
<1>11. ASSUME NEW p \in Procs, Server(p) PROVE ServersTypeOK'
  BY <1>11, ServerCases, <1>1, <1>2, <1>3, <1>4, <1>5, <1>6, <1>7, <1>8, <1>9, <1>10
<1>12. ASSUME NEW c \in Clients, connect(c) PROVE ServersTypeOK'
  BY <1>12, AppendFact DEF connect
<1>13. ASSUME NEW c \in Clients, scan_stamp(c) PROVE ServersTypeOK'
  <2>1. Len(down[c]) \in Nat
    OBVIOUS
  <2>2. cpc' = [cpc EXCEPT ![c] = "done"] /\ got' = [got EXCEPT ![c] = Len(down[c])]
        /\ down' = [down EXCEPT ![c] = <<>>]
        /\ UNCHANGED <<prog, spc, cur, open, tasks, backlog, up, say, asked, faults>>
    BY <1>13 DEF scan_stamp
  <2>3. got' \in [Clients -> Nat] /\ down' \in [Clients -> Seq(Answers)]
    BY <2>1, <2>2
  <2> QED BY <2>2, <2>3
<1>14. ASSUME NEW c \in Clients, say_line(c) PROVE ServersTypeOK'
  <2>1. CASE say[c] = <<>>
    BY <1>14, <2>1 DEF say_line
  <2>2. CASE say[c] # <<>>
    <3>1. Append(up[c], Head(say[c])) \in Seq(Words) /\ Tail(say[c]) \in Seq(Words)
      BY <2>2, AppendFact, TailFact
    <3>2. up' = [up EXCEPT ![c] = Append(@, Head(say[c]))] /\ say' = [say EXCEPT ![c] = Tail(@)]
          /\ cpc' = [d \in Clients |-> cpc'[d]]
          /\ asked' \in {asked, [asked EXCEPT ![c] = @ + 1]}
          /\ UNCHANGED <<prog, spc, cur, open, tasks, backlog, down, got, faults>>
      BY <1>14, <2>2 DEF say_line
    <3>3. up' \in [Clients -> Seq(Words)] /\ say' \in [Clients -> Seq(Words)]
      BY <3>1, <3>2 DEF Points
    <3>4. asked' \in [Clients -> Nat]
      <4>1. asked[c] + 1 \in Nat
        OBVIOUS
      <4> QED BY <3>2, <4>1
    <3> QED BY <3>2, <3>3, <3>4
  <2> QED BY <2>1, <2>2
<1>15. ASSUME NEW c \in Clients, read_answer(c) PROVE ServersTypeOK'
  <2>1. CASE down[c] # <<>>
    <3>1. Tail(down[c]) \in Seq(Answers)
      BY <2>1, TailFact
    <3>2. down' = [down EXCEPT ![c] = Tail(@)] /\ got' = [got EXCEPT ![c] = @ + 1]
          /\ cpc' = [d \in Clients |-> cpc'[d]]
          /\ UNCHANGED <<prog, spc, cur, open, tasks, backlog, up, say, asked, faults>>
      BY <1>15, <2>1 DEF read_answer
    <3>3. down' \in [Clients -> Seq(Answers)] /\ got' \in [Clients -> Nat]
      BY <3>1, <3>2 DEF Points
    <3> QED BY <3>2, <3>3
  <2>2. CASE down[c] = <<>>
    BY <1>15, <2>2 DEF read_answer
  <2> QED BY <2>1, <2>2
<1>16. ASSUME UNCHANGED vars PROVE ServersTypeOK'
  BY <1>16 DEF vars
<1> QED BY <1>9, <1>11, <1>12, <1>13, <1>14, <1>15, <1>16 DEF Next, Client

LEMMA PointsStep ==
  ASSUME ServersTypeOK, PointsInv, [Next]_vars
  PROVE  PointsInv'
<1> USE DEF ServersTypeOK
<1>1. ASSUME NEW p \in Procs, NEW b \in Points(prog, p), prog' = prog, spc' = [spc EXCEPT ![p] = b]
      PROVE  PointsInv'
  BY <1>1 DEF PointsInv
<1>2. ASSUME UNCHANGED <<prog, spc>> PROVE PointsInv'
  BY <1>2 DEF PointsInv
<1>3. ASSUME NEW p \in Procs, Server(p) PROVE PointsInv'
  <2>1. ASSUME NEW a \in {"accept", "fork", "job"}, ExitOnError(p, a), prog # "pool" PROVE PointsInv'
    <3>1. "exited" \in Points(prog, p)
      BY <2>1 DEF Points
    <3> QED BY <1>1, <2>1, <3>1 DEF ExitOnError, At
  <2>2. ASSUME NEW b \in Points(prog, p), accept(p, b) PROVE PointsInv'
    BY <1>1, <2>2 DEF accept, At
  <2>3. prog = "fork" /\ accept(p, "fork") => PointsInv'
    <3>1. prog = "fork" /\ spc[p] = "accept" => "fork" \in Points(prog, p)
      BY DEF PointsInv, Points
    <3> QED BY <2>2, <3>1 DEF accept, At
  <2>4. ASSUME NEW b, NEW q \in Procs, fork(p, "fork", q, b),
               (prog = "fork" /\ b = "job") \/ (prog = "chat" /\ b = "talk")
        PROVE  PointsInv'
    <3>1. "close" \in Points(prog, p) /\ b \in Points(prog, q)
      BY <2>4 DEF fork, PointsInv, Points
    <3>2. spc' = [spc EXCEPT ![p] = "close", ![q] = b] /\ prog' = prog
      BY <2>4 DEF fork
    <3> QED BY <3>1, <3>2 DEF PointsInv
  <2>5. ASSUME server_job(p) PROVE PointsInv'
    <3>1. "close" \in Points(prog, p)
      BY <2>5 DEF server_job, At, PointsInv, Points
    <3> QED BY <1>1, <2>5, <3>1 DEF server_job, At
  <2>6. ASSUME NEW b, NEW h, close(p, b, h), spc[p] = "close" => b \in Points(prog, p) PROVE PointsInv'
    BY <1>1, <2>6 DEF close, At
  <2>7. ASSUME NEW b, close(p, b, p) \/ close(p, b, 0),
               \/ prog \in {"static", "chat"} /\ b = "accept"
               \/ prog = "fork" /\ b = IF p = 0 THEN "accept" ELSE "zombie"
               \/ prog = "pool" /\ b = "take"
        PROVE PointsInv'
    <3>1. spc[p] = "close" => b \in Points(prog, p)
      BY <2>7 DEF PointsInv, Points
    <3> QED BY <2>6, <2>7, <3>1
  <2>8. ASSUME prog = "static", p = 0, At(p, "wait", "exited"), prog' = prog PROVE PointsInv'
    BY <1>1, <2>8 DEF At, Points
  <2>9. ASSUME NEW w, Talk(p, w) PROVE PointsInv'
    <3>1. spc[p] = "talk" => "close" \in Points(prog, p)
      BY DEF PointsInv, Points
    <3> QED BY <1>1, <1>2, <2>9, <3>1 DEF Talk, At
  <2>10. ASSUME prog = "pool", At(p, "talk", "close"), prog' = prog PROVE PointsInv'
    <3>1. spc[p] = "talk" => "close" \in Points(prog, p)
      BY DEF PointsInv, Points
    <3> QED BY <1>1, <2>10, <3>1 DEF At
  <2>11. ASSUME prog = "pool", pool_add_task(p) PROVE PointsInv'
    <3>1. PICK q \in Procs : /\ q = 0 \/ spc[q] = "asleep"
                             /\ spc' = [spc EXCEPT ![0] = "accept", ![q] = IF q = 0 THEN "accept" ELSE "take"]
      BY <2>11, ProcsFact DEF pool_add_task
    <3> QED BY <2>11, <3>1, ProcsFact DEF pool_add_task, PointsInv, Points
  <2>12. ASSUME prog = "pool", worker_thread(p) PROVE PointsInv'
    <3>1. {"asleep", "talk"} \subseteq Points(prog, p)
      BY <2>12 DEF worker_thread, Points
    <3> QED BY <1>1, <2>12, <3>1 DEF worker_thread, At
  <2>13. ASSUME prog = "pool", p = 0, accept_unchecked(p) PROVE PointsInv'
    BY <1>1, <2>13 DEF accept_unchecked, At, Points
  <2>14. prog = "static" /\ p # 0 => "job" \in Points(prog, p)
    BY DEF Points
  <2>15. prog = "chat" => "fork" \in Points(prog, p)
    BY DEF Points
  <2>16. prog = "pool" /\ p = 0 => "add" \in Points(prog, p)
    BY DEF Points
  <2>17. CASE prog = "static"
    BY <1>3, <2>17, ServerCases, <2>1, <2>2, <2>5, <2>7, <2>8, <2>14
  <2>18. CASE prog = "fork"
    <3>1. /\ p = 0 /\ close(p, "accept", p) => PointsInv'
          /\ p # 0 /\ close(p, "zombie", p) => PointsInv'
      BY <2>7, <2>18
    <3>2. (\E q \in Procs : fork(p, "fork", q, "job")) => PointsInv'
      BY <2>4, <2>18
    <3> QED BY <1>3, <2>18, <3>1, <3>2, ServerCases, <2>1, <2>3, <2>5
  <2>19. CASE prog = "chat"
    BY <1>3, <2>19, ServerCases, <2>1, <2>2, <2>4, <2>7, <2>9, <2>15
  <2>20. CASE prog = "pool"
    BY <1>3, <2>20, ServerCases, <2>2, <2>7, <2>9, <2>10, <2>11, <2>12, <2>13, <2>16
  <2> QED BY <2>17, <2>18, <2>19, <2>20
<1>4. ASSUME NEW p \in Procs, SpuriousWakeup(p) PROVE PointsInv'
  <2>1. "take" \in Points(prog, p)
    BY <1>4 DEF SpuriousWakeup, At, PointsInv, Points
  <2> QED BY <1>1, <1>4, <2>1 DEF SpuriousWakeup, At
<1>5. ASSUME NEW c \in Clients, Client(c) PROVE PointsInv'
  BY <1>2, <1>5 DEF Client, connect, scan_stamp, say_line, read_answer, server
<1> QED BY <1>2, <1>3, <1>4, <1>5 DEF Next, vars, server

-----------------------------------------------------------------------------
(***************************************************************************)
(* No task is forgotten.                                                   *)
(***************************************************************************)

Sleepers == {p \in Procs : spc[p] = "asleep"}
Takers   == {p \in Procs : spc[p] = "take"}

\* Sets of processes that differ in one of them.
LEMMA CardStep ==
  ASSUME NEW S \in SUBSET Procs, NEW R \in SUBSET Procs, NEW t,
         \A u \in Procs : u # t => (u \in R <=> u \in S)
  PROVE  /\ Cardinality(S) \in Nat /\ Cardinality(R) \in Nat
         /\ t \in R /\ t \notin S => Cardinality(R) = Cardinality(S) + 1
         /\ t \notin R /\ t \in S => Cardinality(R) = Cardinality(S) - 1
         /\ (t \in R <=> t \in S) => Cardinality(R) = Cardinality(S)
<1>0. IsFiniteSet(Procs)
  BY ServersAssumption, FS_Interval DEF Procs
<1>1. IsFiniteSet(S) /\ IsFiniteSet(R)
  BY <1>0, FS_Subset
<1>2. Cardinality(S) \in Nat /\ Cardinality(R) \in Nat
  BY <1>1, FS_CardinalityType
<1>3. ASSUME t \in R, t \notin S PROVE Cardinality(R) = Cardinality(S) + 1
  <2>1. R = S \cup {t}
    BY <1>3
  <2> QED BY <1>1, <1>3, <2>1, FS_AddElement
<1>4. ASSUME t \notin R, t \in S PROVE Cardinality(R) = Cardinality(S) - 1
  <2>1. R = S \ {t}
    BY <1>4
  <2> QED BY <1>1, <1>4, <2>1, FS_RemoveElement
<1>5. ASSUME t \in R <=> t \in S PROVE R = S
  BY <1>5
<1> QED BY <1>2, <1>3, <1>4, <1>5

LEMMA TasksFact ==
  NoTaskForgotten <=> (Sleepers # {} => Len(tasks) <= Cardinality(Takers))
BY DEF NoTaskForgotten, Sleepers, Takers

\* A step of one process from a to b changes the takers by one at most.
LEMMA MoveStep ==
  ASSUME ServersTypeOK, NEW p \in Procs, NEW b, spc' = [spc EXCEPT ![p] = b]
  PROVE  /\ Cardinality(Takers) \in Nat /\ Cardinality(Takers') \in Nat
         /\ spc[p] # "take" /\ b = "take" => Cardinality(Takers') = Cardinality(Takers) + 1
         /\ spc[p] = "take" /\ b # "take" => Cardinality(Takers') = Cardinality(Takers) - 1
         /\ spc[p] # "take" /\ b # "take" => Cardinality(Takers') = Cardinality(Takers)
         /\ b # "asleep" => Sleepers' \subseteq Sleepers
<1> DEFINE S == Takers
           R == Takers'
<1>1. /\ S \in SUBSET Procs /\ R \in SUBSET Procs
      /\ \A u \in Procs : u # p => (u \in R <=> u \in S)
      /\ p \in R <=> b = "take"
      /\ p \in S <=> spc[p] = "take"
  BY DEF ServersTypeOK, Takers
<1>2. b # "asleep" => Sleepers' \subseteq Sleepers
  BY DEF ServersTypeOK, Sleepers
<1> HIDE DEF S, R
<1>3. /\ Cardinality(S) \in Nat /\ Cardinality(R) \in Nat
      /\ p \in R /\ p \notin S => Cardinality(R) = Cardinality(S) + 1
      /\ p \notin R /\ p \in S => Cardinality(R) = Cardinality(S) - 1
      /\ (p \in R <=> p \in S) => Cardinality(R) = Cardinality(S)
  BY <1>1, CardStep
<1> QED BY <1>1, <1>2, <1>3 DEF S, R

\* The list is longer by one, and one more worker is on its way, or nobody
\* sleeps.
LEMMA AddTaskStep ==
  ASSUME ServersTypeOK, PointsInv, NoTaskForgotten, prog = "pool", NEW p \in Procs, pool_add_task(p)
  PROVE  NoTaskForgotten'
<1>1. spc[0] = "add" /\ tasks' = Append(tasks, cur[0]) /\ Len(tasks) \in Nat
      /\ Len(tasks') = Len(tasks) + 1
  BY ProcsFact DEF pool_add_task, ServersTypeOK
<1>2. CASE Sleepers = {}
  <2>1. spc' = [spc EXCEPT ![0] = "accept"]
    BY <1>2 DEF pool_add_task, Sleepers, ServersTypeOK
  <2>2. Sleepers' = {}
    BY <1>2, <2>1, ProcsFact DEF ServersTypeOK, Sleepers
  <2> QED BY <2>2 DEF NoTaskForgotten, Sleepers
<1>3. CASE Sleepers # {}
  <2>1. PICK q \in Sleepers : spc' = [spc EXCEPT ![0] = "accept", ![q] = "take"]
    <3>1. PICK q \in Sleepers : 
            spc' = [spc EXCEPT ![0] = "accept", ![q] = IF q = 0 THEN "accept" ELSE "take"]
      BY <1>3 DEF pool_add_task, Sleepers
    <3>2. q # 0
      BY <1>1, <3>1 DEF Sleepers
    <3> QED BY <3>1, <3>2
  <2> DEFINE S == Takers
             R == Takers'
  <2>2. /\ S \in SUBSET Procs /\ R \in SUBSET Procs
        /\ \A u \in Procs : u # q => (u \in R <=> u \in S)
        /\ q \in R /\ q \notin S
    BY <1>1, <2>1, ProcsFact DEF ServersTypeOK, Takers, Sleepers
  <2> HIDE DEF S, R
  <2>3. Cardinality(S) \in Nat /\ Cardinality(R) = Cardinality(S) + 1
    BY <2>2, CardStep
  <2>4. Len(tasks) <= Cardinality(S)
    BY <1>3, TasksFact DEF S
  <2>5. Len(tasks)' <= Cardinality(R)
    BY <1>1, <2>3, <2>4
  <2> QED BY <2>5 DEF R, NoTaskForgotten, Takers
<1> QED BY <1>2, <1>3

\* The list shrinks with the worker who takes from it, and only an empty list
\* puts one to sleep.
LEMMA WorkerTaskStep ==
  ASSUME ServersTypeOK, NoTaskForgotten, NEW p \in Procs, worker_thread(p)
  PROVE  NoTaskForgotten'
<1>1. CASE tasks = <<>>
  <2>1. Len(tasks)' = 0 /\ spc' = [spc EXCEPT ![p] = "asleep"]
    BY <1>1 DEF worker_thread, At, ServersTypeOK
  <2>2. Cardinality(Takers') \in Nat
    BY <2>1, MoveStep
  <2>3. Len(tasks)' <= Cardinality(Takers')
    BY <2>1, <2>2
  <2> QED BY <2>3 DEF NoTaskForgotten, Takers
<1>2. CASE tasks # <<>>
  <2>1. Len(tasks)' = Len(tasks) - 1 /\ Len(tasks) \in Nat
    BY <1>2, TailFact DEF worker_thread, ServersTypeOK
  <2>2. PICK b : spc[p] = "take" /\ spc' = [spc EXCEPT ![p] = b] /\ b # "take" /\ b # "asleep"
    BY <1>2 DEF worker_thread, At
  <2>3. Cardinality(Takers) \in Nat /\ Cardinality(Takers') \in Nat
        /\ Cardinality(Takers') = Cardinality(Takers) - 1
    BY <2>2, MoveStep
  <2>5. Sleepers' \subseteq Sleepers
    BY <2>2, MoveStep
  <2>4. Sleepers' # {} => Len(tasks)' <= Cardinality(Takers')
    BY <2>1, <2>3, <2>5, TasksFact
  <2> QED BY <2>4 DEF NoTaskForgotten, Takers, Sleepers
<1> QED BY <1>1, <1>2

\* Every other step leaves the list alone and takes nobody off the way to it.
LEMMA OtherTaskStep ==
  ASSUME ServersTypeOK, NoTaskForgotten, NEW p \in Procs, NEW b, b # "asleep", spc[p] # "take",
         spc' = [spc EXCEPT ![p] = b], tasks' = tasks
  PROVE  NoTaskForgotten'
<1>1. Len(tasks) \in Nat
  BY DEF ServersTypeOK
<1>2. /\ Cardinality(Takers) \in Nat /\ Cardinality(Takers') \in Nat
      /\ Cardinality(Takers') \in {Cardinality(Takers), Cardinality(Takers) + 1}
      /\ Sleepers' \subseteq Sleepers
  BY MoveStep
<1>3. Sleepers' # {} => Len(tasks)' <= Cardinality(Takers')
  BY <1>1, <1>2, TasksFact
<1> QED BY <1>3 DEF NoTaskForgotten, Takers, Sleepers

LEMMA NoTaskStep ==
  ASSUME ServersTypeOK, PointsInv, NoTaskForgotten, [Next]_vars
  PROVE  NoTaskForgotten'
<1>1. ASSUME UNCHANGED <<tasks, spc>> PROVE NoTaskForgotten'
  BY <1>1 DEF NoTaskForgotten
<1>2. ASSUME NEW c \in Clients, Client(c) PROVE NoTaskForgotten'
  BY <1>1, <1>2 DEF Client, connect, scan_stamp, say_line, read_answer, server
<1>3. ASSUME NEW p \in Procs, NEW a, NEW b, At(p, a, b), a # "take", b # "asleep", tasks' = tasks
      PROVE  NoTaskForgotten'
  BY <1>3, OtherTaskStep DEF At
<1>4. ASSUME NEW p \in Procs, SpuriousWakeup(p) PROVE NoTaskForgotten'
  BY <1>3, <1>4 DEF SpuriousWakeup
<1>5. ASSUME NEW p \in Procs, Server(p), prog # "pool" PROVE NoTaskForgotten'
  <2>1. Sleepers' = {}
    <3>1. PointsInv' /\ ServersTypeOK'
      BY PointsStep, ServersTypeStep
    <3>2. prog' # "pool"
      BY <1>5 DEF Server, server_loop, basic_server, chat_server, accept, ExitOnError, fork, close,
         server_job, Talk
    <3>3. \A q \in Procs : spc'[q] # "asleep"
      BY <3>1, <3>2 DEF ServersTypeOK, PointsInv, Points
    <3> QED BY <3>3 DEF Sleepers
  <2> QED BY <2>1 DEF NoTaskForgotten, Sleepers
<1>6. ASSUME NEW p \in Procs, Server(p), prog = "pool" PROVE NoTaskForgotten'
  <2>1. accept(p, "add") \/ accept_unchecked(p) \/ close(p, "take", 0) => NoTaskForgotten'
    BY <1>3 DEF accept, accept_unchecked, close
  <2>2. Talk(p, FALSE) => NoTaskForgotten'
    BY <1>1, <1>3 DEF Talk
  <2>3. At(p, "talk", "close") /\ UNCHANGED <<prog, cur, open, tasks, backlog, streams, client, faults>>
          => NoTaskForgotten'
    BY <1>3
  <2>4. pool_add_task(p) \/ worker_thread(p) => NoTaskForgotten'
    BY <1>6, AddTaskStep, WorkerTaskStep
  <2> QED BY <1>6, <2>1, <2>2, <2>3, <2>4 DEF Server, thread_pool, handle_client
<1> QED BY <1>1, <1>2, <1>4, <1>5, <1>6 DEF Next, vars, server

-----------------------------------------------------------------------------
(***************************************************************************)
(* Servers: every connection is served by one process.                     *)
(***************************************************************************)

Steady == ServersTypeOK /\ PointsInv /\ ServedInv /\ AccountInv

LEMMA PendingFact ==
  ASSUME Steady, NEW c \in Clients, Pending(c)
  PROVE  Accepted(c) /\ open[c] # {}
BY DEF Steady, ServedInv, Pending, Serves, Keeps

LEMMA AcceptStep ==
  ASSUME Steady, NEW p \in Procs, NEW b \in {"job", "fork", "add"}, accept(p, b),
         b = "add" <=> prog = "pool", b = "add" => p = 0
  PROVE  ServedInv' /\ AccountInv'
<1>c. PICK c0 : c0 = Head(backlog)
  OBVIOUS
<1>0. /\ spc[p] = "accept" /\ backlog # <<>> /\ backlog \in Seq(Clients)
      /\ spc' = [spc EXCEPT ![p] = b] /\ cur' = [cur EXCEPT ![p] = c0]
      /\ open' = [open EXCEPT ![c0] = {p}] /\ backlog' = Tail(backlog)
      /\ UNCHANGED <<prog, tasks, up, down, cpc, say, got, asked, faults>>
      /\ spc = [q \in Procs |-> spc[q]] /\ cur \in [Procs -> Clients \cup {None}]
      /\ open \in [Clients -> SUBSET Procs]
  BY <1>c DEF accept, At, streams, client, Steady, ServersTypeOK
<1>1. /\ c0 \in Clients /\ c0 = backlog[1] /\ Len(backlog) \in Nat \ {0}
      /\ DOMAIN backlog = 1 .. Len(backlog) /\ DOMAIN backlog' = 1 .. Len(backlog) - 1
      /\ \A k \in 1 .. Len(backlog) - 1 : backlog'[k] = backlog[k + 1]
  BY <1>c, <1>0, TailFact
<1>2. ~Accepted(c0) /\ cpc[c0] # "connect" /\ c0 # None
  BY <1>1, ProcsFact DEF Steady, ServedInv, Accepted
<1>3. \A d \in Clients : Accepted(d)' <=> Accepted(d) \/ d = c0
  <2>1. Accepted(c0)'
    <3>1. \A j, k \in DOMAIN backlog : backlog[j] = backlog[k] => j = k
      BY DEF Steady, ServedInv
    <3>2. \A k \in DOMAIN backlog' : backlog'[k] # c0
      BY <1>1, <3>1
    <3> QED BY <1>0, <1>2, <3>2 DEF Accepted
  <2>2. ASSUME NEW d \in Clients, d # c0 PROVE Accepted(d)' <=> Accepted(d)
    <3>1. \A k \in DOMAIN backlog : backlog[k] = d => k - 1 \in DOMAIN backlog' /\ backlog'[k - 1] = d
      BY <1>1, <2>2
    <3>2. \A k \in DOMAIN backlog' : k + 1 \in DOMAIN backlog /\ backlog'[k] = backlog[k + 1]
      BY <1>1
    <3> QED BY <1>0, <3>1, <3>2 DEF Accepted
  <2> SUFFICES ASSUME NEW d \in Clients PROVE Accepted(d)' <=> Accepted(d) \/ d = c0
    OBVIOUS
  <2>3. CASE d = c0
    BY <2>1, <2>3
  <2>4. CASE d # c0
    BY <2>2, <2>4
  <2> QED BY <2>3, <2>4
<1>4. \A d \in Clients, q \in Procs :
         /\ Serves(q, d)' <=> (q = p /\ d = c0) \/ Serves(q, d)
         /\ Keeps(q, d)' <=> (q = p /\ d = c0) \/ Keeps(q, d)
         /\ Keeps(q, d) => d # c0 /\ q # p
         /\ Serves(q, d) => Keeps(q, d)
  BY <1>0, <1>2 DEF Serves, Keeps, Steady, ServedInv
<1>5. \A d \in Clients : (Waiting(d)' <=> Waiting(d)) /\ (Waiting(d) => d # c0)
  BY <1>0, <1>2 DEF Waiting, Steady, ServedInv
<1>6. \A d \in Clients : Pending(d)' <=> Pending(d) \/ d = c0
  BY <1>4, <1>5 DEF Pending
<1>7. ServedInv'
  <2>1. /\ \A j, k \in DOMAIN backlog' : backlog'[j] = backlog'[k] => j = k
        /\ \A k \in DOMAIN backlog' : cpc'[backlog'[k]] # "connect"
    BY <1>0, <1>1 DEF Steady, ServedInv
  <2>2. /\ \A c \in Clients, q \in Procs : Keeps(q, c)' => Accepted(c)'
        /\ \A c \in Clients : Waiting(c)' => Accepted(c)'
    BY <1>3, <1>4, <1>5 DEF Steady, ServedInv
  <2>3. /\ \A c \in Clients, q \in Procs : Serves(q, c)' => Holder(q)' \in open'[c]
        /\ \A c \in Clients : Waiting(c)' => 0 \in open'[c]
    BY <1>0, <1>1, <1>4, <1>5 DEF Steady, ServedInv, Holder
  <2>4. \A c \in Clients, q, r \in Procs : Serves(q, c)' /\ Serves(r, c)' => q = r
    BY <1>4 DEF Steady, ServedInv
  <2>5. prog = "pool" =>
         /\ \A c \in Clients, q, r \in Procs : Keeps(q, c)' /\ Keeps(r, c)' => q = r
         /\ \A c \in Clients, q \in Procs : Keeps(q, c)' => ~Waiting(c)'
    BY <1>4, <1>5 DEF Steady, ServedInv
  <2>6. \A q \in Procs : spc'[q] \in {"job", "fork", "talk", "add"} => cur'[q] # None
    BY <1>0, <1>2 DEF Steady, ServedInv
  <2> QED BY <1>0, <2>1, <2>2, <2>3, <2>4, <2>5, <2>6 DEF Steady, ServedInv
<1>8. AccountInv'
  <2> SUFFICES ASSUME NEW c \in Clients
               PROVE  /\ cpc'[c] = "connect" => up'[c] = <<>> /\ down'[c] = <<>> /\ got'[c] = 0
                      /\ prog' \in {"static", "fork"} => StampInv(c)'
                      /\ prog' \in {"chat", "pool"} => TalkInv(c)'
    BY DEF AccountInv
  <2>1. prog \in {"static", "fork"} => StampInv(c)'
    BY <1>0, <1>2, <1>3, <1>6 DEF Steady, AccountInv, StampInv
  <2>2. prog \in {"chat", "pool"} => TalkInv(c)'
    BY <1>0, <1>2, <1>3, <1>6 DEF Steady, AccountInv, TalkInv
  <2> QED BY <1>0, <2>1, <2>2 DEF Steady, AccountInv
<1> QED BY <1>7, <1>8

LEMMA ForkStep ==
  ASSUME Steady, NEW p \in Procs, NEW q \in Procs, NEW b \in {"job", "talk"}, fork(p, "fork", q, b),
         prog # "pool"
  PROVE  ServedInv' /\ AccountInv'
<1>c. PICK c0 : c0 = cur[p]
  OBVIOUS
<1>0. /\ spc[p] = "fork" /\ spc[q] = "free" /\ p # q
      /\ spc' = [spc EXCEPT ![p] = "close", ![q] = b] /\ cur' = [cur EXCEPT ![q] = c0]
      /\ open' = [open EXCEPT ![c0] = @ \cup {q}]
      /\ UNCHANGED <<prog, tasks, backlog, up, down, cpc, say, got, asked, faults>>
      /\ spc = [r \in Procs |-> spc[r]] /\ cur \in [Procs -> Clients \cup {None}]
      /\ open \in [Clients -> SUBSET Procs]
  BY <1>c DEF fork, At, streams, client, Steady, ServersTypeOK
<1>1. c0 # None /\ c0 \in Clients
  BY <1>c, <1>0, ProcsFact DEF Steady, ServedInv
<1>2. \A d \in Clients : (Accepted(d)' <=> Accepted(d)) /\ (Waiting(d)' <=> Waiting(d))
  BY <1>0 DEF Accepted, Waiting
<1>3. \A d \in Clients, r \in Procs :
         /\ Serves(r, d)' <=> (r = q /\ d = c0) \/ (r # p /\ Serves(r, d))
         /\ Keeps(r, d)' <=> (r = q /\ d = c0) \/ Keeps(r, d)
         /\ Serves(p, d) <=> d = c0
         /\ Keeps(p, d) <=> d = c0
         /\ ~Keeps(q, d) /\ (Serves(r, d) => Keeps(r, d))
  BY <1>c, <1>0, <1>1 DEF Serves, Keeps
<1>4. \A d \in Clients : Pending(d)' <=> Pending(d)
  BY <1>2, <1>3 DEF Pending
<1>5. ServedInv'
  <2>1. /\ \A c \in Clients, r \in Procs : Keeps(r, c)' => Accepted(c)'
        /\ \A c \in Clients : Waiting(c)' => Accepted(c)'
    BY <1>2, <1>3 DEF Steady, ServedInv
  <2>2. /\ \A c \in Clients, r \in Procs : Serves(r, c)' => Holder(r)' \in open'[c]
        /\ \A c \in Clients : Waiting(c)' => 0 \in open'[c]
    BY <1>0, <1>1, <1>2, <1>3 DEF Steady, ServedInv, Holder
  <2>3. \A c \in Clients, r, u \in Procs : Serves(u, c)' /\ Serves(r, c)' => u = r
    BY <1>3 DEF Steady, ServedInv
  <2>4. \A r \in Procs : spc'[r] \in {"job", "fork", "talk", "add"} => cur'[r] # None
    BY <1>0, <1>1 DEF Steady, ServedInv
  <2> QED BY <1>0, <2>1, <2>2, <2>3, <2>4 DEF Steady, ServedInv
<1>6. AccountInv'
  BY <1>0, <1>2, <1>4 DEF Steady, AccountInv, StampInv, TalkInv
<1> QED BY <1>5, <1>6

LEMMA CloseStep ==
  ASSUME Steady, NEW p \in Procs, NEW b \in {"accept", "zombie", "take"}, close(p, b, Holder(p))
  PROVE  ServedInv' /\ AccountInv'
<1>c. PICK c0 : c0 = cur[p]
  OBVIOUS
<1>0. /\ spc[p] = "close" /\ spc' = [spc EXCEPT ![p] = b] /\ cur' = [cur EXCEPT ![p] = None]
      /\ open' = [c \in Clients |-> IF c = c0 THEN open[c] \ {Holder(p)} ELSE open[c]]
      /\ UNCHANGED <<prog, tasks, backlog, up, down, cpc, say, got, asked, faults>>
      /\ spc = [r \in Procs |-> spc[r]] /\ cur \in [Procs -> Clients \cup {None}]
      /\ open \in [Clients -> SUBSET Procs]
  BY <1>c DEF close, At, streams, client, Steady, ServersTypeOK
<1>2. \A d \in Clients : (Accepted(d)' <=> Accepted(d)) /\ (Waiting(d)' <=> Waiting(d))
  BY <1>0 DEF Accepted, Waiting
<1>3. \A d \in Clients, r \in Procs :
         /\ Serves(r, d)' <=> Serves(r, d)
         /\ Keeps(r, d)' <=> r # p /\ Keeps(r, d)
         /\ Serves(r, d) => r # p
         /\ Keeps(p, d) <=> d = c0
         /\ Serves(r, d) => Keeps(r, d)
  BY <1>c, <1>0, ProcsFact DEF Serves, Keeps
<1>4. \A d \in Clients : Pending(d)' <=> Pending(d)
  BY <1>2, <1>3 DEF Pending
<1>5. ServedInv'
  <2>1. /\ \A c \in Clients, r \in Procs : Keeps(r, c)' => Accepted(c)'
        /\ \A c \in Clients : Waiting(c)' => Accepted(c)'
    BY <1>2, <1>3 DEF Steady, ServedInv
  <2>2. ASSUME NEW c \in Clients, NEW r \in Procs, Serves(r, c)' PROVE Holder(r)' \in open'[c]
    <3>1. Serves(r, c) /\ Keeps(r, c) /\ r # p /\ Holder(r) \in open[c]
      BY <1>3, <2>2 DEF Steady, ServedInv
    <3>2. CASE prog = "pool"
      <4>1. c # c0
        BY <1>3, <3>1, <3>2 DEF Steady, ServedInv
      <4> QED BY <1>0, <3>1, <3>2, <4>1 DEF Holder
    <3>3. CASE prog # "pool"
      BY <1>0, <3>1, <3>3 DEF Holder
    <3> QED BY <3>2, <3>3
  <2>3. ASSUME NEW c \in Clients, Waiting(c)' PROVE 0 \in open'[c]
    <3>1. Waiting(c) /\ 0 \in open[c] /\ prog = "pool"
      BY <1>2, <2>3 DEF Steady, ServedInv, Waiting
    <3>2. c # c0
      BY <1>3, <3>1 DEF Steady, ServedInv
    <3> QED BY <1>0, <3>1, <3>2
  <2>4. \A c \in Clients, r, u \in Procs : Serves(u, c)' /\ Serves(r, c)' => u = r
    BY <1>3 DEF Steady, ServedInv
  <2>5. prog = "pool" =>
         /\ \A c \in Clients, q, r \in Procs : Keeps(q, c)' /\ Keeps(r, c)' => q = r
         /\ \A c \in Clients, q \in Procs : Keeps(q, c)' => ~Waiting(c)'
    BY <1>2, <1>3 DEF Steady, ServedInv
  <2>6. \A r \in Procs : spc'[r] \in {"job", "fork", "talk", "add"} => cur'[r] # None
    BY <1>0 DEF Steady, ServedInv
  <2> QED BY <1>0, <2>1, <2>2, <2>3, <2>4, <2>5, <2>6 DEF Steady, ServedInv
<1>6. AccountInv'
  BY <1>0, <1>2, <1>4 DEF Steady, AccountInv, StampInv, TalkInv
<1> QED BY <1>5, <1>6

\* A server's step that moves p from "talk" or "job" to "close", or nothing.
LEMMA LastStep ==
  ASSUME Steady, NEW p \in Procs,
         spc' = [spc EXCEPT ![p] = "close"], spc[p] \in {"talk", "job"},
         UNCHANGED <<prog, cur, open, tasks, backlog, cpc>>
  PROVE  /\ ServedInv'
         /\ \A d \in Clients : /\ Accepted(d)' <=> Accepted(d)
                               /\ Pending(d)' <=> Pending(d) /\ d # cur[p]
<1>c. PICK c0 : c0 = cur[p]
  OBVIOUS
<1>0. /\ spc = [r \in Procs |-> spc[r]] /\ cur \in [Procs -> Clients \cup {None}]
      /\ open \in [Clients -> SUBSET Procs]
      /\ c0 # None /\ c0 \in Clients
  BY <1>c DEF Steady, ServersTypeOK, ServedInv
<1>2. \A d \in Clients : (Accepted(d)' <=> Accepted(d)) /\ (Waiting(d)' <=> Waiting(d))
  BY DEF Accepted, Waiting
<1>3. \A d \in Clients, r \in Procs :
         /\ Serves(r, d)' <=> r # p /\ Serves(r, d)
         /\ Keeps(r, d)' <=> Keeps(r, d)
         /\ Serves(p, d) <=> d = c0
         /\ Serves(r, d) => Keeps(r, d)
  BY <1>c, <1>0 DEF Serves, Keeps
<1>4. \A d \in Clients : Pending(d)' <=> Pending(d) /\ d # c0
  <2>1. ~Waiting(c0)
    BY <1>0, <1>3 DEF Steady, ServedInv, Waiting
  <2>2. \A r \in Procs : Serves(r, c0) => r = p
    BY <1>0, <1>3 DEF Steady, ServedInv
  <2>3. ~Pending(c0)'
    BY <1>0, <1>2, <1>3, <2>1, <2>2 DEF Pending
  <2>4. \A d \in Clients \ {c0} : Pending(d)' <=> Pending(d)
    BY <1>2, <1>3 DEF Pending
  <2> QED BY <1>0, <2>3, <2>4
<1>5. ServedInv'
  BY <1>0, <1>2, <1>3 DEF Steady, ServedInv, Holder
<1> QED BY <1>c, <1>2, <1>4, <1>5

LEMMA JobStep ==
  ASSUME Steady, NEW p \in Procs, server_job(p), prog \in {"static", "fork"}
  PROVE  ServedInv' /\ AccountInv'
<1>c. PICK c0 : c0 = cur[p]
  OBVIOUS
<1>0. /\ spc[p] = "job" /\ spc' = [spc EXCEPT ![p] = "close"]
      /\ down' = [down EXCEPT ![c0] = Append(@, "stamp")]
      /\ UNCHANGED <<prog, cur, open, tasks, backlog, up, cpc, say, got, asked, faults>>
      /\ down \in [Clients -> Seq(Answers)] /\ c0 \in Clients
  BY <1>c DEF server_job, At, Send, client, Steady, ServersTypeOK, ServedInv
<1>1. /\ ServedInv'
      /\ \A d \in Clients : /\ Accepted(d)' <=> Accepted(d)
                            /\ Pending(d)' <=> Pending(d) /\ d # c0
  BY <1>c, <1>0, LastStep
<1>2. Pending(c0) /\ Accepted(c0)
  BY <1>c, <1>0 DEF Pending, Serves, Keeps, Steady, ServedInv
<1>3. cpc[c0] = "scan" /\ down[c0] = <<>> /\ asked[c0] = 1
  BY <1>0, <1>2 DEF Steady, AccountInv, StampInv, Accepted
<1>4. Len(down'[c0]) = 1
  BY <1>0, <1>3 DEF Answers
<1>5. ASSUME NEW d \in Clients PROVE StampInv(d)'
  <2>1. CASE d = c0
    BY <1>0, <1>1, <1>3, <1>4, <2>1, <1>2 DEF StampInv
  <2>2. CASE d # c0
    BY <1>0, <1>1, <2>2 DEF StampInv, Steady, AccountInv
  <2> QED BY <2>1, <2>2
<1>6. \A c \in Clients : cpc'[c] = "connect" => up'[c] = <<>> /\ down'[c] = <<>> /\ got'[c] = 0
  BY <1>0, <1>3 DEF Steady, AccountInv
<1>7. AccountInv'
  BY <1>0, <1>5, <1>6 DEF AccountInv
<1> QED BY <1>1, <1>7

\* Nobody gets or gives away a connection.
LEMMA SameStep ==
  ASSUME Steady, \A p \in Procs, d \in Clients : (Serves(p, d)' <=> Serves(p, d)) /\ (Keeps(p, d)' <=> Keeps(p, d)),
         \A p \in Procs : spc'[p] \in {"job", "fork", "talk", "add"} => cur'[p] # None,
         UNCHANGED <<prog, open, tasks, backlog, up, down, cpc, got, asked>>
  PROVE  ServedInv' /\ AccountInv'
<1>1. \A d \in Clients : (Accepted(d)' <=> Accepted(d)) /\ (Waiting(d)' <=> Waiting(d))
  BY DEF Accepted, Waiting
<1>2. \A d \in Clients : Pending(d)' <=> Pending(d)
  BY <1>1 DEF Pending
<1>3. ServedInv'
  BY <1>1 DEF Steady, ServedInv, Holder
<1>4. AccountInv'
  BY <1>1, <1>2 DEF Steady, AccountInv, StampInv, TalkInv
<1> QED BY <1>3, <1>4

LEMMA QuietStep ==
  ASSUME Steady, NEW p \in Procs, NEW a \in {"wait", "take", "asleep"},
         NEW b \in {"exited", "asleep", "take"}, At(p, a, b),
         UNCHANGED <<prog, cur, open, tasks, backlog, up, down, cpc, got, asked>>
  PROVE  ServedInv' /\ AccountInv'
<1>1. \A q \in Procs, d \in Clients : (Serves(q, d)' <=> Serves(q, d)) /\ (Keeps(q, d)' <=> Keeps(q, d))
  BY DEF At, Serves, Keeps, Steady, ServersTypeOK
<1>2. \A q \in Procs : spc'[q] \in {"job", "fork", "talk", "add"} => cur'[q] # None
  BY DEF At, Steady, ServersTypeOK, ServedInv
<1> QED BY <1>1, <1>2, SameStep

LEMMA TalkStep ==
  ASSUME Steady, NEW p \in Procs, NEW w, Talk(p, w), (prog = "chat" /\ w = TRUE) \/ (prog = "pool" /\ w = FALSE)
  PROVE  ServedInv' /\ AccountInv'
<1>c. PICK c0 : c0 = cur[p]
  OBVIOUS
<1>0. /\ spc[p] = "talk" /\ c0 # None /\ c0 \in Clients
      /\ UNCHANGED <<prog, cur, open, tasks, backlog, cpc, say, got, asked, faults>>
      /\ down \in [Clients -> Seq(Answers)] /\ up \in [Clients -> Seq(Words)]
      /\ spc = [r \in Procs |-> spc[r]]
  BY <1>c DEF Talk, At, client, Steady, ServersTypeOK
<1>1. Pending(c0) /\ Accepted(c0)
  BY <1>c, <1>0 DEF Pending, Serves, Keeps, Steady, ServedInv
<1>2. /\ cpc[c0] # "connect" /\ TalkInv(c0)
      /\ \A d \in Clients : /\ TalkInv(d)
                            /\ cpc[d] = "connect" => up[d] = <<>> /\ down[d] = <<>> /\ got[d] = 0
  BY <1>0, <1>1 DEF Accepted, Steady, AccountInv
<1>3. CASE up[c0] # <<>> /\ Head(up[c0]) # "bye"
  <2>1. /\ up' = [up EXCEPT ![c0] = Tail(@)] /\ down' = [down EXCEPT ![c0] = Append(@, "answer")]
        /\ spc' = spc
    BY <1>c, <1>3 DEF Talk, Send
  <2>2. cpc[c0] = "read" /\ up[c0] = <<"line">> /\ down[c0] = <<>> /\ asked[c0] = got[c0] + 1
    BY <1>2, <1>3 DEF TalkInv
  <2>3. up'[c0] = <<>> /\ Len(down'[c0]) = 1
    BY <1>0, <2>1, <2>2 DEF Answers
  <2>4. \A d \in Clients, q \in Procs : (Serves(q, d)' <=> Serves(q, d)) /\ (Keeps(q, d)' <=> Keeps(q, d))
    BY <1>0, <2>1 DEF Serves, Keeps
  <2>5. \A d \in Clients : (Accepted(d)' <=> Accepted(d)) /\ (Waiting(d)' <=> Waiting(d))
    BY <1>0 DEF Accepted, Waiting
  <2>6. \A d \in Clients : Pending(d)' <=> Pending(d)
    BY <2>4, <2>5 DEF Pending
  <2>7. ServedInv'
    BY <1>0, <2>1, <2>4, <2>5 DEF Steady, ServedInv, Holder
  <2>8. ASSUME NEW d \in Clients PROVE TalkInv(d)'
    <3>1. CASE d = c0
      BY <1>0, <1>1, <2>2, <2>3, <2>6, <3>1 DEF TalkInv
    <3>2. CASE d # c0
      BY <1>0, <1>2, <2>1, <2>5, <2>6, <3>2 DEF TalkInv
    <3> QED BY <3>1, <3>2
  <2>9. AccountInv'
    BY <1>0, <1>2, <2>1, <2>2, <2>8 DEF AccountInv
  <2> QED BY <2>7, <2>9
<1>4. CASE up[c0] = <<>> \/ Head(up[c0]) = "bye"
  <2>1. spc' = [spc EXCEPT ![p] = "close"]
    BY <1>c, <1>4 DEF Talk, At
  <2>2. /\ ServedInv'
        /\ \A d \in Clients : /\ Accepted(d)' <=> Accepted(d)
                              /\ Pending(d)' <=> Pending(d) /\ d # c0
    BY <1>c, <1>0, <2>1, LastStep
  <2>3. CASE up[c0] = <<>>
    <3>1. cpc[c0] = "done" /\ UNCHANGED <<up, down>>
      BY <1>c, <2>3 DEF Talk, streams
    <3>2. ASSUME NEW d \in Clients PROVE TalkInv(d)'
      BY <1>0, <1>2, <2>2, <3>1 DEF TalkInv
    <3>3. AccountInv'
      BY <1>0, <1>2, <3>1, <3>2 DEF AccountInv
    <3> QED BY <2>2, <3>3
  <2>4. CASE up[c0] # <<>>
    <3>1. /\ up' = [up EXCEPT ![c0] = Tail(@)]
          /\ prog = "chat" => down' = [down EXCEPT ![c0] = Append(@, "bye")]
          /\ prog = "pool" => down' = down
      BY <1>c, <1>4, <2>4 DEF Talk, Send
    <3>2. cpc[c0] = "leave" /\ up[c0] = <<"bye">> /\ down[c0] = <<>>
          /\ (prog = "chat" => asked[c0] = got[c0] + 1)
          /\ (prog = "pool" => asked[c0] = got[c0])
      BY <1>2, <1>4, <2>4 DEF TalkInv
    <3>3. /\ up'[c0] = <<>>
          /\ prog = "chat" => Len(down'[c0]) = 1
          /\ prog = "pool" => down'[c0] = <<>>
      BY <1>0, <3>1, <3>2 DEF Answers
    <3>4. ASSUME NEW d \in Clients PROVE TalkInv(d)'
      <4>1. CASE d = c0
        BY <1>0, <3>2, <3>3, <4>1 DEF TalkInv
      <4>2. CASE d # c0
        <5>1. up'[d] = up[d] /\ down'[d] = down[d]
          BY <1>0, <3>1, <4>2
        <5> QED BY <1>0, <1>2, <2>2, <5>1, <4>2 DEF TalkInv
      <4> QED BY <4>1, <4>2
    <3>5. \A d \in Clients : cpc'[d] = "connect" => up'[d] = <<>> /\ down'[d] = <<>> /\ got'[d] = 0
      <4>1. \A d \in Clients : d # c0 => up'[d] = up[d] /\ down'[d] = down[d]
        BY <1>0, <3>1
      <4> QED BY <1>0, <1>2, <4>1
    <3>6. AccountInv'
      BY <1>0, <3>4, <3>5 DEF AccountInv
    <3> QED BY <2>2, <3>6
  <2> QED BY <2>3, <2>4
<1> QED BY <1>3, <1>4

LEMMA AddStep ==
  ASSUME Steady, NEW p \in Procs, pool_add_task(p), prog = "pool"
  PROVE  ServedInv' /\ AccountInv'
<1>c. PICK c0 : c0 = cur[0]
  OBVIOUS
<1>0. PICK q \in Procs :
      /\ q = 0 \/ spc[q] = "asleep"
      /\ spc' = [spc EXCEPT ![0] = "accept", ![q] = IF q = 0 THEN "accept" ELSE "take"]
  BY ProcsFact DEF pool_add_task
<1>1. /\ spc[0] = "add" /\ c0 \in Clients /\ c0 # None /\ tasks' = Append(tasks, c0)
      /\ UNCHANGED <<prog, cur, open, backlog, up, down, cpc, say, got, asked, faults>>
      /\ spc = [r \in Procs |-> spc[r]] /\ tasks \in Seq(Clients \cup {None})
  BY <1>c, ProcsFact DEF pool_add_task, streams, client, Steady, ServersTypeOK, ServedInv
<1>2. /\ Len(tasks) \in Nat /\ DOMAIN tasks = 1 .. Len(tasks) /\ DOMAIN tasks' = 1 .. Len(tasks) + 1
      /\ \A k \in 1 .. Len(tasks) : tasks'[k] = tasks[k]
      /\ tasks'[Len(tasks) + 1] = c0
  BY <1>1, AppendFact
<1>3. \A d \in Clients, r \in Procs :
         /\ Serves(r, d)' <=> r # 0 /\ Serves(r, d)
         /\ Keeps(r, d)' <=> r # 0 /\ Keeps(r, d)
         /\ Serves(0, d) <=> d = c0
         /\ Keeps(0, d) <=> d = c0
         /\ Serves(r, d) => Keeps(r, d)
  BY <1>c, <1>0, <1>1, ProcsFact DEF Serves, Keeps
<1>4. \A d \in Clients : (Accepted(d)' <=> Accepted(d)) /\ (Waiting(d)' <=> Waiting(d) \/ d = c0)
  <2>1. \A d \in Clients : Accepted(d)' <=> Accepted(d)
    BY <1>1 DEF Accepted
  <2>2. Len(tasks) + 1 \in DOMAIN tasks' /\ \A k \in DOMAIN tasks : k \in DOMAIN tasks'
    BY <1>2
  <2>3. \A k \in DOMAIN tasks' : k \in DOMAIN tasks \/ k = Len(tasks) + 1
    BY <1>2
  <2>4. \A d \in Clients : Waiting(d)' <=> Waiting(d) \/ d = c0
    BY <1>2, <2>2, <2>3 DEF Waiting
  <2> QED BY <2>1, <2>4
<1>5. \A d \in Clients : Pending(d)' <=> Pending(d)
  BY <1>3, <1>4, ProcsFact DEF Pending
<1>6. ServedInv'
  <2>1. ~Waiting(c0) /\ Accepted(c0) /\ 0 \in open[c0]
    BY <1>1, <1>3, ProcsFact DEF Steady, ServedInv, Holder
  <2>2. /\ \A c \in Clients, r \in Procs : Keeps(r, c)' => Accepted(c)'
        /\ \A c \in Clients : Waiting(c)' => Accepted(c)'
    BY <1>3, <1>4, <2>1 DEF Steady, ServedInv
  <2>3. /\ \A c \in Clients, r \in Procs : Serves(r, c)' => Holder(r)' \in open'[c]
        /\ \A c \in Clients : Waiting(c)' => 0 \in open'[c]
    BY <1>1, <1>3, <1>4, <2>1 DEF Steady, ServedInv, Holder
  <2>4. /\ \A c \in Clients, r, u \in Procs : Serves(u, c)' /\ Serves(r, c)' => u = r
        /\ \A c \in Clients, u, r \in Procs : Keeps(u, c)' /\ Keeps(r, c)' => u = r
    BY <1>3 DEF Steady, ServedInv
  <2>5. \A c \in Clients, r \in Procs : Keeps(r, c)' => ~Waiting(c)'
    BY <1>3, <1>4, ProcsFact DEF Steady, ServedInv
  <2>6. /\ \A j, k \in DOMAIN tasks' : tasks'[j] = tasks'[k] => j = k
        /\ \A k \in DOMAIN tasks' : tasks'[k] # None
    <3>1. /\ \A j, k \in DOMAIN tasks : tasks[j] = tasks[k] => j = k
          /\ \A k \in DOMAIN tasks : tasks[k] # None /\ tasks[k] # c0
      BY <2>1 DEF Steady, ServedInv, Waiting
    <3> QED BY <1>1, <1>2, <3>1
  <2>7. \A r \in Procs : spc'[r] \in {"job", "fork", "talk", "add"} => cur'[r] # None
    BY <1>0, <1>1, ProcsFact DEF Steady, ServedInv
  <2> QED BY <1>1, <2>2, <2>3, <2>4, <2>5, <2>6, <2>7 DEF Steady, ServedInv
<1>7. AccountInv'
  BY <1>1, <1>4, <1>5 DEF Steady, AccountInv, StampInv, TalkInv
<1> QED BY <1>6, <1>7

LEMMA TakeStep ==
  ASSUME Steady, NEW p \in Procs, worker_thread(p), prog = "pool", tasks # <<>>
  PROVE  ServedInv' /\ AccountInv'
<1>c. PICK c0 : c0 = Head(tasks)
  OBVIOUS
<1>0. /\ spc[p] = "take" /\ spc' = [spc EXCEPT ![p] = "talk"] /\ cur' = [cur EXCEPT ![p] = c0]
      /\ tasks' = Tail(tasks)
      /\ UNCHANGED <<prog, open, backlog, up, down, cpc, say, got, asked, faults>>
      /\ spc = [r \in Procs |-> spc[r]] /\ cur \in [Procs -> Clients \cup {None}]
      /\ tasks \in Seq(Clients \cup {None})
  BY <1>c DEF worker_thread, At, streams, client, Steady, ServersTypeOK
<1>1. /\ Len(tasks) \in Nat \ {0} /\ DOMAIN tasks = 1 .. Len(tasks) /\ DOMAIN tasks' = 1 .. Len(tasks) - 1
      /\ \A k \in 1 .. Len(tasks) - 1 : tasks'[k] = tasks[k + 1]
      /\ tasks[1] = c0 /\ c0 \in Clients \cup {None}
  BY <1>c, <1>0, TailFact
<1>2. /\ \A j, k \in DOMAIN tasks : tasks[j] = tasks[k] => j = k
      /\ \A k \in DOMAIN tasks : tasks[k] # None
  BY DEF Steady, ServedInv
<1>3. c0 \in Clients /\ c0 # None /\ Waiting(c0)
  BY <1>1, <1>2 DEF Waiting
<1>4. \A d \in Clients : (Accepted(d)' <=> Accepted(d)) /\ (Waiting(d)' <=> Waiting(d) /\ d # c0)
  <2>1. \A d \in Clients : Accepted(d)' <=> Accepted(d)
    BY <1>0 DEF Accepted
  <2>2. \A k \in DOMAIN tasks' : k + 1 \in DOMAIN tasks /\ tasks'[k] = tasks[k + 1] /\ tasks'[k] # c0
    BY <1>1, <1>2
  <2>3. \A k \in DOMAIN tasks : k = 1 \/ (k - 1 \in DOMAIN tasks' /\ tasks'[k - 1] = tasks[k])
    BY <1>1
  <2>4. \A d \in Clients : Waiting(d)' <=> Waiting(d) /\ d # c0
    BY <1>1, <2>2, <2>3 DEF Waiting
  <2> QED BY <2>1, <2>4
<1>5. \A d \in Clients, r \in Procs :
         /\ Serves(r, d)' <=> (r = p /\ d = c0) \/ Serves(r, d)
         /\ Keeps(r, d)' <=> (r = p /\ d = c0) \/ Keeps(r, d)
         /\ Keeps(r, d) => r # p /\ d # c0
         /\ Serves(r, d) => Keeps(r, d)
  BY <1>0, <1>3 DEF Serves, Keeps, Steady, ServedInv
<1>6. \A d \in Clients : Pending(d)' <=> Pending(d)
  BY <1>3, <1>4, <1>5 DEF Pending
<1>7. ServedInv'
  <2>2. /\ \A c \in Clients, r \in Procs : Keeps(r, c)' => Accepted(c)'
        /\ \A c \in Clients : Waiting(c)' => Accepted(c)'
    BY <1>3, <1>4, <1>5 DEF Steady, ServedInv
  <2>3. /\ \A c \in Clients, r \in Procs : Serves(r, c)' => Holder(r)' \in open'[c]
        /\ \A c \in Clients : Waiting(c)' => 0 \in open'[c]
    BY <1>0, <1>3, <1>4, <1>5 DEF Steady, ServedInv, Holder
  <2>4. /\ \A c \in Clients, r, u \in Procs : Serves(u, c)' /\ Serves(r, c)' => u = r
        /\ \A c \in Clients, u, r \in Procs : Keeps(u, c)' /\ Keeps(r, c)' => u = r
    BY <1>5 DEF Steady, ServedInv
  <2>5. \A c \in Clients, r \in Procs : Keeps(r, c)' => ~Waiting(c)'
    BY <1>4, <1>5 DEF Steady, ServedInv
  <2>6. /\ \A j, k \in DOMAIN tasks' : tasks'[j] = tasks'[k] => j = k
        /\ \A k \in DOMAIN tasks' : tasks'[k] # None
    <3>1. \A k \in DOMAIN tasks' : k \in Int /\ k + 1 \in DOMAIN tasks /\ tasks'[k] = tasks[k + 1]
      BY <1>1
    <3>2. \A j, k \in DOMAIN tasks' : tasks'[j] = tasks'[k] => j + 1 = k + 1
      BY <1>2, <3>1
    <3> QED BY <1>2, <3>1, <3>2
  <2>7. \A r \in Procs : spc'[r] \in {"job", "fork", "talk", "add"} => cur'[r] # None
    BY <1>0, <1>3 DEF Steady, ServedInv
  <2> QED BY <1>0, <2>2, <2>3, <2>4, <2>5, <2>6, <2>7 DEF Steady, ServedInv
<1>8. AccountInv'
  BY <1>0, <1>4, <1>6 DEF Steady, AccountInv, StampInv, TalkInv
<1> QED BY <1>7, <1>8

-----------------------------------------------------------------------------
\* Servers: the clients, and the invariant.

\* A client that has connected goes on: no connection changes hands.
LEMMA ClientFrame ==
  ASSUME Steady, NEW c \in Clients, NEW b, b # "connect", cpc[c] # "connect",
         cpc' = [cpc EXCEPT ![c] = b], UNCHANGED <<prog, spc, cur, open, tasks, backlog>>
  PROVE  /\ ServedInv'
         /\ \A d \in Clients : (Accepted(d)' <=> Accepted(d)) /\ (Pending(d)' <=> Pending(d))
         /\ \A d \in Clients : d # c => cpc'[d] = cpc[d]
         /\ cpc'[c] = b
<1>0. cpc = [d \in Clients |-> cpc[d]] /\ backlog \in Seq(Clients)
  BY DEF Steady, ServersTypeOK
<1>1. (\A d \in Clients : d # c => cpc'[d] = cpc[d]) /\ cpc'[c] = b
  BY <1>0
<1>2. \A d \in Clients : (Accepted(d)' <=> Accepted(d)) /\ (Waiting(d)' <=> Waiting(d))
  BY <1>1 DEF Accepted, Waiting
<1>3. \A d \in Clients, q \in Procs : (Serves(q, d)' <=> Serves(q, d)) /\ (Keeps(q, d)' <=> Keeps(q, d))
  BY DEF Serves, Keeps
<1>4. \A d \in Clients : Pending(d)' <=> Pending(d)
  BY <1>2, <1>3 DEF Pending
<1>5. \A k \in DOMAIN backlog : backlog[k] \in Clients /\ cpc'[backlog[k]] # "connect"
  <2>1. \A k \in DOMAIN backlog : backlog[k] \in Clients
    BY <1>0
  <2> QED BY <1>1, <2>1 DEF Steady, ServedInv
<1>6. ServedInv'
  BY <1>2, <1>3, <1>5 DEF Steady, ServedInv, Holder
<1> QED BY <1>1, <1>2, <1>4, <1>6

LEMMA ConnectStep ==
  ASSUME Steady, NEW c \in Clients, connect(c)
  PROVE  ServedInv' /\ AccountInv'
<1>0. /\ cpc[c] = "connect" /\ backlog' = Append(backlog, c)
      /\ cpc' = [cpc EXCEPT ![c] = IF prog \in {"chat", "pool"} THEN "say" ELSE "scan"]
      /\ asked' = [asked EXCEPT ![c] = IF prog \in {"chat", "pool"} THEN 0 ELSE 1]
      /\ UNCHANGED <<prog, spc, cur, open, tasks, up, down, say, got, faults>>
      /\ cpc = [d \in Clients |-> cpc[d]] /\ backlog \in Seq(Clients) /\ asked \in [Clients -> Nat]
      /\ prog \in {"static", "fork", "chat", "pool"}
  BY DEF connect, server, streams, Steady, ServersTypeOK
<1>1. /\ Len(backlog) \in Nat /\ DOMAIN backlog = 1 .. Len(backlog)
      /\ DOMAIN backlog' = 1 .. Len(backlog) + 1
      /\ \A k \in 1 .. Len(backlog) : backlog'[k] = backlog[k]
      /\ backlog'[Len(backlog) + 1] = c
  BY <1>0, AppendFact
<1>2. \A d \in Clients : d # c => cpc'[d] = cpc[d] /\ asked'[d] = asked[d]
  BY <1>0
<1>3. \A k \in DOMAIN backlog : backlog[k] \in Clients /\ cpc[backlog[k]] # "connect" /\ backlog[k] # c
  <2>1. \A k \in DOMAIN backlog : backlog[k] \in Clients
    BY <1>0
  <2> QED BY <1>0, <2>1 DEF Steady, ServedInv
<1>4. ~Accepted(c) /\ ~Accepted(c)'
  <2>1. Len(backlog) + 1 \in DOMAIN backlog'
    BY <1>1
  <2> QED BY <1>0, <1>1, <2>1 DEF Accepted
<1>5. ASSUME NEW d \in Clients, d # c PROVE Accepted(d)' <=> Accepted(d)
  <2>1. \A k \in DOMAIN backlog' : k = Len(backlog) + 1 \/ (k \in DOMAIN backlog /\ backlog'[k] = backlog[k])
    BY <1>1
  <2>2. \A k \in DOMAIN backlog : k \in DOMAIN backlog' /\ backlog'[k] = backlog[k]
    BY <1>1
  <2> QED BY <1>1, <1>2, <1>5, <2>1, <2>2 DEF Accepted
<1>6. \A d \in Clients : Accepted(d)' <=> Accepted(d)
  BY <1>4, <1>5
<1>7. \A d \in Clients, q \in Procs : (Serves(q, d)' <=> Serves(q, d)) /\ (Keeps(q, d)' <=> Keeps(q, d))
  BY <1>0 DEF Serves, Keeps
<1>8. \A d \in Clients : (Waiting(d)' <=> Waiting(d)) /\ (Pending(d)' <=> Pending(d))
  BY <1>0, <1>7 DEF Pending, Waiting
<1>9. ServedInv'
  <2>1. \A k \in DOMAIN backlog' : cpc'[backlog'[k]] # "connect"
    <3>1. cpc'[c] # "connect"
      BY <1>0
    <3>2. \A k \in DOMAIN backlog' : k = Len(backlog) + 1 \/ (k \in DOMAIN backlog /\ backlog'[k] = backlog[k])
      BY <1>1
    <3> QED BY <1>1, <1>2, <1>3, <3>1, <3>2
  <2>2. \A j, k \in DOMAIN backlog' : backlog'[j] = backlog'[k] => j = k
    <3>1. \A j, k \in DOMAIN backlog : backlog[j] = backlog[k] => j = k
      BY DEF Steady, ServedInv
    <3> QED BY <1>1, <1>3, <3>1
  <2> QED BY <1>0, <1>6, <1>7, <1>8, <2>1, <2>2 DEF Steady, ServedInv, Holder
<1>10. ASSUME NEW d \in Clients
       PROVE /\ cpc'[d] = "connect" => up'[d] = <<>> /\ down'[d] = <<>> /\ got'[d] = 0
             /\ prog' \in {"static", "fork"} => StampInv(d)'
             /\ prog' \in {"chat", "pool"} => TalkInv(d)'
  <2>1. CASE d = c
    <3>1. up[c] = <<>> /\ down[c] = <<>> /\ got[c] = 0
      BY <1>0 DEF Steady, AccountInv
    <3>2. CASE prog \in {"chat", "pool"}
      <4>1. cpc'[c] = "say" /\ asked'[c] = 0
        BY <1>0, <3>2
      <4> QED BY <1>0, <1>4, <2>1, <3>1, <3>2, <4>1 DEF TalkInv
    <3>3. CASE prog \in {"static", "fork"}
      <4>1. cpc'[c] = "scan" /\ asked'[c] = 1
        BY <1>0, <3>3
      <4> QED BY <1>0, <1>4, <2>1, <3>1, <3>3, <4>1 DEF StampInv
    <3> QED BY <1>0, <3>2, <3>3
  <2>2. CASE d # c
    BY <1>0, <1>2, <1>6, <1>8, <2>2 DEF Steady, AccountInv, StampInv, TalkInv
  <2> QED BY <2>1, <2>2
<1>11. AccountInv'
  BY <1>10 DEF AccountInv
<1> QED BY <1>9, <1>11

LEMMA ScanStep ==
  ASSUME Steady, NEW c \in Clients, scan_stamp(c)
  PROVE  ServedInv' /\ AccountInv'
<1>0. /\ cpc[c] = "scan" /\ cpc' = [cpc EXCEPT ![c] = "done"]
      /\ got' = [got EXCEPT ![c] = Len(down[c])] /\ down' = [down EXCEPT ![c] = <<>>]
      /\ UNCHANGED <<prog, spc, cur, open, tasks, backlog, up, say, asked, faults>>
      /\ got \in [Clients -> Nat] /\ down \in [Clients -> Seq(Answers)]
      /\ prog \in {"static", "fork", "chat", "pool"}
  BY DEF scan_stamp, server, Steady, ServersTypeOK
<1>1. Accepted(c) /\ ~Pending(c)
  BY PendingFact DEF scan_stamp, Eof
<1>2. /\ ServedInv'
      /\ \A d \in Clients : (Accepted(d)' <=> Accepted(d)) /\ (Pending(d)' <=> Pending(d))
      /\ \A d \in Clients : d # c => cpc'[d] = cpc[d]
      /\ cpc'[c] = "done"
  BY <1>0, ClientFrame
<1>3. prog \in {"static", "fork"} /\ asked[c] = 1 /\ Len(down[c]) = 1
  BY <1>0, <1>1 DEF Steady, AccountInv, StampInv, TalkInv
<1>4. /\ got'[c] = 1 /\ down'[c] = <<>>
      /\ \A d \in Clients : d # c => got'[d] = got[d] /\ down'[d] = down[d]
  BY <1>0, <1>3
<1>5. ASSUME NEW d \in Clients
      PROVE /\ cpc'[d] = "connect" => up'[d] = <<>> /\ down'[d] = <<>> /\ got'[d] = 0
            /\ StampInv(d)'
  <2>1. CASE d = c
    BY <1>0, <1>1, <1>2, <1>3, <1>4, <2>1 DEF StampInv
  <2>2. CASE d # c
    BY <1>0, <1>2, <1>3, <1>4, <2>2 DEF Steady, AccountInv, StampInv
  <2> QED BY <2>1, <2>2
<1>6. AccountInv'
  BY <1>0, <1>3, <1>5 DEF AccountInv
<1> QED BY <1>2, <1>6

\* The clients of "chat" and "pool": what one of them does leaves the others'
\* accounts alone.
LEMMA TalkFrame ==
  ASSUME Steady, NEW c \in Clients, NEW b, b # "connect", cpc[c] \in {"say", "read", "leave"},
         cpc' = [cpc EXCEPT ![c] = b], UNCHANGED <<prog, spc, cur, open, tasks, backlog>>,
         \A d \in Clients : d # c => /\ up'[d] = up[d] /\ down'[d] = down[d]
                                     /\ asked'[d] = asked[d] /\ got'[d] = got[d],
         TalkInv(c)'
  PROVE  ServedInv' /\ AccountInv'
<1>1. /\ ServedInv'
      /\ \A d \in Clients : (Accepted(d)' <=> Accepted(d)) /\ (Pending(d)' <=> Pending(d))
      /\ \A d \in Clients : d # c => cpc'[d] = cpc[d]
      /\ cpc'[c] = b
  BY ClientFrame
<1>2. prog \in {"chat", "pool"}
  BY DEF Steady, AccountInv, StampInv, ServersTypeOK
<1>3. ASSUME NEW d \in Clients, d # c
      PROVE /\ cpc'[d] = "connect" => up'[d] = <<>> /\ down'[d] = <<>> /\ got'[d] = 0
            /\ TalkInv(d)'
  BY <1>1, <1>2, <1>3 DEF Steady, AccountInv, TalkInv
<1>4. AccountInv'
  BY <1>1, <1>2, <1>3 DEF AccountInv
<1> QED BY <1>1, <1>4

LEMMA SayStep ==
  ASSUME Steady, NEW c \in Clients, say_line(c)
  PROVE  ServedInv' /\ AccountInv'
<1>0. /\ cpc[c] = "say"
      /\ UNCHANGED <<prog, spc, cur, open, tasks, backlog, down, got, faults>>
      /\ up \in [Clients -> Seq(Words)] /\ say \in [Clients -> Seq(Words)]
      /\ asked \in [Clients -> Nat] /\ got \in [Clients -> Nat]
      /\ prog \in {"static", "fork", "chat", "pool"}
  BY DEF say_line, server, Steady, ServersTypeOK
<1>1. /\ prog \in {"chat", "pool"} /\ up[c] = <<>> /\ down[c] = <<>> /\ asked[c] = got[c]
      /\ Accepted(c) => Pending(c)
  BY <1>0 DEF Steady, AccountInv, StampInv, TalkInv
<1>2. PICK b \in {"done", "read", "leave"} : cpc' = [cpc EXCEPT ![c] = b]
  BY DEF say_line
<1>3. /\ \A d \in Clients : (Accepted(d)' <=> Accepted(d)) /\ (Pending(d)' <=> Pending(d))
      /\ cpc'[c] = b
  BY <1>0, <1>2, ClientFrame
<1>4. CASE say[c] = <<>>
  <2>1. b = (IF prog = "pool" THEN "done" ELSE "read") /\ UNCHANGED <<say, up, asked>>
    BY <1>3, <1>4, <1>0 DEF say_line, Steady, ServersTypeOK
  <2>2. TalkInv(c)'
    BY <1>0, <1>1, <1>3, <2>1 DEF TalkInv
  <2> QED BY <1>0, <1>2, <2>1, <2>2, TalkFrame
<1>5. CASE say[c] # <<>>
  <2>1. /\ up' = [up EXCEPT ![c] = Append(@, Head(say[c]))]
        /\ asked' = [asked EXCEPT ![c] = IF prog = "pool" /\ Head(say[c]) = "bye" THEN @ ELSE @ + 1]
        /\ b = IF Head(say[c]) = "bye" THEN "leave" ELSE "read"
    BY <1>3, <1>5, <1>0 DEF say_line, Steady, ServersTypeOK
  <2>2. Head(say[c]) \in Words
    BY <1>0, <1>5, TailFact
  <2>3. /\ \A d \in Clients : d # c => up'[d] = up[d] /\ asked'[d] = asked[d]
        /\ up'[c] = <<Head(say[c])>>
    BY <1>0, <1>1, <2>1, <2>2
  <2>4. asked'[c] = IF prog = "pool" /\ Head(say[c]) = "bye" THEN got[c] ELSE got[c] + 1
    BY <1>0, <1>1, <2>1
  <2>5. CASE Head(say[c]) = "bye"
    <3>1. TalkInv(c)'
      BY <1>0, <1>1, <1>3, <2>1, <2>3, <2>4, <2>5 DEF TalkInv
    <3> QED BY <1>0, <1>2, <2>3, <3>1, TalkFrame
  <2>6. CASE Head(say[c]) = "line"
    <3>1. TalkInv(c)'
      BY <1>0, <1>1, <1>3, <2>1, <2>3, <2>4, <2>6 DEF TalkInv
    <3> QED BY <1>0, <1>2, <2>3, <3>1, TalkFrame
  <2> QED BY <2>2, <2>5, <2>6 DEF Words
<1> QED BY <1>4, <1>5

LEMMA ReadStep ==
  ASSUME Steady, NEW c \in Clients, read_answer(c)
  PROVE  ServedInv' /\ AccountInv'
<1>0. /\ cpc[c] \in {"read", "leave"}
      /\ UNCHANGED <<prog, spc, cur, open, tasks, backlog, up, say, asked, faults>>
      /\ down \in [Clients -> Seq(Answers)] /\ up \in [Clients -> Seq(Words)]
      /\ asked \in [Clients -> Nat] /\ got \in [Clients -> Nat]
      /\ prog \in {"static", "fork", "chat", "pool"} /\ cpc = [d \in Clients |-> cpc[d]]
  BY DEF read_answer, server, Steady, ServersTypeOK
<1>1. prog \in {"chat", "pool"} /\ TalkInv(c)
  BY <1>0 DEF Steady, AccountInv, StampInv
<1>2. PICK b \in {"done", "say"} : cpc' = [cpc EXCEPT ![c] = b]
  BY DEF read_answer
<1>3. /\ \A d \in Clients : (Accepted(d)' <=> Accepted(d)) /\ (Pending(d)' <=> Pending(d))
      /\ cpc'[c] = b
  BY <1>0, <1>2, ClientFrame
<1>4. CASE down[c] # <<>>
  <2>1. /\ down' = [down EXCEPT ![c] = Tail(@)] /\ got' = [got EXCEPT ![c] = @ + 1]
        /\ b = IF cpc[c] = "leave" THEN "done" ELSE "say"
    BY <1>0, <1>3, <1>4 DEF read_answer
  <2>2. /\ \A d \in Clients : d # c => down'[d] = down[d] /\ got'[d] = got[d]
        /\ got'[c] = got[c] + 1
    BY <1>0, <2>1
  <2>3. up[c] = <<>> /\ Len(down[c]) = 1 /\ asked[c] = got[c] + 1
    BY <1>0, <1>1, <1>4 DEF TalkInv
  <2>4. down'[c] = <<>>
    <3>1. Tail(down[c]) \in Seq(Answers) /\ Len(Tail(down[c])) = 0
      BY <1>0, <1>4, <2>3, TailFact
    <3> QED BY <1>0, <2>1, <3>1, EmptySeq
  <2>5. TalkInv(c)'
    BY <1>0, <1>1, <1>3, <2>1, <2>2, <2>3, <2>4 DEF TalkInv
  <2> QED BY <1>0, <1>2, <2>2, <2>5, TalkFrame
<1>5. CASE down[c] = <<>>
  <2>1. Eof(c) /\ b = "done" /\ UNCHANGED <<down, got>>
    BY <1>0, <1>3, <1>5 DEF read_answer
  <2>2. Accepted(c) /\ ~Pending(c)
    BY <2>1, PendingFact DEF Eof
  <2>3. up[c] = <<>> /\ asked[c] = got[c]
    <3>1. cpc[c] = "leave" /\ up[c] = <<>>
      BY <1>0, <1>1, <2>2 DEF TalkInv
    <3>2. <<"bye">> # <<>> /\ Len(down[c]) # 1
      BY <1>5
    <3> QED BY <1>1, <1>5, <3>1, <3>2 DEF TalkInv
  <2>4. TalkInv(c)'
    BY <1>0, <1>3, <1>5, <2>1, <2>3 DEF TalkInv
  <2> QED BY <1>0, <1>2, <2>1, <2>4, TalkFrame
<1> QED BY <1>4, <1>5

LEMMA ServedStep ==
  ASSUME Steady, Next, faults = 0, faults' = 0
  PROVE  ServedInv' /\ AccountInv'
<1>1. ASSUME NEW p \in Procs, NEW a, ExitOnError(p, a) \/ accept_unchecked(p) PROVE FALSE
  BY <1>1 DEF ExitOnError, accept_unchecked
<1>2. ASSUME NEW p \in Procs, Server(p), prog = "static" PROVE ServedInv' /\ AccountInv'
  <2>1. accept(p, "job") => ServedInv' /\ AccountInv'
    BY <1>2, AcceptStep
  <2>2. server_job(p) => ServedInv' /\ AccountInv'
    BY <1>2, JobStep
  <2>3. close(p, "accept", p) => ServedInv' /\ AccountInv'
    BY <1>2, CloseStep DEF Holder
  <2>4. At(p, "wait", "exited") /\ UNCHANGED <<prog, cur, open, tasks, backlog, streams, client, faults>>
          => ServedInv' /\ AccountInv'
    BY QuietStep DEF streams, client
  <2> QED BY <1>1, <1>2, <2>1, <2>2, <2>3, <2>4, ServerCases
<1>3. ASSUME NEW p \in Procs, Server(p), prog = "fork" PROVE ServedInv' /\ AccountInv'
  <2>1. accept(p, "fork") => ServedInv' /\ AccountInv'
    BY <1>3, AcceptStep
  <2>2. server_job(p) => ServedInv' /\ AccountInv'
    BY <1>3, JobStep
  <2>3. close(p, "accept", p) \/ close(p, "zombie", p) => ServedInv' /\ AccountInv'
    BY <1>3, CloseStep DEF Holder
  <2>4. (\E q \in Procs : fork(p, "fork", q, "job")) => ServedInv' /\ AccountInv'
    BY <1>3, ForkStep
  <2> QED BY <1>1, <1>3, <2>1, <2>2, <2>3, <2>4 DEF Server, basic_server
<1>4. ASSUME NEW p \in Procs, Server(p), prog = "chat" PROVE ServedInv' /\ AccountInv'
  <2>1. accept(p, "fork") => ServedInv' /\ AccountInv'
    BY <1>4, AcceptStep
  <2>2. Talk(p, TRUE) => ServedInv' /\ AccountInv'
    BY <1>4, TalkStep
  <2>3. close(p, "accept", p) => ServedInv' /\ AccountInv'
    BY <1>4, CloseStep DEF Holder
  <2>4. (\E q \in Procs : fork(p, "fork", q, "talk")) => ServedInv' /\ AccountInv'
    BY <1>4, ForkStep
  <2> QED BY <1>1, <1>4, <2>1, <2>2, <2>3, <2>4 DEF Server, chat_server
<1>5. ASSUME NEW p \in Procs, Server(p), prog = "pool" PROVE ServedInv' /\ AccountInv'
  <2>1. p = 0 /\ accept(p, "add") => ServedInv' /\ AccountInv'
    BY <1>5, AcceptStep
  <2>2. Talk(p, FALSE) => ServedInv' /\ AccountInv'
    BY <1>5, TalkStep
  <2>3. close(p, "take", 0) => ServedInv' /\ AccountInv'
    BY <1>5, CloseStep DEF Holder
  <2>4. ~(cur[p] = None /\ At(p, "talk", "close"))
    BY DEF At, Steady, ServedInv
  <2>5. pool_add_task(p) => ServedInv' /\ AccountInv'
    BY <1>5, AddStep
  <2>6. worker_thread(p) => ServedInv' /\ AccountInv'
    <3>1. worker_thread(p) /\ tasks = <<>> => ServedInv' /\ AccountInv'
      BY QuietStep DEF worker_thread, streams, client
    <3> QED BY <1>5, <3>1, TakeStep
  <2> QED BY <1>1, <1>5, <2>1, <2>2, <2>3, <2>4, <2>5, <2>6 DEF Server, thread_pool, handle_client
<1>6. ASSUME NEW p \in Procs, SpuriousWakeup(p) PROVE ServedInv' /\ AccountInv'
  BY <1>6, QuietStep DEF SpuriousWakeup, streams, client
<1>7. ASSUME NEW c \in Clients, Client(c) PROVE ServedInv' /\ AccountInv'
  BY <1>7, ConnectStep, ScanStep, SayStep, ReadStep DEF Client
<1>8. prog \in {"static", "fork", "chat", "pool"}
  BY DEF Steady, ServersTypeOK
<1> QED BY <1>2, <1>3, <1>4, <1>5, <1>6, <1>7, <1>8 DEF Next

\* A call that failed is not forgotten.
LEMMA FaultsStep ==
  ASSUME ServersTypeOK, [Next]_vars, faults' = 0
  PROVE  faults = 0
<1>1. ASSUME NEW p \in Procs, Server(p) \/ SpuriousWakeup(p) PROVE faults' = faults \/ faults' = faults + 1
  BY <1>1 DEF Server, server_loop, basic_server, chat_server, thread_pool, handle_client, accept, ExitOnError,
     fork, close, server_job, Talk, pool_add_task, worker_thread, accept_unchecked, SpuriousWakeup
<1>2. ASSUME NEW c \in Clients, Client(c) PROVE faults' = faults
  BY <1>2 DEF Client, connect, scan_stamp, say_line, read_answer
<1>3. faults' = faults \/ faults' = faults + 1
  BY <1>1, <1>2 DEF Next, vars
<1> QED BY <1>3 DEF ServersTypeOK

LEMMA ServersNextInv ==
  ServersInv /\ [Next]_vars => ServersInv'
<1> SUFFICES ASSUME ServersInv, [Next]_vars PROVE ServersInv'
  OBVIOUS
<1>1. ServersTypeOK' /\ PointsInv' /\ NoTaskForgotten'
  BY ServersTypeStep, PointsStep, NoTaskStep DEF ServersInv
<1>2. ASSUME faults' = 0 PROVE ServedInv' /\ AccountInv'
  <2>1. faults = 0
    BY <1>2, FaultsStep DEF ServersInv
  <2>2. Steady
    BY <2>1 DEF ServersInv, Steady
  <2>3. CASE Next
    BY <1>2, <2>1, <2>2, <2>3, ServedStep
  <2>4. CASE UNCHANGED vars
    <3>1. UNCHANGED <<prog, spc, cur, open, tasks, backlog, up, down, cpc, say, got, asked>>
      BY <2>4 DEF vars, server, streams, client
    <3>2. \A q \in Procs, d \in Clients : (Serves(q, d)' <=> Serves(q, d)) /\ (Keeps(q, d)' <=> Keeps(q, d))
      BY <3>1 DEF Serves, Keeps
    <3>3. \A q \in Procs : spc'[q] \in {"job", "fork", "talk", "add"} => cur'[q] # None
      BY <2>2, <3>1 DEF Steady, ServedInv
    <3> QED BY <2>2, <3>1, <3>2, <3>3, SameStep
  <2> QED BY <2>3, <2>4
<1> QED BY <1>1, <1>2 DEF ServersInv

LEMMA ServersInvariance == ExchangeSpec => []ServersInv
<1>1. ExchangeInit => ServersInv
  BY ServersInitInv DEF ExchangeInit
<1>2. ServersInv /\ [ExchangeNext]_exchangeVars => ServersInv'
  <2>1. [ExchangeNext]_exchangeVars => [Next]_vars
    BY DEF ExchangeNext, exchangeVars
  <2> QED BY <2>1, ServersNextInv
<1> QED BY <1>1, <1>2, PTL DEF ExchangeSpec

\* However a connection is handed on, by fork, by a list of tasks or not at
\* all, and however many clients and processes there are: while no call has
\* failed, a client that is done has got what it asked for, once.
THEOREM AnswersArrive == ExchangeSpec => []AnsweredInFull
<1>1. ServersInv => AnsweredInFull
  BY DEF ServersInv, ServersTypeOK, AnsweredInFull, AccountInv, StampInv, TalkInv
<1> QED BY <1>1, ServersInvariance, PTL

\* pool_add_task signals once for every task, and workers look at the list
\* before they sleep: with any number of workers, whoever sleeps leaves enough
\* of the others on their way for the tasks there are.
THEOREM TasksTaken == ExchangeSpec => []NoTaskForgotten
<1>1. ServersInv => NoTaskForgotten
  BY DEF ServersInv
<1> QED BY <1>1, ServersInvariance, PTL

-----------------------------------------------------------------------------
(***************************************************************************)
(* MyFtp.                                                                  *)
(***************************************************************************)

Messages == [mtype : {"PATH", "DATA", "EOT"}, of : FtpClients, n : Nat]
Packets  == FtpClients \X Nat

FtpTypeOK ==
    /\ queue \in Seq(Messages)
    /\ phase \in {"wait", "send"} /\ (phase = "send" => request \in FtpClients)
    /\ next \in Nat \ {0}
    /\ stage = [c \in FtpClients |-> stage[c]]
    /\ size \in [FtpClients -> Int]
    /\ saved \in [FtpClients -> Seq(Packets)]
    /\ lost \subseteq Packets
    /\ given \in [FtpClients -> Nat]

\* A client asks once, and its file is sent once.
RequestInv ==
    /\ phase = "send" => given[request] = next - 1
    /\ \A j, k \in DOMAIN queue :
         queue[j].mtype = "PATH" /\ queue[k].mtype = "PATH" /\ queue[j].of = queue[k].of => j = k
    /\ \A k \in DOMAIN queue : queue[k].mtype = "PATH" =>
         /\ given[queue[k].of] = 0 /\ stage[queue[k].of] # "ask"
         /\ ~(phase = "send" /\ request = queue[k].of)
    /\ \A f \in FtpClients : stage[f] = "ask" => given[f] = 0 /\ ~(phase = "send" /\ request = f)

FtpInv == FtpTypeOK /\ RequestInv /\ PacketsOnce

\* What the queue holds of a file, and in which order.
Contents(f) == {queue[k].n : k \in Queued(f)}
InOrder(f)  == \A j, k \in Queued(f) : j < k => queue[j].n < queue[k].n

LEMMA Least ==
  ASSUME NEW T, T \subseteq Nat, T # {}
  PROVE  \E m \in T : \A n \in T : m <= n
<1>1. PICK x \in T : \A y \in T : ~(<<y, x>> \in OpToRel(<, Nat))
  BY NatLessThanWellFounded, WFMin
<1>2. ASSUME NEW y \in T PROVE x <= y
  <2>1. ~(<<y, x>> \in OpToRel(<, Nat))
    BY <1>1
  <2>2. ~(y < x)
    BY <2>1, Zenon DEF OpToRel
  <2> QED BY <2>2
<1> QED BY <1>2

\* msgrcv takes the first message of the type asked for.
LEMMA FirstFact ==
  ASSUME FtpTypeOK, NEW t, First(t) # 0
  PROVE  /\ First(t) \in DOMAIN queue /\ queue[First(t)].mtype = t
         /\ \A j \in DOMAIN queue : queue[j].mtype = t => First(t) <= j
<1> DEFINE places == {k \in DOMAIN queue : queue[k].mtype = t}
<1>1. places # {} /\ First(t) = CHOOSE k \in places : \A j \in places : k <= j
  BY DEF First
<1>2. places \subseteq Nat
  BY DEF FtpTypeOK
<1>3. \E k \in places : \A j \in places : k <= j
  BY <1>1, <1>2, Least
<1>4. First(t) \in places /\ \A j \in places : First(t) <= j
  <2> HIDE DEF places
  <2> QED BY <1>1, <1>3
<1> QED BY <1>4

\* The queue without its message k0: place i of it was place Past(k0, i).
Past(k0, i) == IF i < k0 THEN i ELSE i + 1

LEMMA WithoutFact ==
  ASSUME FtpTypeOK, NEW k0 \in DOMAIN queue, queue' = Without(k0)
  PROVE  /\ queue' \in Seq(Messages) /\ Len(queue) \in Nat
         /\ DOMAIN queue = 1 .. Len(queue) /\ DOMAIN queue' = 1 .. Len(queue) - 1
         /\ \A i \in DOMAIN queue' : /\ Past(k0, i) \in DOMAIN queue \ {k0}
                                    /\ queue'[i] = queue[Past(k0, i)]
         /\ \A k \in DOMAIN queue \ {k0} : \E i \in DOMAIN queue' : Past(k0, i) = k
         /\ \A i, j \in DOMAIN queue' : i < j <=> Past(k0, i) < Past(k0, j)
         /\ \A i, j \in DOMAIN queue' : Past(k0, i) = Past(k0, j) => i = j
<1>0. queue \in Seq(Messages) /\ Len(queue) \in Nat /\ DOMAIN queue = 1 .. Len(queue)
      /\ k0 \in 1 .. Len(queue)
  BY DEF FtpTypeOK
<1> DEFINE a == SubSeq(queue, 1, k0 - 1)
           b == SubSeq(queue, k0 + 1, Len(queue))
<1>1. /\ a \in Seq(Messages) /\ Len(a) = k0 - 1
      /\ \A i \in 1 .. k0 - 1 : a[i] = queue[i]
  BY <1>0
<1>2. /\ b \in Seq(Messages) /\ Len(b) = Len(queue) - k0
      /\ \A i \in 1 .. Len(queue) - k0 : b[i] = queue[k0 + i]
  BY <1>0
<1> HIDE DEF a, b
<1>3. queue' = a \o b
  BY DEF Without, a, b
<1>4. /\ queue' \in Seq(Messages) /\ Len(queue') = Len(queue) - 1
      /\ DOMAIN queue' = 1 .. Len(queue) - 1
  <2>1. a \o b \in Seq(Messages) /\ Len(a \o b) = Len(a) + Len(b)
    BY <1>1, <1>2, ConcatProperties
  <2>3. \A t \in Seq(Messages) : DOMAIN t = 1 .. Len(t)
    OBVIOUS
  <2>2. Len(a) + Len(b) = Len(queue) - 1
    BY <1>0, <1>1, <1>2
  <2> QED BY <1>3, <2>1, <2>2, <2>3
<1>5. ASSUME NEW i \in DOMAIN queue'
      PROVE  Past(k0, i) \in DOMAIN queue \ {k0} /\ queue'[i] = queue[Past(k0, i)]
  <2>1. CASE i < k0
    <3>1. (a \o b)[i] = a[i]
      BY <1>0, <1>1, <1>2, <1>4, <2>1
    <3>2. a[i] = queue[i] /\ i \in DOMAIN queue \ {k0} /\ Past(k0, i) = i
      BY <1>0, <1>1, <1>4, <2>1 DEF Past
    <3> QED BY <1>3, <3>1, <3>2
  <2>2. CASE ~(i < k0)
    <3>1. (a \o b)[i] = b[i - (k0 - 1)] /\ i - (k0 - 1) \in 1 .. Len(queue) - k0
      BY <1>0, <1>1, <1>2, <1>4, <2>2
    <3>2. k0 + (i - (k0 - 1)) = i + 1
      BY <1>0, <1>4
    <3>3. b[i - (k0 - 1)] = queue[i + 1]
      BY <1>2, <3>1, <3>2
    <3>4. i + 1 \in DOMAIN queue \ {k0} /\ Past(k0, i) = i + 1
      BY <1>0, <1>4, <2>2 DEF Past
    <3> QED BY <1>3, <3>1, <3>3, <3>4
  <2> QED BY <2>1, <2>2
<1>6. ASSUME NEW k \in DOMAIN queue \ {k0} PROVE \E i \in DOMAIN queue' : Past(k0, i) = k
  <2>1. CASE k < k0
    <3>1. k \in DOMAIN queue' /\ Past(k0, k) = k
      BY <1>0, <1>4, <2>1 DEF Past
    <3> QED BY <3>1
  <2>2. CASE k > k0
    <3>1. k - 1 \in DOMAIN queue' /\ Past(k0, k - 1) = k
      BY <1>0, <1>4, <2>2 DEF Past
    <3> QED BY <3>1
  <2> QED BY <1>0, <2>1, <2>2
<1>7. /\ \A i, j \in DOMAIN queue' : i < j <=> Past(k0, i) < Past(k0, j)
      /\ \A i, j \in DOMAIN queue' : Past(k0, i) = Past(k0, j) => i = j
  BY <1>0, <1>4 DEF Past
<1> QED BY <1>0, <1>4, <1>5, <1>6, <1>7

\* Taking a message that holds no data leaves every file alone.
LEMMA RemoveOther ==
  ASSUME FtpTypeOK, NEW k0 \in DOMAIN queue, queue' = Without(k0), queue[k0].mtype # "DATA",
         NEW f, InOrder(f)
  PROVE  Contents(f)' = Contents(f) /\ InOrder(f)'
<1>1. \A i \in DOMAIN queue' : i \in Queued(f)' <=> Past(k0, i) \in Queued(f)
  BY WithoutFact DEF Queued
<1>2. Contents(f)' \subseteq Contents(f)
  <2> SUFFICES ASSUME NEW i \in Queued(f)' PROVE queue'[i].n \in Contents(f)
    BY DEF Contents
  <2>1. i \in DOMAIN queue'
    BY DEF Queued
  <2> QED BY <1>1, <2>1, WithoutFact DEF Contents
<1>3. Contents(f) \subseteq Contents(f)'
  <2> SUFFICES ASSUME NEW k \in Queued(f) PROVE queue[k].n \in Contents(f)'
    BY DEF Contents
  <2>1. k \in DOMAIN queue \ {k0}
    BY DEF Queued
  <2>2. PICK i \in DOMAIN queue' : Past(k0, i) = k
    BY <2>1, WithoutFact
  <2>3. i \in Queued(f)' /\ queue'[i] = queue[k]
    BY <1>1, <2>2, WithoutFact
  <2> QED BY <2>3 DEF Contents
<1>4. InOrder(f)'
  <2> SUFFICES ASSUME NEW i \in Queued(f)', NEW j \in Queued(f)', i < j PROVE queue'[i].n < queue'[j].n
    BY DEF InOrder
  <2>1. i \in DOMAIN queue' /\ j \in DOMAIN queue'
    BY DEF Queued
  <2>2. Past(k0, i) \in Queued(f) /\ Past(k0, j) \in Queued(f) /\ Past(k0, i) < Past(k0, j)
        /\ queue'[i] = queue[Past(k0, i)] /\ queue'[j] = queue[Past(k0, j)]
    BY <1>1, <2>1, WithoutFact
  <2> QED BY <2>2 DEF InOrder
<1> QED BY <1>2, <1>3, <1>4

\* The first message with data is the first packet queued of its file.
LEMMA RemoveData ==
  ASSUME FtpTypeOK, NEW k0 \in DOMAIN queue, queue' = Without(k0), queue[k0].mtype = "DATA",
         \A j \in DOMAIN queue : queue[j].mtype = "DATA" => k0 <= j,
         NEW f, InOrder(f)
  PROVE  /\ queue[k0].of # f => Contents(f)' = Contents(f)
         /\ queue[k0].of = f => /\ Contents(f) = Contents(f)' \cup {queue[k0].n}
                                /\ \A n \in Contents(f)' : queue[k0].n < n
         /\ InOrder(f)'
<1>1. \A i \in DOMAIN queue' : i \in Queued(f)' <=> Past(k0, i) \in Queued(f)
  BY WithoutFact DEF Queued
<1>2. Contents(f)' \subseteq Contents(f)
  <2> SUFFICES ASSUME NEW i \in Queued(f)' PROVE queue'[i].n \in Contents(f)
    BY DEF Contents
  <2>1. i \in DOMAIN queue'
    BY DEF Queued
  <2> QED BY <1>1, <2>1, WithoutFact DEF Contents
<1>3. ASSUME NEW k \in Queued(f), k # k0 PROVE queue[k].n \in Contents(f)'
  <2>1. k \in DOMAIN queue \ {k0}
    BY <1>3 DEF Queued
  <2>2. PICK i \in DOMAIN queue' : Past(k0, i) = k
    BY <2>1, WithoutFact
  <2>3. i \in Queued(f)' /\ queue'[i] = queue[k]
    BY <1>1, <2>2, WithoutFact
  <2> QED BY <2>3 DEF Contents
<1>4. InOrder(f)'
  <2> SUFFICES ASSUME NEW i \in Queued(f)', NEW j \in Queued(f)', i < j PROVE queue'[i].n < queue'[j].n
    BY DEF InOrder
  <2>1. i \in DOMAIN queue' /\ j \in DOMAIN queue'
    BY DEF Queued
  <2>2. Past(k0, i) \in Queued(f) /\ Past(k0, j) \in Queued(f) /\ Past(k0, i) < Past(k0, j)
        /\ queue'[i] = queue[Past(k0, i)] /\ queue'[j] = queue[Past(k0, j)]
    BY <1>1, <2>1, WithoutFact
  <2> QED BY <2>2 DEF InOrder
<1>5. CASE queue[k0].of # f
  <2>1. k0 \notin Queued(f)
    BY <1>5 DEF Queued
  <2>2. Contents(f) \subseteq Contents(f)'
    BY <1>3, <2>1 DEF Contents
  <2> QED BY <1>2, <1>4, <1>5, <2>2
<1>6. CASE queue[k0].of = f
  <2>1. k0 \in Queued(f)
    BY <1>6 DEF Queued
  <2>2. Contents(f) \subseteq Contents(f)' \cup {queue[k0].n}
    BY <1>3 DEF Contents
  <2>3. queue[k0].n \in Contents(f)
    BY <2>1 DEF Contents
  <2>4. ASSUME NEW i \in Queued(f)' PROVE queue[k0].n < queue'[i].n
    <3>1. i \in DOMAIN queue'
      BY DEF Queued
    <3>2. Past(k0, i) \in Queued(f) /\ Past(k0, i) # k0 /\ queue'[i] = queue[Past(k0, i)]
      BY <1>1, <3>1, WithoutFact
    <3>3. k0 < Past(k0, i)
      <4>1. k0 <= Past(k0, i)
        BY <3>2 DEF Queued
      <4> QED BY <3>2, <4>1, <3>1, WithoutFact
    <3> QED BY <2>1, <3>2, <3>3 DEF InOrder
  <2>5. \A n \in Contents(f)' : queue[k0].n < n
    BY <2>4 DEF Contents
  <2> QED BY <1>2, <1>4, <1>6, <2>2, <2>3, <2>5
<1> QED BY <1>5, <1>6

LEMMA AppendOther ==
  ASSUME FtpTypeOK, NEW m \in Messages, queue' = Append(queue, m), NEW f,
         m.mtype # "DATA" \/ m.of # f, InOrder(f)
  PROVE  Contents(f)' = Contents(f) /\ InOrder(f)'
<1>1. /\ Len(queue) \in Nat /\ DOMAIN queue = 1 .. Len(queue) /\ DOMAIN queue' = 1 .. Len(queue) + 1
      /\ \A k \in DOMAIN queue : queue'[k] = queue[k]
      /\ queue'[Len(queue) + 1] = m
  BY AppendFact DEF FtpTypeOK
<1>2. Queued(f)' = Queued(f) /\ \A k \in Queued(f) : queue'[k] = queue[k]
  BY <1>1 DEF Queued
<1> QED BY <1>2 DEF Contents, InOrder

LEMMA AppendData ==
  ASSUME FtpTypeOK, NEW f \in FtpClients, NEW x \in Nat,
         queue' = Append(queue, [mtype |-> "DATA", of |-> f, n |-> x]),
         \A n \in Contents(f) : n < x, InOrder(f)
  PROVE  Contents(f)' = Contents(f) \cup {x} /\ InOrder(f)'
<1> DEFINE m == [mtype |-> "DATA", of |-> f, n |-> x]
<1>0. m \in Messages /\ m.mtype = "DATA" /\ m.of = f /\ m.n = x
  BY DEF Messages
<1> HIDE DEF m
<1>1. /\ Len(queue) \in Nat /\ DOMAIN queue = 1 .. Len(queue) /\ DOMAIN queue' = 1 .. Len(queue) + 1
      /\ \A k \in DOMAIN queue : queue'[k] = queue[k]
      /\ queue'[Len(queue) + 1] = m
  BY <1>0, AppendFact DEF FtpTypeOK, m
<1>2. /\ Queued(f)' = Queued(f) \cup {Len(queue) + 1}
      /\ \A k \in Queued(f) : queue'[k] = queue[k] /\ k \in 1 .. Len(queue)
  BY <1>0, <1>1 DEF Queued
<1>3. \A k \in Queued(f) : queue[k].n < x
  BY DEF Contents
<1>4. InOrder(f)'
  BY <1>0, <1>1, <1>2, <1>3 DEF InOrder
<1>5. Contents(f)' = Contents(f) \cup {x}
  BY <1>0, <1>1, <1>2 DEF Contents
<1> QED BY <1>4, <1>5

\* A packet was taken when a client saved it or lost it.
Written(sv, f, n) == \E c \in FtpClients : \E k \in DOMAIN sv[c] : sv[c][k][1] = f /\ sv[c][k][2] = n

LEMMA GoneFact ==
  ASSUME FtpTypeOK, NEW f \in FtpClients, NEW n
  PROVE  n \in Gone(f) <=> Written(saved, f, n) \/ <<f, n>> \in lost
<1>1. \A l \in lost : l = <<l[1], l[2]>>
  BY DEF FtpTypeOK, Packets
<1>2. n \in {l[2] : l \in {l \in lost : l[1] = f}} <=> <<f, n>> \in lost
  BY <1>1
<1>3. ASSUME n \in UNION {{saved[c][k][2] : k \in Took(c, f)} : c \in FtpClients}
      PROVE  Written(saved, f, n)
  <2>1. PICK c \in FtpClients : n \in {saved[c][k][2] : k \in Took(c, f)}
    BY <1>3
  <2>2. PICK k \in Took(c, f) : n = saved[c][k][2]
    BY <2>1
  <2> QED BY <2>1, <2>2 DEF Took, Written
<1>4. ASSUME Written(saved, f, n)
      PROVE  n \in UNION {{saved[c][k][2] : k \in Took(c, f)} : c \in FtpClients}
  <2>1. PICK c \in FtpClients : \E k \in DOMAIN saved[c] : saved[c][k][1] = f /\ saved[c][k][2] = n
    BY <1>4 DEF Written
  <2>2. n \in {saved[c][k][2] : k \in Took(c, f)}
    BY <2>1 DEF Took
  <2> QED BY <2>2
<1> DEFINE A == UNION {{saved[c][k][2] : k \in Took(c, f)} : c \in FtpClients}
           B == {l[2] : l \in {l \in lost : l[1] = f}}
<1>5. Gone(f) = A \cup B
  BY Zenon DEF Gone
<1>6. (n \in A <=> Written(saved, f, n)) /\ (n \in B <=> <<f, n>> \in lost)
  BY <1>2, <1>3, <1>4
<1> HIDE DEF A, B
<1> QED
  BY <1>5, <1>6

\* The same, after a step.
LEMMA GoneNext ==
  ASSUME FtpTypeOK', NEW f \in FtpClients, NEW n
  PROVE  n \in Gone(f)' <=> Written(saved', f, n) \/ <<f, n>> \in lost'
<1>1. \A l \in lost' : l = <<l[1], l[2]>>
  BY DEF FtpTypeOK, Packets
<1>2. n \in {l[2] : l \in {l \in lost' : l[1] = f}} <=> <<f, n>> \in lost'
  BY <1>1
<1>3. ASSUME n \in UNION {{saved'[c][k][2] : k \in Took(c, f)'} : c \in FtpClients}
      PROVE  Written(saved', f, n)
  <2>1. PICK c \in FtpClients : n \in {saved'[c][k][2] : k \in Took(c, f)'}
    BY <1>3
  <2>2. PICK k \in Took(c, f)' : n = saved'[c][k][2]
    BY <2>1
  <2> QED BY <2>1, <2>2 DEF Took, Written
<1>4. ASSUME Written(saved', f, n)
      PROVE  n \in UNION {{saved'[c][k][2] : k \in Took(c, f)'} : c \in FtpClients}
  <2>1. PICK c \in FtpClients : \E k \in DOMAIN saved'[c] : saved'[c][k][1] = f /\ saved'[c][k][2] = n
    BY <1>4 DEF Written
  <2>2. n \in {saved'[c][k][2] : k \in Took(c, f)'}
    BY <2>1 DEF Took
  <2> QED BY <2>2
<1> DEFINE A == UNION {{saved'[c][k][2] : k \in Took(c, f)'} : c \in FtpClients}
           B == {l[2] : l \in {l \in lost' : l[1] = f}}
<1>5. Gone(f)' = A \cup B
  BY Zenon DEF Gone
<1>6. (n \in A <=> Written(saved', f, n)) /\ (n \in B <=> <<f, n>> \in lost')
  BY <1>2, <1>3, <1>4
<1> HIDE DEF A, B
<1> QED
  BY <1>5, <1>6

\* PacketsOnce, for one file.
PacketInv(f) ==
    /\ Gone(f) \cup Contents(f) = 1 .. given[f]
    /\ \A m \in Contents(f), n \in Gone(f) : n < m
    /\ InOrder(f)
    /\ \A c, d \in FtpClients : \A j \in Took(c, f), k \in Took(d, f) :
          /\ c = d /\ j < k => saved[c][j][2] < saved[d][k][2]
          /\ c # d => saved[c][j] # saved[d][k]
    /\ \A c \in FtpClients : \A k \in Took(c, f) : saved[c][k] \notin lost

LEMMA PacketsFact ==
  /\ PacketsOnce <=> \A f \in FtpClients : PacketInv(f)
  /\ PacketsOnce' <=> \A f \in FtpClients : PacketInv(f)'
<1>1. ASSUME NEW f \in FtpClients
      PROVE  /\ (\A m \in Contents(f), n \in Gone(f) : n < m)
                  <=> (\A k \in Queued(f) : \A n \in Gone(f) : n < queue[k].n)
             /\ (\A m \in Contents(f)', n \in Gone(f)' : n < m)
                  <=> (\A k \in Queued(f)' : \A n \in Gone(f)' : n < queue'[k].n)
  BY DEF Contents
<1>2. PacketsOnce <=> \A f \in FtpClients : PacketInv(f)
  <2>1. ASSUME PacketsOnce, NEW f \in FtpClients PROVE PacketInv(f)
    BY <1>1, <2>1 DEF PacketsOnce, PacketInv, Contents, InOrder
  <2>2. ASSUME \A f \in FtpClients : PacketInv(f) PROVE PacketsOnce
    <3> SUFFICES ASSUME NEW f \in FtpClients
                 PROVE  /\ Gone(f) \cup {queue[k].n : k \in Queued(f)} = 1 .. given[f]
                        /\ \A k \in Queued(f) : \A n \in Gone(f) : n < queue[k].n
                        /\ \A j, k \in Queued(f) : j < k => queue[j].n < queue[k].n
                        /\ \A c, d \in FtpClients : \A j \in Took(c, f), k \in Took(d, f) :
                              /\ c = d /\ j < k => saved[c][j][2] < saved[d][k][2]
                              /\ c # d => saved[c][j] # saved[d][k]
                        /\ \A c \in FtpClients : \A k \in Took(c, f) : saved[c][k] \notin lost
      BY DEF PacketsOnce
    <3>1. PacketInv(f)
      BY <2>2
    <3> QED BY <1>1, <3>1 DEF PacketInv, Contents, InOrder
  <2> QED BY <2>1, <2>2
<1>3. PacketsOnce' <=> \A f \in FtpClients : PacketInv(f)'
  <2>1. ASSUME PacketsOnce', NEW f \in FtpClients PROVE PacketInv(f)'
    BY <1>1, <2>1 DEF PacketsOnce, PacketInv, Contents, InOrder
  <2>2. ASSUME \A f \in FtpClients : PacketInv(f)' PROVE PacketsOnce'
    <3> SUFFICES ASSUME NEW f \in FtpClients
                 PROVE  /\ Gone(f)' \cup {queue'[k].n : k \in Queued(f)'} = 1 .. given'[f]
                        /\ \A k \in Queued(f)' : \A n \in Gone(f)' : n < queue'[k].n
                        /\ \A j, k \in Queued(f)' : j < k => queue'[j].n < queue'[k].n
                        /\ \A c, d \in FtpClients : \A j \in Took(c, f)', k \in Took(d, f)' :
                              /\ c = d /\ j < k => saved'[c][j][2] < saved'[d][k][2]
                              /\ c # d => saved'[c][j] # saved'[d][k]
                        /\ \A c \in FtpClients : \A k \in Took(c, f)' : saved'[c][k] \notin lost'
      BY DEF PacketsOnce
    <3>1. PacketInv(f)'
      BY <2>2
    <3> QED BY <1>1, <3>1 DEF PacketInv, Contents, InOrder
  <2> QED BY <2>1, <2>2
<1> QED BY <1>2, <1>3

\* Packets that stay where they are.
LEMMA PacketsStay ==
  ASSUME PacketsOnce, UNCHANGED <<saved, lost, given>>,
         \A f \in FtpClients : InOrder(f) => Contents(f)' = Contents(f) /\ InOrder(f)'
  PROVE  PacketsOnce'
<1>1. \A f \in FtpClients : Gone(f)' = Gone(f)
  BY DEF Gone, Took
<1>2. \A c, f \in FtpClients : Took(c, f)' = Took(c, f)
  BY DEF Took
<1>3. ASSUME NEW f \in FtpClients, PacketInv(f) PROVE PacketInv(f)'
  BY <1>1, <1>2, <1>3 DEF PacketInv
<1> QED BY <1>3, PacketsFact

\* Packet n0 of file f0 is taken: it comes after all that were taken of f0, and
\* before what is left.
LEMMA PacketsTaken ==
  ASSUME FtpTypeOK, PacketsOnce, NEW k0 \in DOMAIN queue, queue' = Without(k0), queue[k0].mtype = "DATA",
         \A j \in DOMAIN queue : queue[j].mtype = "DATA" => k0 <= j
  PROVE  \E f0 \in FtpClients, n0 \in Nat :
         /\ f0 = queue[k0].of /\ n0 = queue[k0].n
         /\ \A n \in Gone(f0) : n < n0
         /\ \A n \in Contents(f0)' : n0 < n
         /\ Contents(f0) = Contents(f0)' \cup {n0}
         /\ \A f \in FtpClients : InOrder(f)' /\ (f # f0 => Contents(f)' = Contents(f))
<1>0. PICK f0, n0 : f0 = queue[k0].of /\ n0 = queue[k0].n
  OBVIOUS
<1>1. f0 \in FtpClients /\ n0 \in Nat /\ n0 \in Contents(f0)
  <2>1. queue[k0] \in Messages
    BY DEF FtpTypeOK
  <2>2. k0 \in Queued(f0)
    BY <1>0 DEF Queued
  <2> QED BY <1>0, <2>1, <2>2 DEF Messages, Contents
<1>2. \A f \in FtpClients : InOrder(f)
  BY PacketsFact DEF PacketInv
<1>3. \A n \in Gone(f0) : n < n0
  BY <1>1, PacketsFact DEF PacketInv
<1>4. /\ \A n \in Contents(f0)' : n0 < n
      /\ Contents(f0) = Contents(f0)' \cup {n0}
  BY <1>0, <1>1, <1>2, RemoveData
<1>5. \A f \in FtpClients : InOrder(f)' /\ (f # f0 => Contents(f)' = Contents(f))
  BY <1>0, <1>2, RemoveData
<1> QED BY <1>0, <1>1, <1>3, <1>4, <1>5

\* A client saves the packet it took.
LEMMA SavedStep ==
  ASSUME FtpTypeOK, FtpTypeOK', PacketsOnce,
         NEW k0 \in DOMAIN queue, queue' = Without(k0), queue[k0].mtype = "DATA",
         \A j \in DOMAIN queue : queue[j].mtype = "DATA" => k0 <= j,
         NEW c0 \in FtpClients, UNCHANGED <<given, lost>>,
         saved' = [saved EXCEPT ![c0] = Append(@, <<queue[k0].of, queue[k0].n>>)]
  PROVE  PacketsOnce'
<1>1. PICK f0 \in FtpClients, n0 \in Nat :
      /\ f0 = queue[k0].of /\ n0 = queue[k0].n
      /\ \A n \in Gone(f0) : n < n0
      /\ \A n \in Contents(f0)' : n0 < n
      /\ Contents(f0) = Contents(f0)' \cup {n0}
      /\ \A f \in FtpClients : InOrder(f)' /\ (f # f0 => Contents(f)' = Contents(f))
  BY PacketsTaken
<1>2. saved \in [FtpClients -> Seq(Packets)] /\ <<f0, n0>> \in Packets /\ lost \in SUBSET Packets
  BY <1>1 DEF FtpTypeOK, Packets
<1>3. PICK e \in Nat : e = Len(saved[c0])
  BY <1>2
<1>4. /\ \A c \in FtpClients : c # c0 => saved'[c] = saved[c]
      /\ DOMAIN saved[c0] = 1 .. e /\ DOMAIN saved'[c0] = 1 .. e + 1
      /\ \A k \in 1 .. e : saved'[c0][k] = saved[c0][k]
      /\ saved'[c0][e + 1] = <<f0, n0>>
  BY <1>1, <1>2, <1>3, AppendFact
<1>5. /\ \A c, f \in FtpClients : c # c0 \/ f # f0 => Took(c, f)' = Took(c, f)
      /\ Took(c0, f0)' = Took(c0, f0) \cup {e + 1}
      /\ \A f \in FtpClients : \A k \in Took(c0, f) : k \in 1 .. e
      /\ \A c, f \in FtpClients : \A k \in Took(c, f) : saved'[c][k] = saved[c][k] /\ saved[c][k][1] = f
  BY <1>4 DEF Took
<1>6. ASSUME NEW f \in FtpClients PROVE Gone(f)' = IF f = f0 THEN Gone(f) \cup {n0} ELSE Gone(f)
  <2>1. ASSUME NEW n PROVE n \in Gone(f)' <=> n \in Gone(f) \/ (f = f0 /\ n = n0)
    <3>1. n \in Gone(f) <=> Written(saved, f, n) \/ <<f, n>> \in lost
      BY GoneFact
    <3>2. n \in Gone(f)' <=> Written(saved', f, n) \/ <<f, n>> \in lost
      BY GoneNext
    <3>3. /\ \A c \in FtpClients : \A k \in DOMAIN saved[c] : k \in DOMAIN saved'[c] /\ saved'[c][k] = saved[c][k]
          /\ e + 1 \in DOMAIN saved'[c0]
          /\ \A c \in FtpClients : \A k \in DOMAIN saved'[c] : k \in DOMAIN saved[c] \/ (c = c0 /\ k = e + 1)
      BY <1>4
    <3>4. saved'[c0][e + 1][1] = f0 /\ saved'[c0][e + 1][2] = n0
      BY <1>4
    <3>5. Written(saved', f, n) <=> Written(saved, f, n) \/ (f = f0 /\ n = n0)
      BY <3>3, <3>4 DEF Written
    <3> QED BY <3>1, <3>2, <3>5
  <2> QED BY <2>1
<1>7. ASSUME NEW f \in FtpClients, PacketInv(f) PROVE PacketInv(f)'
  <2>0. /\ Gone(f) \cup Contents(f) = 1 .. given[f]
        /\ \A m \in Contents(f), n \in Gone(f) : n < m
        /\ \A c, d \in FtpClients : \A j \in Took(c, f), k \in Took(d, f) :
              /\ c = d /\ j < k => saved[c][j][2] < saved[d][k][2]
              /\ c # d => saved[c][j] # saved[d][k]
        /\ \A c \in FtpClients : \A k \in Took(c, f) : saved[c][k] \notin lost
    BY <1>7 DEF PacketInv
  <2>1. CASE f # f0
    <3>1. Gone(f)' = Gone(f) /\ Contents(f)' = Contents(f) /\ InOrder(f)' /\ given' = given /\ lost' = lost
      BY <1>1, <1>6, <2>1
    <3>2. \A c \in FtpClients : Took(c, f)' = Took(c, f) /\ \A k \in Took(c, f) : saved'[c][k] = saved[c][k]
      BY <1>5, <2>1
    <3>3. \A c, d \in FtpClients : \A j \in Took(c, f)', k \in Took(d, f)' :
             /\ c = d /\ j < k => saved'[c][j][2] < saved'[d][k][2]
             /\ c # d => saved'[c][j] # saved'[d][k]
      <4> SUFFICES ASSUME NEW c \in FtpClients, NEW d \in FtpClients,
                          NEW j \in Took(c, f)', NEW k \in Took(d, f)'
                   PROVE  /\ c = d /\ j < k => saved'[c][j][2] < saved'[d][k][2]
                          /\ c # d => saved'[c][j] # saved'[d][k]
        OBVIOUS
      <4>1. j \in Took(c, f) /\ k \in Took(d, f) /\ saved'[c][j] = saved[c][j] /\ saved'[d][k] = saved[d][k]
        BY <3>2
      <4>2. /\ c = d /\ j < k => saved[c][j][2] < saved[d][k][2]
            /\ c # d => saved[c][j] # saved[d][k]
        BY <2>0, <4>1
      <4> QED BY <4>1, <4>2
    <3>4. ASSUME NEW c \in FtpClients, NEW k \in Took(c, f)' PROVE saved'[c][k] \notin lost'
      <4>1. k \in Took(c, f) /\ saved'[c][k] = saved[c][k]
        BY <3>2
      <4>2. saved[c][k] \notin lost
        BY <2>0, <4>1
      <4> QED BY <3>1, <4>1, <4>2
    <3> QED BY <2>0, <3>1, <3>3, <3>4 DEF PacketInv
  <2>2. CASE f = f0
    <3>1. Gone(f)' \cup Contents(f)' = 1 .. given'[f]
      BY <1>1, <1>6, <2>0, <2>2
    <3>2. \A m \in Contents(f)', n \in Gone(f)' : n < m
      BY <1>1, <1>6, <2>0, <2>2
    <3>3. ASSUME NEW c \in FtpClients, NEW k \in Took(c, f)
          PROVE  saved[c][k][2] \in Gone(f) /\ saved[c][k][2] \in 1 .. given[f]
      <4>1. k \in DOMAIN saved[c] /\ saved[c][k][1] = f
        BY DEF Took
      <4>2. Written(saved, f, saved[c][k][2])
        BY <4>1 DEF Written
      <4>3. saved[c][k][2] \in Gone(f)
        BY <4>2, GoneFact
      <4> QED BY <2>0, <4>3
    <3>4. \A c \in FtpClients : \A k \in Took(c, f) : saved[c][k][2] < n0
      BY <1>1, <2>2, <3>3
    <3>5. \A c, d \in FtpClients : \A j \in Took(c, f)', k \in Took(d, f)' :
             /\ c = d /\ j < k => saved'[c][j][2] < saved'[d][k][2]
             /\ c # d => saved'[c][j] # saved'[d][k]
      BY <1>4, <1>5, <2>0, <2>2, <3>3, <3>4
    <3>6. <<f0, n0>> \notin lost
      <4>1. n0 \notin Gone(f0)
        BY <1>1
      <4> QED BY <4>1, GoneFact
    <3>7. ASSUME NEW c \in FtpClients, NEW k \in Took(c, f)' PROVE saved'[c][k] \notin lost'
      <4>1. CASE k \in Took(c, f)
        <5>1. saved'[c][k] = saved[c][k]
          BY <1>5, <4>1
        <5>2. saved[c][k] \notin lost
          BY <2>0, <4>1
        <5>3. lost' = lost
          OBVIOUS
        <5> QED BY <5>1, <5>2, <5>3
      <4>2. CASE k \notin Took(c, f)
        <5>1. c = c0 /\ k = e + 1
          BY <1>5, <2>2, <4>2
        <5> QED BY <1>4, <3>6, <5>1
      <4> QED BY <4>1, <4>2
    <3> QED BY <1>1, <2>2, <3>1, <3>2, <3>5, <3>7 DEF PacketInv
  <2> QED BY <2>1, <2>2
<1> QED BY <1>7, PacketsFact

\* A client loses the packet it took.
LEMMA LostStep ==
  ASSUME FtpTypeOK, FtpTypeOK', PacketsOnce,
         NEW k0 \in DOMAIN queue, queue' = Without(k0), queue[k0].mtype = "DATA",
         \A j \in DOMAIN queue : queue[j].mtype = "DATA" => k0 <= j,
         UNCHANGED <<given, saved>>, lost' = lost \cup {<<queue[k0].of, queue[k0].n>>}
  PROVE  PacketsOnce'
<1>1. PICK f0 \in FtpClients, n0 \in Nat :
      /\ f0 = queue[k0].of /\ n0 = queue[k0].n
      /\ \A n \in Gone(f0) : n < n0
      /\ \A n \in Contents(f0)' : n0 < n
      /\ Contents(f0) = Contents(f0)' \cup {n0}
      /\ \A f \in FtpClients : InOrder(f)' /\ (f # f0 => Contents(f)' = Contents(f))
  BY PacketsTaken
<1>2. /\ \A c, f \in FtpClients : Took(c, f)' = Took(c, f)
      /\ lost' = lost \cup {<<f0, n0>>}
  BY <1>1 DEF Took
<1>3. ASSUME NEW f \in FtpClients PROVE Gone(f)' = IF f = f0 THEN Gone(f) \cup {n0} ELSE Gone(f)
  <2>1. ASSUME NEW n PROVE n \in Gone(f)' <=> n \in Gone(f) \/ (f = f0 /\ n = n0)
    <3>1. n \in Gone(f) <=> Written(saved, f, n) \/ <<f, n>> \in lost
      BY GoneFact
    <3>2. n \in Gone(f)' <=> Written(saved, f, n) \/ <<f, n>> \in lost'
      BY GoneNext
    <3>3. <<f, n>> \in lost' <=> <<f, n>> \in lost \/ (f = f0 /\ n = n0)
      BY <1>2
    <3> QED BY <3>1, <3>2, <3>3
  <2> QED BY <2>1
<1>4. ASSUME NEW f \in FtpClients, PacketInv(f) PROVE PacketInv(f)'
  <2>1. Gone(f)' \cup Contents(f)' = 1 .. given'[f]
    BY <1>1, <1>3, <1>4 DEF PacketInv
  <2>2. \A m \in Contents(f)', n \in Gone(f)' : n < m
    BY <1>1, <1>3, <1>4 DEF PacketInv
  <2>3. \A c, d \in FtpClients : \A j \in Took(c, f)', k \in Took(d, f)' :
           /\ c = d /\ j < k => saved'[c][j][2] < saved'[d][k][2]
           /\ c # d => saved'[c][j] # saved'[d][k]
    BY <1>2, <1>4 DEF PacketInv
  <2>4. ASSUME NEW c \in FtpClients, NEW k \in Took(c, f) PROVE saved[c][k] \notin lost'
    <3>1. k \in DOMAIN saved[c] /\ saved[c][k][1] = f
      BY DEF Took
    <3>2. Written(saved, f, saved[c][k][2])
      BY <3>1 DEF Written
    <3>3. saved[c][k][2] \in Gone(f)
      BY <3>2, GoneFact
    <3>4. saved[c][k] # <<f0, n0>>
      <4>1. CASE f # f0
        BY <3>1, <4>1
      <4>2. CASE f = f0
        <5>1. saved[c][k][2] < n0
          BY <1>1, <3>3, <4>2
        <5>2. ~(n0 < n0)
          BY <1>1
        <5> QED BY <5>1, <5>2
      <4> QED BY <4>1, <4>2
    <3>5. saved[c][k] \notin lost
      BY <1>4 DEF PacketInv
    <3> QED BY <1>2, <3>4, <3>5
  <2>5. \A c \in FtpClients : \A k \in Took(c, f)' : saved'[c][k] \notin lost'
    BY <1>2, <2>4
  <2> QED BY <1>1, <2>1, <2>2, <2>3, <2>5 DEF PacketInv
<1> QED BY <1>4, PacketsFact

\* The server sends the next packet of a file.
LEMMA SentStep ==
  ASSUME FtpTypeOK, PacketsOnce, NEW f0 \in FtpClients, NEW n0 \in Nat, n0 = given[f0] + 1,
         queue' = Append(queue, [mtype |-> "DATA", of |-> f0, n |-> n0]),
         given' = [given EXCEPT ![f0] = n0], UNCHANGED <<saved, lost>>
  PROVE  PacketsOnce'
<1>1. /\ \A c, f \in FtpClients : Took(c, f)' = Took(c, f)
      /\ \A f \in FtpClients : Gone(f)' = Gone(f)
  BY DEF Took, Gone
<1>2. given \in [FtpClients -> Nat] /\ [mtype |-> "DATA", of |-> f0, n |-> n0] \in Messages
  BY DEF FtpTypeOK, Messages
<1>3. ASSUME NEW f \in FtpClients, PacketInv(f) PROVE PacketInv(f)'
  <2>1. CASE f # f0
    <3>1. Contents(f)' = Contents(f) /\ InOrder(f)'
      <4>1. [mtype |-> "DATA", of |-> f0, n |-> n0].of # f
        BY <2>1
      <4> QED BY <1>2, <1>3, <4>1, AppendOther DEF PacketInv
    <3>2. given'[f] = given[f]
      BY <1>2, <2>1
    <3> QED BY <1>1, <1>3, <3>1, <3>2 DEF PacketInv
  <2>2. CASE f = f0
    <3>1. given'[f] = n0 /\ given[f] = n0 - 1 /\ Gone(f) \cup Contents(f) = 1 .. n0 - 1
      BY <1>2, <1>3, <2>2 DEF PacketInv
    <3>2. Contents(f)' = Contents(f) \cup {n0} /\ InOrder(f)'
      <4>1. \A n \in Contents(f) : n < n0
        BY <3>1
      <4> QED BY <1>3, <2>2, <4>1, AppendData DEF PacketInv
    <3>3. Gone(f)' \cup Contents(f)' = 1 .. given'[f]
      <4>1. 1 .. n0 = (1 .. n0 - 1) \cup {n0}
        BY <1>2
      <4> QED BY <1>1, <3>1, <3>2, <4>1
    <3>4. \A m \in Contents(f)', n \in Gone(f)' : n < m
      BY <1>1, <1>3, <3>1, <3>2 DEF PacketInv
    <3> QED BY <1>1, <1>3, <3>2, <3>3, <3>4 DEF PacketInv
  <2> QED BY <2>1, <2>2
<1> QED BY <1>3, PacketsFact
-----------------------------------------------------------------------------
\* The messages after a message was taken, and after one was sent.
LEMMA TakeTypes ==
  ASSUME FtpTypeOK, NEW t, First(t) # 0, queue' = Without(First(t))
  PROVE  \E k0 \in DOMAIN queue : /\ k0 = First(t) /\ queue[k0].mtype = t
                                  /\ \A j \in DOMAIN queue : queue[j].mtype = t => k0 <= j
                                  /\ queue' = Without(k0) /\ queue' \in Seq(Messages)
                                  /\ queue[k0] \in Messages
                                  /\ queue[k0].of \in FtpClients /\ queue[k0].n \in Nat
<1>1. PICK k0 : k0 = First(t)
  OBVIOUS
<1>2. /\ k0 \in DOMAIN queue /\ queue[k0].mtype = t
      /\ \A j \in DOMAIN queue : queue[j].mtype = t => k0 <= j
  BY <1>1, FirstFact
<1>3. queue' = Without(k0)
  BY <1>1
<1>4. queue' \in Seq(Messages)
  BY <1>2, <1>3, WithoutFact
<1>5. queue[k0] \in Messages
  BY <1>2 DEF FtpTypeOK
<1>6. queue[k0].of \in FtpClients /\ queue[k0].n \in Nat
  BY <1>5 DEF Messages
<1> QED BY <1>1, <1>2, <1>3, <1>4, <1>5, <1>6

LEMMA SendTypes ==
  ASSUME FtpTypeOK, NEW t \in {"PATH", "DATA", "EOT"}, NEW c \in FtpClients, NEW i \in Nat, msgsnd(t, c, i)
  PROVE  \E m \in Messages : /\ m = [mtype |-> t, of |-> c, n |-> i] /\ queue' = Append(queue, m)
                             /\ m.mtype = t /\ m.of = c /\ m.n = i
                             /\ queue' \in Seq(Messages) /\ Len(queue) \in Nat
                             /\ DOMAIN queue = 1 .. Len(queue) /\ DOMAIN queue' = 1 .. Len(queue) + 1
                             /\ \A k \in DOMAIN queue : queue'[k] = queue[k]
                             /\ queue'[Len(queue) + 1] = m
<1>1. PICK m : m = [mtype |-> t, of |-> c, n |-> i]
  OBVIOUS
<1>2. m \in Messages /\ m.mtype = t /\ m.of = c /\ m.n = i
  BY <1>1 DEF Messages
<1>3. queue' = Append(queue, m) /\ queue \in Seq(Messages)
  BY <1>1 DEF msgsnd, FtpTypeOK
<1> QED BY <1>1, <1>2, <1>3, AppendFact

LEMMA FtpTypeStep ==
  ASSUME FtpTypeOK, FtpStep
  PROVE  FtpTypeOK'
<1>0. /\ queue \in Seq(Messages)
      /\ size \in [FtpClients -> Int] /\ saved \in [FtpClients -> Seq(Packets)]
      /\ lost \subseteq Packets /\ given \in [FtpClients -> Nat]
      /\ stage = [c \in FtpClients |-> stage[c]]
      /\ phase \in {"wait", "send"} /\ (phase = "send" => request \in FtpClients)
      /\ next \in Nat \ {0}
  BY DEF FtpTypeOK
<1>1. CASE main_server
  <2>1. PICK k0 \in DOMAIN queue : k0 = First("PATH") /\ queue' \in Seq(Messages) /\ queue[k0].of \in FtpClients
    BY <1>1, TakeTypes DEF main_server
  <2>2. request' \in FtpClients /\ phase' = "send" /\ next' = 1
        /\ UNCHANGED <<stage, size, saved, given, lost>>
    BY <1>1, <2>1 DEF main_server
  <2> QED BY <1>0, <2>1, <2>2 DEF FtpTypeOK
<1>2. CASE send_data_packet
  <2>1. phase = "send" /\ request \in FtpClients /\ next \in Nat
    BY <1>0, <1>2 DEF send_data_packet
  <2>2. queue' \in Seq(Messages)
    BY <1>2, <2>1, SendTypes DEF send_data_packet
  <2>3. given' \in [FtpClients -> Nat] /\ next' \in Nat \ {0}
        /\ UNCHANGED <<phase, request, stage, size, saved, lost>>
    BY <1>0, <1>2, <2>1 DEF send_data_packet
  <2> QED BY <1>0, <2>2, <2>3 DEF FtpTypeOK
<1>3. CASE send_eot_packet
  <2>1. phase = "send" /\ request \in FtpClients /\ 0 \in Nat
    BY <1>0, <1>3 DEF send_eot_packet
  <2>2. queue' \in Seq(Messages)
    BY <1>3, <2>1, SendTypes DEF send_eot_packet
  <2>3. phase' = "wait" /\ UNCHANGED <<request, next, stage, size, saved, given, lost>>
    BY <1>3 DEF send_eot_packet
  <2> QED BY <1>0, <2>2, <2>3 DEF FtpTypeOK
<1>4. ASSUME NEW c \in FtpClients, send_path_request(c) PROVE FtpTypeOK'
  <2>1. queue' \in Seq(Messages)
    <3>1. 0 \in Nat /\ "PATH" \in {"PATH", "DATA", "EOT"}
      OBVIOUS
    <3> QED BY <1>4, <3>1, SendTypes DEF send_path_request
  <2>2. stage' = [stage EXCEPT ![c] = "receive"] /\ UNCHANGED <<phase, request, next, size, saved, given, lost>>
    BY <1>4 DEF send_path_request
  <2>3. stage' = [d \in FtpClients |-> stage'[d]]
    BY <1>0, <2>2
  <2> QED BY <1>0, <2>1, <2>2, <2>3 DEF FtpTypeOK
<1>5. ASSUME NEW c \in FtpClients, receive_and_save_file(c) PROVE FtpTypeOK'
  <2>1. PICK k0 \in DOMAIN queue : /\ k0 = First("DATA") /\ queue' \in Seq(Messages)
                                   /\ queue[k0].of \in FtpClients /\ queue[k0].n \in Nat
    BY <1>5, TakeTypes DEF receive_and_save_file
  <2>2. /\ UNCHANGED <<phase, request, next, size, given, lost>>
        /\ \/ stage' = [stage EXCEPT ![c] = "done"] /\ UNCHANGED saved
           \/ saved' = [saved EXCEPT ![c] = Append(@, <<queue[k0].of, queue[k0].n>>)] /\ UNCHANGED stage
    BY <1>5, <2>1 DEF receive_and_save_file
  <2>3. stage' = [d \in FtpClients |-> stage'[d]]
    BY <1>0, <2>2
  <2>4. saved' \in [FtpClients -> Seq(Packets)]
    <3>1. <<queue[k0].of, queue[k0].n>> \in Packets
      BY <2>1 DEF Packets
    <3>2. Append(saved[c], <<queue[k0].of, queue[k0].n>>) \in Seq(Packets)
      BY <1>0, <3>1, AppendFact
    <3> QED BY <1>0, <2>2, <3>2
  <2> QED BY <1>0, <2>1, <2>2, <2>3, <2>4 DEF FtpTypeOK
<1>6. ASSUME NEW c \in FtpClients, fwrite_fails(c) PROVE FtpTypeOK'
  <2>1. PICK k0 \in DOMAIN queue : /\ k0 = First("DATA") /\ queue' \in Seq(Messages)
                                   /\ queue[k0].of \in FtpClients /\ queue[k0].n \in Nat
    BY <1>6, TakeTypes DEF fwrite_fails
  <2>2. /\ UNCHANGED <<phase, request, next, size, given, saved>>
        /\ stage' = [stage EXCEPT ![c] = "gone"]
        /\ lost' = lost \cup {<<queue[k0].of, queue[k0].n>>}
    BY <1>6, <2>1 DEF fwrite_fails
  <2>3. stage' = [d \in FtpClients |-> stage'[d]]
    BY <1>0, <2>2
  <2>4. lost' \subseteq Packets
    BY <1>0, <2>1, <2>2 DEF Packets
  <2> QED BY <1>0, <2>1, <2>2, <2>3, <2>4 DEF FtpTypeOK
<1>7. ASSUME NEW c \in FtpClients, stop(c) PROVE FtpTypeOK'
  <2>1. stage' = [stage EXCEPT ![c] = "gone"] /\ UNCHANGED <<queue, phase, request, next, size, saved, given, lost>>
    BY <1>7 DEF stop
  <2>2. stage' = [d \in FtpClients |-> stage'[d]]
    BY <1>0, <2>1
  <2> QED BY <1>0, <2>1, <2>2 DEF FtpTypeOK
<1> QED BY <1>1, <1>2, <1>3, <1>4, <1>5, <1>6, <1>7
        DEF FtpStep, ftp_server, handle_file_request, ftp_client

\* Where a request can be, step by step.
LEMMA RequestStep ==
  ASSUME FtpTypeOK, FtpTypeOK', RequestInv, FtpStep
  PROVE  RequestInv'
<1>0. given \in [FtpClients -> Nat] /\ stage = [c \in FtpClients |-> stage[c]]
      /\ (phase = "send" => request \in FtpClients) /\ next \in Nat \ {0}
      /\ \A k \in DOMAIN queue : queue[k].of \in FtpClients
  <2>1. \A k \in DOMAIN queue : queue[k] \in Messages
    BY DEF FtpTypeOK
  <2>2. \A m \in Messages : m.of \in FtpClients
    BY DEF Messages
  <2> QED BY <2>1, <2>2 DEF FtpTypeOK
\* Taking message k0 renumbers the others.
<1>a. ASSUME NEW k0 \in DOMAIN queue, queue' = Without(k0)
      PROVE  \A i, j \in DOMAIN queue' :
               /\ Past(k0, i) \in DOMAIN queue \ {k0} /\ queue'[i] = queue[Past(k0, i)]
               /\ Past(k0, i) = Past(k0, j) => i = j
  BY <1>a, WithoutFact
<1>1. CASE main_server
  <2>1. PICK k0 \in DOMAIN queue : k0 = First("PATH") /\ queue[k0].mtype = "PATH" /\ queue' = Without(k0)
    BY <1>1, TakeTypes DEF main_server
  <2>2. phase' = "send" /\ request' = queue[k0].of /\ next' = 1 /\ UNCHANGED <<stage, given>>
    BY <1>1, <2>1 DEF main_server
  <2>3. given[queue[k0].of] = 0 /\ stage[queue[k0].of] # "ask"
        /\ \A k \in DOMAIN queue \ {k0} : queue[k].mtype = "PATH" => queue[k].of # queue[k0].of
    BY <2>1 DEF RequestInv
  <2>4. \A j, k \in DOMAIN queue' :
          queue'[j].mtype = "PATH" /\ queue'[k].mtype = "PATH" /\ queue'[j].of = queue'[k].of => j = k
    BY <1>a, <2>1 DEF RequestInv
  <2>5. \A k \in DOMAIN queue' : queue'[k].mtype = "PATH" =>
          /\ given'[queue'[k].of] = 0 /\ stage'[queue'[k].of] # "ask"
          /\ queue'[k].of # request'
    BY <1>a, <2>1, <2>2, <2>3 DEF RequestInv
  <2>6. \A f \in FtpClients : stage[f] = "ask" => given[f] = 0 /\ f # request'
    BY <2>2, <2>3 DEF RequestInv
  <2> QED BY <1>0, <2>2, <2>3, <2>4, <2>5, <2>6 DEF RequestInv
<1>2. CASE send_data_packet
  <2>1. phase = "send" /\ request \in FtpClients /\ next \in Nat /\ "DATA" \in {"PATH", "DATA", "EOT"}
    BY <1>0, <1>2 DEF send_data_packet
  <2>2. PICK m \in Messages :
          /\ m.mtype = "DATA" /\ Len(queue) \in Nat
          /\ DOMAIN queue = 1 .. Len(queue) /\ DOMAIN queue' = 1 .. Len(queue) + 1
          /\ \A k \in DOMAIN queue : queue'[k] = queue[k]
          /\ queue'[Len(queue) + 1] = m
    BY <1>2, <2>1, SendTypes DEF send_data_packet
  <2>3. given' = [given EXCEPT ![request] = next] /\ next' = next + 1 /\ UNCHANGED <<phase, request, stage>>
    BY <1>2 DEF send_data_packet
  <2>4. \A k \in DOMAIN queue' : queue'[k].mtype = "PATH" => k \in DOMAIN queue /\ queue'[k] = queue[k]
    BY <2>2
  <2>5. \A f \in FtpClients : f # request => given'[f] = given[f]
    BY <1>0, <2>3
  <2>6. given'[request] = next
    BY <1>0, <2>1, <2>3
  <2>7. \A j, k \in DOMAIN queue' :
          queue'[j].mtype = "PATH" /\ queue'[k].mtype = "PATH" /\ queue'[j].of = queue'[k].of => j = k
    BY <2>4 DEF RequestInv
  <2>8. \A k \in DOMAIN queue' : queue'[k].mtype = "PATH" =>
          /\ given'[queue'[k].of] = 0 /\ stage'[queue'[k].of] # "ask"
          /\ queue'[k].of # request
    BY <1>0, <2>1, <2>3, <2>4, <2>5 DEF RequestInv
  <2>9. \A f \in FtpClients : stage[f] = "ask" => given'[f] = 0 /\ f # request
    BY <2>1, <2>5 DEF RequestInv
  <2> QED BY <1>0, <2>1, <2>3, <2>6, <2>7, <2>8, <2>9 DEF RequestInv
<1>3. CASE send_eot_packet
  <2>1. phase = "send" /\ request \in FtpClients /\ 0 \in Nat /\ "EOT" \in {"PATH", "DATA", "EOT"}
    BY <1>0, <1>3 DEF send_eot_packet
  <2>2. PICK m \in Messages :
          /\ m.mtype = "EOT" /\ Len(queue) \in Nat
          /\ DOMAIN queue = 1 .. Len(queue) /\ DOMAIN queue' = 1 .. Len(queue) + 1
          /\ \A k \in DOMAIN queue : queue'[k] = queue[k]
          /\ queue'[Len(queue) + 1] = m
    BY <1>3, <2>1, SendTypes DEF send_eot_packet
  <2>3. phase' = "wait" /\ UNCHANGED <<given, stage>>
    BY <1>3 DEF send_eot_packet
  <2>4. \A k \in DOMAIN queue' : queue'[k].mtype = "PATH" => k \in DOMAIN queue /\ queue'[k] = queue[k]
    BY <2>2
  <2> QED BY <2>3, <2>4 DEF RequestInv
<1>4. ASSUME NEW c \in FtpClients, send_path_request(c) PROVE RequestInv'
  <2>1. stage[c] = "ask" /\ 0 \in Nat /\ "PATH" \in {"PATH", "DATA", "EOT"}
    BY <1>4 DEF send_path_request
  <2>2. PICK m \in Messages :
          /\ m.of = c /\ Len(queue) \in Nat
          /\ DOMAIN queue = 1 .. Len(queue) /\ DOMAIN queue' = 1 .. Len(queue) + 1
          /\ \A k \in DOMAIN queue : queue'[k] = queue[k]
          /\ queue'[Len(queue) + 1] = m
    BY <1>4, <2>1, SendTypes DEF send_path_request
  <2>3. stage' = [stage EXCEPT ![c] = "receive"] /\ UNCHANGED <<phase, request, next, given>>
    BY <1>4 DEF send_path_request
  <2>4. \A f \in FtpClients : stage'[f] = "ask" => stage[f] = "ask"
    BY <1>0, <2>3
  <2>5. stage'[c] # "ask" /\ given[c] = 0 /\ ~(phase = "send" /\ request = c)
    BY <1>0, <2>1, <2>3 DEF RequestInv
  <2>6. \A k \in DOMAIN queue : queue[k].mtype = "PATH" => queue[k].of # c
    BY <2>1 DEF RequestInv
  <2>7. \A k \in DOMAIN queue' : (k \in DOMAIN queue /\ queue'[k] = queue[k])
                                   \/ (k = Len(queue) + 1 /\ queue'[k].of = c)
    BY <2>2
  <2>8. \A j, k \in DOMAIN queue' :
          queue'[j].mtype = "PATH" /\ queue'[k].mtype = "PATH" /\ queue'[j].of = queue'[k].of => j = k
    BY <2>6, <2>7 DEF RequestInv
  <2>9. \A k \in DOMAIN queue' : queue'[k].mtype = "PATH" =>
          /\ given'[queue'[k].of] = 0 /\ stage'[queue'[k].of] # "ask"
          /\ ~(phase' = "send" /\ request' = queue'[k].of)
    BY <1>0, <2>3, <2>4, <2>5, <2>7 DEF RequestInv
  <2> QED BY <2>3, <2>4, <2>8, <2>9 DEF RequestInv
\* A client that takes a packet or leaves.
<1>b. ASSUME UNCHANGED <<phase, request, next, given>>,
             \A f \in FtpClients : stage'[f] = "ask" => stage[f] = "ask",
             queue' = queue \/ \E k0 \in DOMAIN queue : queue' = Without(k0)
      PROVE  RequestInv'
  <2>1. \A j, k \in DOMAIN queue' :
          queue'[j].mtype = "PATH" /\ queue'[k].mtype = "PATH" /\ queue'[j].of = queue'[k].of => j = k
    BY <1>a, <1>b DEF RequestInv
  <2>2. \A k \in DOMAIN queue' : queue'[k].mtype = "PATH" =>
          /\ given'[queue'[k].of] = 0 /\ stage'[queue'[k].of] # "ask"
          /\ ~(phase' = "send" /\ request' = queue'[k].of)
    BY <1>0, <1>a, <1>b DEF RequestInv
  <2> QED BY <1>b, <2>1, <2>2 DEF RequestInv
<1>5. ASSUME NEW c \in FtpClients, receive_and_save_file(c) PROVE RequestInv'
  <2>1. \E k0 \in DOMAIN queue : queue' = Without(k0)
    BY <1>5, TakeTypes DEF receive_and_save_file
  <2>2. UNCHANGED <<phase, request, next, given>>
        /\ (stage' = stage \/ stage' = [stage EXCEPT ![c] = "done"])
    BY <1>5 DEF receive_and_save_file
  <2> QED BY <1>0, <1>b, <2>1, <2>2
<1>6. ASSUME NEW c \in FtpClients, fwrite_fails(c) PROVE RequestInv'
  <2>1. \E k0 \in DOMAIN queue : queue' = Without(k0)
    BY <1>6, TakeTypes DEF fwrite_fails
  <2>2. UNCHANGED <<phase, request, next, given>> /\ stage' = [stage EXCEPT ![c] = "gone"]
    BY <1>6 DEF fwrite_fails
  <2> QED BY <1>0, <1>b, <2>1, <2>2
<1>7. ASSUME NEW c \in FtpClients, stop(c) PROVE RequestInv'
  <2>1. UNCHANGED <<queue, phase, request, next, given>> /\ stage' = [stage EXCEPT ![c] = "gone"]
    BY <1>7 DEF stop
  <2> QED BY <1>0, <1>b, <2>1
<1> QED BY <1>1, <1>2, <1>3, <1>4, <1>5, <1>6, <1>7
        DEF FtpStep, ftp_server, handle_file_request, ftp_client

\* Where a packet is, step by step.
LEMMA PacketsStep ==
  ASSUME FtpTypeOK, FtpTypeOK', RequestInv, PacketsOnce, FtpStep
  PROVE  PacketsOnce'
<1>0. given \in [FtpClients -> Nat] /\ (phase = "send" => request \in FtpClients) /\ next \in Nat \ {0}
  BY DEF FtpTypeOK
<1>1. CASE main_server
  <2>1. PICK k0 \in DOMAIN queue : k0 = First("PATH") /\ queue[k0].mtype = "PATH" /\ queue' = Without(k0)
    BY <1>1, TakeTypes DEF main_server
  <2>2. \A f \in FtpClients : InOrder(f) => Contents(f)' = Contents(f) /\ InOrder(f)'
    BY <2>1, RemoveOther
  <2>3. UNCHANGED <<saved, lost, given>>
    BY <1>1 DEF main_server
  <2> QED BY <2>2, <2>3, PacketsStay
<1>2. CASE send_data_packet
  <2>1. phase = "send" /\ request \in FtpClients /\ next \in Nat /\ next = given[request] + 1
    BY <1>0, <1>2 DEF send_data_packet, RequestInv
  <2>2. queue' = Append(queue, [mtype |-> "DATA", of |-> request, n |-> next])
        /\ given' = [given EXCEPT ![request] = next] /\ UNCHANGED <<saved, lost>>
    BY <1>2 DEF send_data_packet, msgsnd
  <2> QED BY <2>1, <2>2, SentStep
<1>3. CASE send_eot_packet
  <2>1. phase = "send" /\ request \in FtpClients /\ 0 \in Nat /\ "EOT" \in {"PATH", "DATA", "EOT"}
    BY <1>0, <1>3 DEF send_eot_packet
  <2>2. PICK m \in Messages : m.mtype = "EOT" /\ queue' = Append(queue, m)
    BY <1>3, <2>1, SendTypes DEF send_eot_packet
  <2>3. \A f \in FtpClients : InOrder(f) => Contents(f)' = Contents(f) /\ InOrder(f)'
    BY <2>2, AppendOther
  <2>4. UNCHANGED <<saved, lost, given>>
    BY <1>3 DEF send_eot_packet
  <2> QED BY <2>3, <2>4, PacketsStay
<1>4. ASSUME NEW c \in FtpClients, send_path_request(c) PROVE PacketsOnce'
  <2>1. 0 \in Nat /\ "PATH" \in {"PATH", "DATA", "EOT"}
    OBVIOUS
  <2>2. PICK m \in Messages : m.mtype = "PATH" /\ queue' = Append(queue, m)
    BY <1>4, <2>1, SendTypes DEF send_path_request
  <2>3. \A f \in FtpClients : InOrder(f) => Contents(f)' = Contents(f) /\ InOrder(f)'
    BY <2>2, AppendOther
  <2>4. UNCHANGED <<saved, lost, given>>
    BY <1>4 DEF send_path_request
  <2> QED BY <2>3, <2>4, PacketsStay
<1>5. ASSUME NEW c \in FtpClients, receive_and_save_file(c) PROVE PacketsOnce'
  <2>1. PICK k0 \in DOMAIN queue : /\ k0 = First("DATA") /\ queue' = Without(k0) /\ queue[k0].mtype = "DATA"
                                   /\ \A j \in DOMAIN queue : queue[j].mtype = "DATA" => k0 <= j
                                   /\ queue[k0].of \in FtpClients
    BY <1>5, TakeTypes DEF receive_and_save_file
  \* No packet has length 0.
  <2>2. queue[k0].n # 0
    <3>1. PICK f : f = queue[k0].of
      OBVIOUS
    <3>2. f \in FtpClients /\ PacketInv(f)
      BY <2>1, <3>1, PacketsFact
    <3>3. queue[k0].n \in Contents(f)
      BY <2>1, <3>1 DEF Contents, Queued
    <3>4. queue[k0].n \in 1 .. given[f] /\ given[f] \in Nat
      BY <1>0, <3>2, <3>3 DEF PacketInv
    <3> QED BY <3>4
  <2>3. saved' = [saved EXCEPT ![c] = Append(@, <<queue[k0].of, queue[k0].n>>)] /\ UNCHANGED <<given, lost>>
    BY <1>5, <2>1, <2>2 DEF receive_and_save_file
  <2> QED BY <2>1, <2>3, SavedStep
<1>6. ASSUME NEW c \in FtpClients, fwrite_fails(c) PROVE PacketsOnce'
  <2>1. PICK k0 \in DOMAIN queue : /\ k0 = First("DATA") /\ queue' = Without(k0) /\ queue[k0].mtype = "DATA"
                                   /\ \A j \in DOMAIN queue : queue[j].mtype = "DATA" => k0 <= j
    BY <1>6, TakeTypes DEF fwrite_fails
  <2>2. lost' = lost \cup {<<queue[k0].of, queue[k0].n>>} /\ UNCHANGED <<given, saved>>
    BY <1>6, <2>1 DEF fwrite_fails
  <2> QED BY <2>1, <2>2, LostStep
<1>7. ASSUME NEW c \in FtpClients, stop(c) PROVE PacketsOnce'
  <2>1. UNCHANGED <<queue, saved, lost, given>>
    BY <1>7 DEF stop
  <2>2. \A f \in FtpClients : InOrder(f) => Contents(f)' = Contents(f) /\ InOrder(f)'
    BY <2>1 DEF Contents, InOrder, Queued
  <2> QED BY <2>1, <2>2, PacketsStay
<1> QED BY <1>1, <1>2, <1>3, <1>4, <1>5, <1>6, <1>7
        DEF FtpStep, ftp_server, handle_file_request, ftp_client

LEMMA FtpInitInv ==
  ASSUME Unasked, \/ stage = [c \in FtpClients |-> "ask"] /\ size \in [FtpClients -> FileSizes]
                  \/ stage = [c \in FtpClients |-> "gone"] /\ size = [c \in FtpClients |-> -1]
  PROVE  FtpInv
<1>1. queue = <<>> /\ queue \in Seq(Messages) /\ DOMAIN queue = {}
  BY DEF Unasked
<1>2. FtpTypeOK
  <2>1. size \in [FtpClients -> Int]
    <3>1. FileSizes \subseteq Int /\ -1 \in Int
      BY MyFtpAssumption
    <3> QED BY <3>1
  <2>2. stage = [c \in FtpClients |-> stage[c]]
    OBVIOUS
  <2>3. saved \in [FtpClients -> Seq(Packets)] /\ lost \subseteq Packets /\ given \in [FtpClients -> Nat]
    BY DEF Unasked
  <2> QED BY <1>1, <2>1, <2>2, <2>3 DEF FtpTypeOK, Unasked
<1>3. RequestInv
  BY <1>1 DEF RequestInv, Unasked
<1>4. ASSUME NEW f \in FtpClients PROVE PacketInv(f)
  <2>1. Queued(f) = {} /\ Contents(f) = {} /\ \A c \in FtpClients : Took(c, f) = {}
    BY <1>1 DEF Queued, Contents, Took, Unasked
  <2>2. ASSUME NEW n PROVE n \notin Gone(f)
    <3>1. ~Written(saved, f, n) /\ <<f, n>> \notin lost
      BY DEF Written, Unasked
    <3> QED BY <1>2, <3>1, GoneFact
  <2>3. 1 .. given[f] = {}
    BY DEF Unasked
  <2> QED BY <2>1, <2>2, <2>3 DEF PacketInv, InOrder
<1> QED BY <1>2, <1>3, <1>4, PacketsFact DEF FtpInv

LEMMA FtpSame ==
  ASSUME FtpInv, UNCHANGED ftpVars
  PROVE  FtpInv'
<1>1. UNCHANGED <<queue, phase, request, next, stage, size, saved, given, lost>>
  BY DEF ftpVars
<1>2. FtpTypeOK' /\ RequestInv'
  BY <1>1 DEF FtpInv, FtpTypeOK, RequestInv
<1>3. PacketsOnce'
  <2>1. \A f \in FtpClients : InOrder(f) => Contents(f)' = Contents(f) /\ InOrder(f)'
    BY <1>1 DEF Contents, InOrder, Queued
  <2> QED BY <1>1, <2>1, PacketsStay DEF FtpInv
<1> QED BY <1>2, <1>3 DEF FtpInv

LEMMA FtpInvariance == ExchangeSpec => []FtpInv
<1>1. ExchangeInit => FtpInv
  BY FtpInitInv DEF ExchangeInit, FtpInit, FtpIdle
<1>2. FtpInv /\ [ExchangeNext]_exchangeVars => FtpInv'
  <2> SUFFICES ASSUME FtpInv, [ExchangeNext]_exchangeVars PROVE FtpInv'
    OBVIOUS
  <2>1. CASE FtpStep
    BY <2>1, FtpTypeStep, RequestStep, PacketsStep DEF FtpInv
  <2>2. CASE UNCHANGED ftpVars
    BY <2>2, FtpSame
  <2> QED BY <2>1, <2>2 DEF ExchangeNext, exchangeVars
<1> QED BY <1>1, <1>2, PTL DEF ExchangeSpec

\* Every packet of every file is at one place, and in order: in the queue, in one
\* of the files saved, or lost (src/IPC/xsi/msg/myftp_msg), for any number of
\* clients, files of any length and a queue of any size.
THEOREM PacketsArrive == ExchangeSpec => []PacketsOnce
<1>1. FtpInv => PacketsOnce
  BY DEF FtpInv
<1> QED BY <1>1, FtpInvariance, PTL

-----------------------------------------------------------------------------
(***************************************************************************)
(* FlattenSeq of SequencesExt is a recursive function, whose values are    *)
(* found by induction: its least place that is wrong does not exist.       *)
(***************************************************************************)

\* f is the recursive function of FlattenSeq(s), for n parts.
Flat(f, s, n) == f = [i \in 1 .. n |-> IF i = 1 THEN s[i] ELSE f[i - 1] \o s[i]]

Agree(s, t, k) == \A i \in 1 .. k : s[i] = t[i]

LEMMA FlatFact ==
  ASSUME NEW f, NEW s, NEW n \in Nat
  PROVE  Flat(f, s, n) <=>
           /\ f = [i \in 1 .. n |-> f[i]]
           /\ \A i \in 1 .. n : f[i] = IF i = 1 THEN s[i] ELSE f[i - 1] \o s[i]
<1>1. ASSUME Flat(f, s, n) PROVE /\ f = [i \in 1 .. n |-> f[i]]
           /\ \A i \in 1 .. n : f[i] = IF i = 1 THEN s[i] ELSE f[i - 1] \o s[i]
  <2> DEFINE h == [i \in 1 .. n |-> IF i = 1 THEN s[i] ELSE f[i - 1] \o s[i]]
  <2>1. f = h
    BY <1>1 DEF Flat
  <2>2. \A i \in 1 .. n : h[i] = IF i = 1 THEN s[i] ELSE f[i - 1] \o s[i]
    OBVIOUS
  <2>3. h = [i \in 1 .. n |-> h[i]]
    OBVIOUS
  <2> HIDE DEF h
  <2> QED BY <2>1, <2>2, <2>3
<1>2. ASSUME f = [i \in 1 .. n |-> f[i]],
             \A i \in 1 .. n : f[i] = IF i = 1 THEN s[i] ELSE f[i - 1] \o s[i]
      PROVE Flat(f, s, n)
  <2> DEFINE h == [i \in 1 .. n |-> IF i = 1 THEN s[i] ELSE f[i - 1] \o s[i]]
  <2>2. \A i \in 1 .. n : h[i] = IF i = 1 THEN s[i] ELSE f[i - 1] \o s[i]
    OBVIOUS
  <2>3. h = [i \in 1 .. n |-> h[i]]
    OBVIOUS
  <2>4. f = h
    <3> HIDE DEF h
    <3> QED BY <1>2, <2>2, <2>3
  <2> QED BY <2>4 DEF Flat
<1> QED BY <1>1, <1>2

LEMMA FlatExists ==
  ASSUME NEW s, NEW n \in Nat
  PROVE  \E f : Flat(f, s, n)
<1> DEFINE T == {m \in Nat : ~ \E f : Flat(f, s, m)}
<1> SUFFICES ASSUME T # {} PROVE FALSE
  OBVIOUS
<1>1. PICK m \in T : \A k \in T : m <= k
  BY Least
<1>2. m # 0
  <2> DEFINE e == [i \in 1 .. 0 |-> 0]
  <2>1. Flat(e, s, 0)
    BY DEF Flat
  <2> QED BY <2>1
<1>3. PICK f : Flat(f, s, m - 1)
  BY <1>1, <1>2
<1> DEFINE g == [i \in 1 .. m |-> IF i = 1 THEN s[i] ELSE f[i - 1] \o s[i]]
<1>4. g = [i \in 1 .. m |-> g[i]] /\ \A i \in 1 .. m : g[i] = IF i = 1 THEN s[i] ELSE f[i - 1] \o s[i]
  OBVIOUS
<1>6. m \in Nat /\ m - 1 \in Nat
  BY <1>1, <1>2
<1>5. \A i \in 1 .. m - 1 : f[i] = IF i = 1 THEN s[i] ELSE f[i - 1] \o s[i]
  BY <1>3, <1>6, FlatFact
<1> HIDE DEF g
<1>7. ASSUME NEW i \in 1 .. m - 1 PROVE g[i] = f[i]
  <2>1. i \in 1 .. m
    BY <1>6
  <2>2. g[i] = IF i = 1 THEN s[i] ELSE f[i - 1] \o s[i]
    BY <1>4, <2>1
  <2>3. f[i] = IF i = 1 THEN s[i] ELSE f[i - 1] \o s[i]
    BY <1>5
  <2> QED BY <2>2, <2>3, Zenon
<1>8. ASSUME NEW i \in 1 .. m PROVE g[i] = IF i = 1 THEN s[i] ELSE g[i - 1] \o s[i]
  <2>1. g[i] = IF i = 1 THEN s[i] ELSE f[i - 1] \o s[i]
    BY <1>4
  <2>2. i # 1 => i - 1 \in 1 .. m - 1
    BY <1>6
  <2>3. i # 1 => g[i - 1] = f[i - 1]
    BY <1>7, <2>2
  <2> QED BY <2>1, <2>3, Zenon
<1>9. Flat(g, s, m)
  BY <1>4, <1>8, FlatFact, <1>6
<1> QED BY <1>9, <1>1

LEMMA FlatUnique ==
  ASSUME NEW s, NEW t, NEW n \in Nat, NEW k \in 0 .. n, NEW f, NEW g,
         Flat(f, s, n), Flat(g, t, k), Agree(s, t, k)
  PROVE  Agree(f, g, k)
<1> DEFINE T == {i \in 1 .. k : f[i] # g[i]}
<1> SUFFICES ASSUME T # {} PROVE FALSE
  BY DEF Agree
<1>0. T \subseteq Nat
  OBVIOUS
<1>1. PICK m \in T : \A j \in T : m <= j
  <2> HIDE DEF T
  <2> QED BY <1>0, Least
<1>2. f[m] = (IF m = 1 THEN s[m] ELSE f[m - 1] \o s[m]) /\ g[m] = (IF m = 1 THEN t[m] ELSE g[m - 1] \o t[m])
  BY <1>1, FlatFact
<1>3. m # 1 => m - 1 \in 1 .. k /\ m - 1 \notin T
  BY <1>1
<1>4. s[m] = t[m]
  BY <1>1 DEF Agree
<1> QED BY <1>1, <1>2, <1>3, <1>4

LEMMA FlattenIs ==
  ASSUME NEW s, NEW n \in Nat, Len(s) = n, n # 0, NEW f, Flat(f, s, n)
  PROVE  FlattenSeq(s) = f[n]
<1>2. f = CHOOSE h : Flat(h, s, n)
  <2> DEFINE h == CHOOSE h : Flat(h, s, n)
  <2>1. Flat(h, s, n)
    OBVIOUS
  <2> HIDE DEF h
  <2>2. \A i \in 1 .. n : f[i] = h[i]
    <3>1. Agree(s, s, n) /\ n \in 0 .. n
      BY DEF Agree
    <3>2. Agree(f, h, n)
      BY <2>1, <3>1, FlatUnique
    <3> QED BY <3>2 DEF Agree
  <2>3. f = [i \in 1 .. n |-> f[i]] /\ h = [i \in 1 .. n |-> h[i]]
    BY <2>1, FlatFact
  <2>4. f = h
    BY <2>2, <2>3
  <2> QED BY <2>4 DEF h
<1>3. FlattenSeq(s) = (CHOOSE h : Flat(h, s, n))[n]
  BY DEF FlattenSeq, Flat
<1> QED BY <1>2, <1>3

LEMMA FlatEmpty == FlattenSeq(<<>>) = <<>>
BY DEF FlattenSeq

LEMMA FlatAppend ==
  ASSUME NEW S, NEW s \in Seq(Seq(S)), NEW x \in Seq(S)
  PROVE  FlattenSeq(Append(s, x)) = FlattenSeq(s) \o x
<1> DEFINE t == Append(s, x)
           n == Len(s)
<1>1. n \in Nat /\ Len(t) = n + 1 /\ t[n + 1] = x /\ \A i \in 1 .. n : t[i] = s[i]
  OBVIOUS
<1> HIDE DEF t, n
<1>0. n + 1 \in Nat /\ n \in 0 .. n + 1
  BY <1>1
<1>2. PICK f : Flat(f, t, n + 1)
  BY FlatExists, <1>0
<1>3. FlattenSeq(t) = f[n + 1]
  BY <1>1, <1>2, FlattenIs
<1>4. f[n + 1] = IF n + 1 = 1 THEN x ELSE f[n] \o x
  BY <1>1, <1>2, FlatFact
<1>5. CASE n = 0
  <2>1. s = <<>>
    BY <1>5 DEF n
  <2>2. <<>> \o x = x
    BY ConcatEmptySeq
  <2> QED BY <1>3, <1>4, <1>5, <2>1, <2>2, FlatEmpty DEF t
<1>6. CASE n # 0
  <2>1. PICK g : Flat(g, s, n)
    BY FlatExists, <1>1
  <2>2. FlattenSeq(s) = g[n]
    BY <2>1, <1>1, <1>6, FlattenIs DEF n
  <2>3. \A i \in 1 .. n : f[i] = g[i]
    <3>1. PICK z \in Nat : z = n + 1
      BY <1>0
    <3>2. Flat(f, t, z) /\ n \in 0 .. z
      BY <1>0, <1>2, <3>1
    <3>3. \A i \in 1 .. n : t[i] = s[i]
      BY <1>1
    <3>4. Agree(t, s, n)
      BY <3>3 DEF Agree
    <3>5. Agree(f, g, n)
      BY <1>1, <2>1, <3>1, <3>2, <3>4, FlatUnique
    <3> QED BY <3>5 DEF Agree
  <2>4. n \in 1 .. n /\ n + 1 # 1
    BY <1>1, <1>6
  <2>5. f[n] = g[n]
    BY <2>3, <2>4
  <2>6. FlattenSeq(t) = g[n] \o x
    BY <1>3, <1>4, <2>4, <2>5, Zenon
  <2> QED BY <2>2, <2>6, Zenon DEF t
<1> QED BY <1>5, <1>6

-----------------------------------------------------------------------------
(***************************************************************************)
(* The invariant of FifoChat.                                              *)
(***************************************************************************)

Chars == Nat \X Nat

ChatTypeOK ==
    /\ kind = [p \in Sides |-> kind[p]] /\ at = [p \in Sides |-> at[p]]
    /\ input \in [Sides -> Seq(-1 .. PipeMax - 1)]
    /\ pipe \in [Pipes -> Seq(Chars)] /\ chunk \in Seq(Chars)
    /\ sent \in [Sides -> Seq(Chars)] /\ shown \in [Sides -> Seq(Seq(Chars))]
    /\ \A p \in Sides : FlattenSeq(shown[p]) \in Seq(Chars)
    /\ \A p \in Sides : at[p] = "write" => input[p] # <<>> /\ Head(input[p]) \in Nat

\* Who reads and who writes.
KindInv ==
    /\ kind["b"] \in {"fifo_chat_b", "mkfiforead"}
    /\ at["a"] = "start" => reader = "off" /\ chunk = <<>>
    /\ reader = "read" => chunk = <<>>
    /\ kind["b"] = "mkfiforead" =>
         /\ kind["a"] \notin {"fifo_chat_a", "mkfifo_chat"}
         /\ reader = "off" /\ at["b"] \notin {"line", "write"}
         /\ sent["b"] = <<>> /\ pipe["ba"] = <<>> /\ chunk = <<>> /\ shown["a"] = <<>>

\* The lines a program has written with their terminating zeros: the characters
\* in order, and a zero wherever a line ends.
Ordered(s) ==
    /\ \A i, j \in DOMAIN s : i < j /\ s[i][2] # 0 /\ s[j][2] # 0 => Earlier(s[i], s[j])
    /\ \A i, j \in DOMAIN s : i < j /\ s[i][1] # s[j][1] => \E k \in i .. j - 1 : s[k][2] = 0
    /\ s # <<>> => s[Len(s)][2] = 0 /\ \A i \in DOMAIN s : s[i][1] <= s[Len(s)][1]

NoZero(s) == \A i \in DOMAIN s : s[i][2] # 0

\* r is what is left to show of s.
Suffix(r, s) == Len(r) <= Len(s) /\ \A k \in DOMAIN r : r[k] = s[Len(s) - Len(r) + k]

\* The screen holds, in order, characters from before place d of what was written.
Drawn(screen, s, d) ==
    /\ \A i, j \in DOMAIN screen : i < j => Earlier(screen[i], screen[j])
    /\ \A i \in DOMAIN screen : \E k \in 1 .. d : s[k] = screen[i] /\ s[k][2] # 0

OneLine(line) == \A i, j \in DOMAIN line : line[i][1] = line[j][1]

\* What side p has not shown of the other's characters.
Rest(p) == IF p = "a" THEN chunk \o pipe["ba"] ELSE pipe["ab"]

ScreenInv(p) ==
    LET q == Peer(p)
    IN  IF kind[q] \in Terminates
          THEN /\ Ordered(sent[q]) /\ Suffix(Rest(p), sent[q])
               /\ Drawn(FlattenSeq(shown[p]), sent[q], Len(sent[q]) - Len(Rest(p)))
               /\ \A k \in DOMAIN shown[p] : OneLine(shown[p][k])
          ELSE NoZero(sent[q]) /\ FlattenSeq(shown[p]) \o pipe[In(p)] = sent[q]

ChatInv == ChatTypeOK /\ KindInv /\ \A p \in Sides : ScreenInv(p)

-----------------------------------------------------------------------------
(***************************************************************************)
(* FifoChat: sequences of characters.                                      *)
(***************************************************************************)

\* t is a followed by b.
Joined(a, b, t) ==
    /\ Len(a) \in Nat /\ Len(b) \in Nat
    /\ DOMAIN a = 1 .. Len(a) /\ DOMAIN b = 1 .. Len(b)
    /\ Len(t) = Len(a) + Len(b) /\ DOMAIN t = 1 .. Len(a) + Len(b)
    /\ \A i \in 1 .. Len(a) : t[i] = a[i]
    /\ \A i \in 1 .. Len(b) : t[Len(a) + i] = b[i]
    /\ \A i \in 1 .. Len(a) + Len(b) : i \notin 1 .. Len(a) => t[i] = b[i - Len(a)] /\ i - Len(a) \in 1 .. Len(b)

LEMMA ConcatFact ==
  ASSUME NEW S, NEW a \in Seq(S), NEW b \in Seq(S)
  PROVE  /\ Len(a) \in Nat /\ Len(b) \in Nat
         /\ DOMAIN a = 1 .. Len(a) /\ DOMAIN b = 1 .. Len(b)
         /\ a \o b \in Seq(S) /\ Len(a \o b) = Len(a) + Len(b)
         /\ DOMAIN (a \o b) = 1 .. Len(a) + Len(b)
         /\ \A i \in 1 .. Len(a) : (a \o b)[i] = a[i]
         /\ \A i \in 1 .. Len(b) : (a \o b)[Len(a) + i] = b[i]
         /\ \A i \in 1 .. Len(a) + Len(b) : i \notin 1 .. Len(a) => (a \o b)[i] = b[i - Len(a)] /\ i - Len(a) \in 1 .. Len(b)
<1>1. /\ Len(a) \in Nat /\ Len(b) \in Nat
      /\ DOMAIN a = 1 .. Len(a) /\ DOMAIN b = 1 .. Len(b)
      /\ a \o b \in Seq(S) /\ Len(a \o b) = Len(a) + Len(b)
      /\ DOMAIN (a \o b) = 1 .. Len(a) + Len(b)
  BY ConcatProperties
<1>2. \A i \in 1 .. Len(a) : (a \o b)[i] = a[i]
  OBVIOUS
<1>3. ASSUME NEW i \in 1 .. Len(a) + Len(b), i \notin 1 .. Len(a)
      PROVE (a \o b)[i] = b[i - Len(a)] /\ i - Len(a) \in 1 .. Len(b)
  BY <1>3
<1>4. ASSUME NEW i \in 1 .. Len(b) PROVE (a \o b)[Len(a) + i] = b[i]
  <2>1. PICK z : z = Len(a) + i
    OBVIOUS
  <2>2. z \in 1 .. Len(a) + Len(b) /\ z \notin 1 .. Len(a) /\ z - Len(a) = i
    BY <1>1, <2>1
  <2> QED BY <1>3, <2>1, <2>2
<1> QED BY <1>1, <1>2, <1>3, <1>4

LEMMA JoinedFact ==
  ASSUME NEW S, NEW a \in Seq(S), NEW b \in Seq(S)
  PROVE  a \o b \in Seq(S) /\ Joined(a, b, a \o b)
BY ConcatFact DEF Joined

LEMMA ConcatAgain ==
  ASSUME NEW S, NEW a \in Seq(S), NEW b \in Seq(S), NEW c \in Seq(S)
  PROVE  (a \o b) \o c = a \o (b \o c)
BY ConcatAssociative

LEMMA CharsFact == \A c \in Chars : c[1] \in Nat /\ c[2] \in Nat /\ c = <<c[1], c[2]>>
BY DEF Chars

\* A line with its zero goes after what was written.
LEMMA OrderedWrite ==
  ASSUME NEW s \in Seq(Chars), Ordered(s), NEW h \in Nat, NEW l \in Nat,
         NEW w \in Seq(Chars), Len(w) = h + 1,
         \A k \in 1 .. h : w[k] = <<l, k>>, w[h + 1] = <<l, 0>>,
         s # <<>> => l = s[Len(s)][1] + 1
  PROVE  Ordered(s \o w)
<1> DEFINE t == s \o w
           n == Len(s)
<1>1. /\ n \in Nat /\ DOMAIN s = 1 .. n /\ t \in Seq(Chars) /\ Len(t) = n + h + 1
      /\ DOMAIN t = 1 .. n + h + 1
      /\ \A i \in 1 .. n : t[i] = s[i]
      /\ \A i \in 1 .. n + h + 1 : i \notin 1 .. n => t[i] = w[i - n] /\ i - n \in 1 .. h + 1
  <2>1. /\ n \in Nat /\ DOMAIN s = 1 .. n /\ t \in Seq(Chars) /\ Len(t) = n + Len(w)
        /\ DOMAIN t = 1 .. n + Len(w)
        /\ \A i \in 1 .. n : t[i] = s[i]
        /\ \A i \in 1 .. n + Len(w) : i \notin 1 .. n => t[i] = w[i - n] /\ i - n \in 1 .. Len(w)
    <3>1. t \in Seq(Chars) /\ Joined(s, w, t)
      BY JoinedFact
    <3>2. n = Len(s)
      OBVIOUS
    <3> HIDE DEF t, n
    <3> QED BY <3>1, <3>2 DEF Joined
  <2>2. n + Len(w) = n + h + 1
    BY <2>1
  <2> HIDE DEF t, n
  <2> QED BY <2>1, <2>2
<1>2. n # 0 <=> s # <<>>
  BY EmptySeq
<1>3. \A i \in 1 .. n : s[i] \in Chars /\ s[i][1] \in Nat /\ s[i][2] \in Nat
  BY <1>1, CharsFact
<1> HIDE DEF t, n
<1>4. \A i \in 1 .. n + h + 1 : i \notin 1 .. n => t[i][1] = l /\ t[i][2] = IF i = n + h + 1 THEN 0 ELSE i - n
  <2> SUFFICES ASSUME NEW i \in 1 .. n + h + 1, i \notin 1 .. n
               PROVE  t[i][1] = l /\ t[i][2] = IF i = n + h + 1 THEN 0 ELSE i - n
    OBVIOUS
  <2>1. t[i] = w[i - n] /\ i - n \in 1 .. h + 1
    BY <1>1
  <2>2. CASE i = n + h + 1
    <3>1. i - n = h + 1
      BY <1>1, <2>2
    <3> QED BY <2>1, <2>2, <3>1
  <2>3. CASE i # n + h + 1
    <3>1. i - n \in 1 .. h
      BY <1>1, <2>1, <2>3
    <3>2. w[i - n] = <<l, i - n>>
      BY <3>1
    <3> QED BY <2>1, <2>3, <3>2
  <2> QED BY <2>2, <2>3
<1>5. n # 0 => /\ s[n][2] = 0 /\ \A i \in 1 .. n : s[i][1] < l
  <2> SUFFICES ASSUME n # 0 PROVE s[n][2] = 0 /\ \A i \in 1 .. n : s[i][1] < l
    OBVIOUS
  <2>1. s[n][2] = 0 /\ (\A i \in 1 .. n : s[i][1] <= s[n][1]) /\ l = s[n][1] + 1
    BY <1>1, <1>2 DEF Ordered, n
  <2>2. n \in 1 .. n
    BY <1>1
  <2> QED BY <1>3, <2>1, <2>2
<1>6. ASSUME NEW i \in DOMAIN t, NEW j \in DOMAIN t, i < j, t[i][2] # 0, t[j][2] # 0
      PROVE  Earlier(t[i], t[j])
  <2>1. CASE j \in 1 .. n
    <3>1. i \in 1 .. n
      BY <1>1, <1>6, <2>1
    <3> QED BY <1>1, <1>6, <2>1, <3>1 DEF Ordered
  <2>2. CASE j \notin 1 .. n /\ i \in 1 .. n
    <3>1. t[j][1] = l /\ t[i][1] < l
      BY <1>1, <1>4, <1>5, <2>2
    <3> QED BY <3>1 DEF Earlier
  <2>3. CASE j \notin 1 .. n /\ i \notin 1 .. n
    <3>1. t[j][1] = l /\ t[i][1] = l /\ t[i][2] = i - n /\ t[j][2] = j - n
      BY <1>1, <1>4, <1>6, <2>3
    <3>2. i - n < j - n
      BY <1>1, <1>6
    <3> QED BY <3>1, <3>2 DEF Earlier
  <2> QED BY <2>1, <2>2, <2>3
<1>7. ASSUME NEW i \in DOMAIN t, NEW j \in DOMAIN t, i < j, t[i][1] # t[j][1]
      PROVE  \E k \in i .. j - 1 : t[k][2] = 0
  <2>1. CASE j \in 1 .. n
    <3>1. i \in 1 .. n
      BY <1>1, <1>7, <2>1
    <3>2. PICK k \in i .. j - 1 : s[k][2] = 0
      BY <1>1, <1>7, <2>1, <3>1 DEF Ordered
    <3>3. k \in 1 .. n
      BY <1>1, <2>1, <3>1
    <3> QED BY <1>1, <3>2, <3>3
  <2>2. CASE j \notin 1 .. n /\ i \in 1 .. n
    <3>1. n # 0 /\ n \in i .. j - 1 /\ n \in 1 .. n
      BY <1>1, <1>7, <2>2
    <3>2. t[n][2] = 0
      BY <1>1, <1>5, <3>1
    <3> QED BY <3>1, <3>2
  <2>3. CASE j \notin 1 .. n /\ i \notin 1 .. n
    BY <1>1, <1>4, <1>7, <2>3
  <2> QED BY <2>1, <2>2, <2>3
<1>8. t[Len(t)][2] = 0 /\ \A i \in DOMAIN t : t[i][1] <= t[Len(t)][1]
  <2>1. Len(t) \in 1 .. n + h + 1 /\ Len(t) \notin 1 .. n /\ Len(t) = n + h + 1
    BY <1>1
  <2>2. t[Len(t)][2] = 0 /\ t[Len(t)][1] = l
    BY <1>4, <2>1
  <2>3. ASSUME NEW i \in DOMAIN t PROVE t[i][1] <= l
    <3>1. CASE i \in 1 .. n
      BY <1>1, <1>3, <1>5, <3>1
    <3>2. CASE i \notin 1 .. n
      BY <1>1, <1>4, <3>2
    <3> QED BY <3>1, <3>2
  <2> QED BY <2>2, <2>3
<1>9. Ordered(t)
  BY <1>6, <1>7, <1>8 DEF Ordered
<1> QED BY <1>9 DEF t

\* What %s shows of a buffer: the characters before its first zero.
LEMMA VisibleFact ==
  ASSUME NEW buffer \in Seq(Chars)
  PROVE  /\ Visible(buffer) \in Seq(Chars) /\ Len(Visible(buffer)) <= Len(buffer)
         /\ \A k \in 1 .. Len(Visible(buffer)) : Visible(buffer)[k] = buffer[k] /\ buffer[k][2] # 0
         /\ NoZero(buffer) => Visible(buffer) = buffer
<1> DEFINE zeros == {k \in DOMAIN buffer : buffer[k][2] = 0}
<1>0. Len(buffer) \in Nat /\ DOMAIN buffer = 1 .. Len(buffer)
  OBVIOUS
<1>1. CASE zeros = {}
  <2>1. Visible(buffer) = buffer
    BY <1>1 DEF Visible
  <2>2. \A k \in 1 .. Len(buffer) : buffer[k][2] # 0
    BY <1>0, <1>1
  <2> QED BY <1>0, <2>1, <2>2
<1>2. CASE zeros # {}
  <2> DEFINE z == CHOOSE k \in zeros : \A j \in zeros : k <= j
  <2>0. zeros \subseteq Nat
    BY <1>0
  <2>1. z \in zeros /\ \A j \in zeros : z <= j
    <3>1. \E k \in zeros : \A j \in zeros : k <= j
      BY <1>2, <2>0, Least
    <3> QED BY <3>1
  <2>2. Visible(buffer) = SubSeq(buffer, 1, z - 1)
    BY <1>2 DEF Visible
  <2>3. ~NoZero(buffer)
    BY <2>1 DEF NoZero
  <2>4. z \in 1 .. Len(buffer) /\ \A k \in 1 .. z - 1 : k \in DOMAIN buffer /\ buffer[k][2] # 0
    <3>1. z \in 1 .. Len(buffer)
      BY <1>0, <2>1
    <3>2. ASSUME NEW k \in 1 .. z - 1 PROVE k \in DOMAIN buffer /\ buffer[k][2] # 0
      <4>1. k \in DOMAIN buffer /\ ~(z <= k)
        BY <1>0, <3>1
      <4>2. k \notin zeros
        BY <2>1, <4>1
      <4> QED BY <4>1, <4>2
    <3> QED BY <3>1, <3>2
  <2> HIDE DEF z, zeros
  <2>5. /\ SubSeq(buffer, 1, z - 1) \in Seq(Chars) /\ Len(SubSeq(buffer, 1, z - 1)) = z - 1
        /\ \A k \in 1 .. z - 1 : SubSeq(buffer, 1, z - 1)[k] = buffer[k]
    BY <1>0, <2>4
  <2> QED BY <1>0, <2>2, <2>3, <2>4, <2>5
<1> QED BY <1>1, <1>2

\* One read shown: it has characters of one line, later than all on the screen.
LEMMA ShowFact ==
  ASSUME NEW s \in Seq(Chars), Ordered(s), NEW buffer \in Seq(Chars), NEW r \in Seq(Chars),
         Suffix(buffer \o r, s),
         NEW screen \in Seq(Chars), Drawn(screen, s, Len(s) - Len(buffer \o r))
  PROVE  /\ Suffix(r, s) /\ OneLine(Visible(buffer))
         /\ Drawn(screen \o Visible(buffer), s, Len(s) - Len(r))
<1> DEFINE v == Visible(buffer)
           d == Len(s) - Len(buffer \o r)
<1>1. /\ v \in Seq(Chars) /\ Len(v) \in Nat /\ Len(v) <= Len(buffer) /\ Len(buffer) \in Nat
      /\ \A k \in 1 .. Len(v) : v[k] = buffer[k] /\ buffer[k][2] # 0
  BY VisibleFact
<1>2. /\ Len(r) \in Nat /\ Len(buffer \o r) = Len(buffer) + Len(r)
      /\ DOMAIN (buffer \o r) = 1 .. Len(buffer) + Len(r)
      /\ DOMAIN r = 1 .. Len(r)
      /\ \A i \in 1 .. Len(buffer) : (buffer \o r)[i] = buffer[i]
      /\ \A i \in 1 .. Len(r) : (buffer \o r)[Len(buffer) + i] = r[i]
  BY ConcatFact
<1>3. Len(s) \in Nat /\ DOMAIN s = 1 .. Len(s)
  OBVIOUS
<1>4. /\ d \in Nat /\ d + Len(buffer) + Len(r) = Len(s)
      /\ \A i \in 1 .. Len(buffer) + Len(r) : (buffer \o r)[i] = s[d + i]
  <2>1. Len(buffer \o r) <= Len(s) /\ \A i \in DOMAIN (buffer \o r) : (buffer \o r)[i] = s[d + i]
    BY DEF Suffix
  <2>2. d = Len(s) - Len(buffer \o r)
    OBVIOUS
  <2> HIDE DEF d
  <2>3. d \in Nat /\ d + Len(buffer) + Len(r) = Len(s)
    BY <1>1, <1>2, <1>3, <2>1, <2>2
  <2> QED BY <1>2, <2>1, <2>3
<1> HIDE DEF v, d
<1>5. Suffix(r, s)
  <2>1. Len(r) <= Len(s)
    BY <1>1, <1>2, <1>3, <1>4
  <2>2. ASSUME NEW k \in DOMAIN r PROVE r[k] = s[Len(s) - Len(r) + k]
    <3>1. k \in 1 .. Len(r) /\ Len(buffer) + k \in 1 .. Len(buffer) + Len(r)
      BY <1>1, <1>2
    <3>2. r[k] = s[d + (Len(buffer) + k)]
      BY <1>2, <1>4, <3>1
    <3>3. d + (Len(buffer) + k) = Len(s) - Len(r) + k
      <4>1. Len(buffer) \in Nat /\ Len(r) \in Nat /\ d \in Nat /\ d + Len(buffer) + Len(r) = Len(s)
        BY <1>1, <1>2, <1>4
      <4>2. \A x, y, z, u, o \in Int : x + y + z = u => x + (y + o) = u - z + o
        OBVIOUS
      <4>3. Len(s) \in Int /\ k \in Int
        BY <1>3, <3>1
      <4>4. PICK x, y, z, u, o : x = d /\ y = Len(buffer) /\ z = Len(r) /\ u = Len(s) /\ o = k
        OBVIOUS
      <4>5. x \in Int /\ y \in Int /\ z \in Int /\ u \in Int /\ o \in Int /\ x + y + z = u
        BY <4>1, <4>3, <4>4
      <4>6. x + (y + o) = u - z + o
        BY <4>2, <4>5
      <4> QED BY <4>4, <4>6
    <3> QED BY <3>2, <3>3
  <2> QED BY <2>1, <2>2 DEF Suffix
\* Character k of what is shown is number d + k of what was written.
<1>6. ASSUME NEW k \in 1 .. Len(v) PROVE v[k] = s[d + k] /\ s[d + k][2] # 0 /\ d + k \in DOMAIN s
  <2>1. k \in 1 .. Len(buffer) /\ k \in 1 .. Len(buffer) + Len(r) /\ d + k \in 1 .. Len(s)
    <3>1. Len(v) \in Nat /\ Len(v) <= Len(buffer) /\ Len(buffer) \in Nat /\ Len(r) \in Nat /\ d \in Nat
          /\ d + Len(buffer) + Len(r) = Len(s)
      BY <1>1, <1>2, <1>4
    <3> QED BY <3>1
  <2>2. v[k] = buffer[k] /\ buffer[k][2] # 0
    BY <1>1
  <2>3. buffer[k] = s[d + k]
    BY <1>2, <1>4, <2>1
  <2> QED BY <1>3, <2>1, <2>2, <2>3
<1>7. DOMAIN v = 1 .. Len(v)
  BY <1>1
<1>8. OneLine(v)
  <2>1. ASSUME NEW i \in 1 .. Len(v), NEW j \in 1 .. Len(v), i < j, v[i][1] # v[j][1] PROVE FALSE
    <3>1. d + i \in DOMAIN s /\ d + j \in DOMAIN s /\ d + i < d + j /\ s[d + i][1] # s[d + j][1]
      BY <1>1, <1>4, <1>6, <2>1
    <3>2. PICK x, y : x = d + i /\ y = d + j
      OBVIOUS
    <3>3. x \in DOMAIN s /\ y \in DOMAIN s /\ x < y /\ s[x][1] # s[y][1]
      BY <3>1, <3>2
    <3>4. PICK k \in x .. y - 1 : s[k][2] = 0
      BY <3>3 DEF Ordered
    <3>5. k - d \in 1 .. Len(v) /\ d + (k - d) = k
      BY <1>1, <1>4, <3>2
    <3> QED BY <1>6, <3>4, <3>5
  <2>2. ASSUME NEW i \in 1 .. Len(v), NEW j \in 1 .. Len(v) PROVE v[i][1] = v[j][1]
    <3>1. i < j \/ j < i \/ i = j
      BY <1>1
    <3> QED BY <2>1, <3>1
  <2> QED BY <1>7, <2>2 DEF OneLine
<1> DEFINE t == screen \o v
           n == Len(screen)
<1>9. /\ n \in Nat /\ DOMAIN screen = 1 .. n /\ DOMAIN t = 1 .. n + Len(v)
      /\ \A i \in 1 .. n : t[i] = screen[i]
      /\ \A i \in 1 .. n + Len(v) : i \notin 1 .. n => t[i] = v[i - n] /\ i - n \in 1 .. Len(v)
  BY <1>1, ConcatFact
<1> HIDE DEF t, n
<1>10. \A i \in 1 .. n : \E k \in 1 .. d : s[k] = screen[i] /\ s[k][2] # 0
  BY <1>9 DEF Drawn, d
<1>11. ASSUME NEW i \in DOMAIN t, NEW j \in DOMAIN t, i < j PROVE Earlier(t[i], t[j])
  <2>1. CASE j \in 1 .. n
    <3>1. i \in 1 .. n
      BY <1>9, <1>11, <2>1
    <3> QED BY <1>9, <1>11, <2>1, <3>1 DEF Drawn
  <2>2. CASE j \notin 1 .. n /\ i \in 1 .. n
    <3>1. PICK k \in 1 .. d : s[k] = screen[i] /\ s[k][2] # 0
      BY <1>10, <2>2
    <3>2. t[j] = s[d + (j - n)] /\ s[d + (j - n)][2] # 0 /\ d + (j - n) \in DOMAIN s /\ j - n \in 1 .. Len(v)
      BY <1>6, <1>9, <2>2
    <3>3. k \in DOMAIN s /\ k < d + (j - n)
      BY <1>1, <1>2, <1>3, <1>4, <3>2
    <3>4. Earlier(s[k], s[d + (j - n)])
      BY <3>1, <3>2, <3>3 DEF Ordered
    <3> QED BY <1>9, <2>2, <3>1, <3>2, <3>4
  <2>3. CASE j \notin 1 .. n /\ i \notin 1 .. n
    <3>1. /\ t[j] = s[d + (j - n)] /\ s[d + (j - n)][2] # 0 /\ d + (j - n) \in DOMAIN s
          /\ t[i] = s[d + (i - n)] /\ s[d + (i - n)][2] # 0 /\ d + (i - n) \in DOMAIN s
      BY <1>6, <1>9, <2>3
    <3>2. d + (i - n) < d + (j - n)
      BY <1>4, <1>9, <1>11
    <3> QED BY <3>1, <3>2 DEF Ordered
  <2> QED BY <2>1, <2>2, <2>3
<1>12. ASSUME NEW i \in DOMAIN t PROVE \E k \in 1 .. Len(s) - Len(r) : s[k] = t[i] /\ s[k][2] # 0
  <2>1. CASE i \in 1 .. n
    <3>1. PICK k \in 1 .. d : s[k] = screen[i] /\ s[k][2] # 0
      BY <1>10, <2>1
    <3>2. k \in 1 .. Len(s) - Len(r)
      BY <1>1, <1>2, <1>3, <1>4
    <3> QED BY <1>9, <2>1, <3>1, <3>2
  <2>2. CASE i \notin 1 .. n
    <3>1. t[i] = s[d + (i - n)] /\ s[d + (i - n)][2] # 0 /\ i - n \in 1 .. Len(v)
      BY <1>6, <1>9, <2>2
    <3>2. d + (i - n) \in 1 .. Len(s) - Len(r)
      BY <1>1, <1>2, <1>3, <1>4, <3>1
    <3> QED BY <3>1, <3>2
  <2> QED BY <2>1, <2>2
<1>13. Drawn(t, s, Len(s) - Len(r))
  BY <1>11, <1>12 DEF Drawn
<1> QED BY <1>5, <1>8, <1>13 DEF t, v

LEMMA NamesFact ==
  /\ Sides = {"a", "b"} /\ Pipes = {"ab", "ba"}
  /\ Peer("a") = "b" /\ Peer("b") = "a" /\ Out("a") = "ab" /\ Out("b") = "ba"
  /\ In("a") = "ba" /\ In("b") = "ab"
  /\ \A p \in Sides : /\ Peer(p) \in Sides /\ Peer(p) # p /\ Peer(Peer(p)) = p
                      /\ Out(p) \in Pipes /\ In(p) \in Pipes /\ In(p) # Out(p) /\ In(Peer(p)) = Out(p)
BY DEF Sides, Pipes, Peer, Out, In

LEMMA SuffixWrite ==
  ASSUME NEW s \in Seq(Chars), NEW r \in Seq(Chars), NEW w \in Seq(Chars), Suffix(r, s),
         NEW screen \in Seq(Chars), Drawn(screen, s, Len(s) - Len(r))
  PROVE  Suffix(r \o w, s \o w) /\ Drawn(screen, s \o w, Len(s \o w) - Len(r \o w))
<1>1. PICK t, u : t = s \o w /\ u = r \o w
  OBVIOUS
<1>2. Joined(s, w, t) /\ Joined(r, w, u)
  BY <1>1, JoinedFact
<1>3. PICK x, y, z : x = Len(s) /\ y = Len(r) /\ z = Len(w)
  OBVIOUS
<1>4. /\ x \in Nat /\ y \in Nat /\ z \in Nat /\ y <= x
      /\ Len(t) = x + z /\ Len(u) = y + z /\ DOMAIN u = 1 .. y + z
      /\ \A i \in 1 .. x : t[i] = s[i]
      /\ \A i \in 1 .. z : t[x + i] = w[i]
      /\ \A i \in 1 .. y : u[i] = r[i] /\ r[i] = s[x - y + i]
      /\ \A i \in 1 .. y + z : i \notin 1 .. y => u[i] = w[i - y] /\ i - y \in 1 .. z
  BY <1>2, <1>3 DEF Joined, Suffix
<1>5. (x + z) - (y + z) = x - y
  BY <1>4
<1>6. ASSUME NEW i \in 1 .. y + z PROVE u[i] = t[x - y + i]
  <2>1. CASE i \in 1 .. y
    <3>1. x - y + i \in 1 .. x
      BY <1>4, <2>1
    <3> QED BY <1>4, <2>1, <3>1
  <2>2. CASE i \notin 1 .. y
    <3>1. u[i] = w[i - y] /\ i - y \in 1 .. z
      BY <1>4, <2>2
    <3>2. x + (i - y) = x - y + i
      BY <1>4
    <3> QED BY <1>4, <3>1, <3>2
  <2> QED BY <2>1, <2>2
<1>7. Suffix(u, t)
  <2>1. Len(u) <= Len(t)
    BY <1>4
  <2>2. ASSUME NEW k \in DOMAIN u PROVE u[k] = t[Len(t) - Len(u) + k]
    BY <1>4, <1>5, <1>6
  <2> QED BY <2>1, <2>2 DEF Suffix
<1>8. Drawn(screen, t, Len(t) - Len(u))
  <2>1. Len(t) - Len(u) = x - y /\ Len(s) - Len(r) = x - y
    BY <1>3, <1>4, <1>5
  <2>2. ASSUME NEW k \in 1 .. x - y PROVE t[k] = s[k]
    <3>1. k \in 1 .. x
      BY <1>4
    <3> QED BY <1>4, <3>1
  <2>3. Drawn(screen, s, x - y)
    BY <2>1
  <2>4. Drawn(screen, t, x - y)
    <3>1. ASSUME NEW i \in DOMAIN screen PROVE \E k \in 1 .. x - y : t[k] = screen[i] /\ t[k][2] # 0
      <4>1. PICK k \in 1 .. x - y : s[k] = screen[i] /\ s[k][2] # 0
        BY <2>3 DEF Drawn
      <4>2. t[k] = s[k]
        BY <2>2
      <4> QED BY <4>1, <4>2
    <3> QED BY <2>3, <3>1 DEF Drawn
  <2> QED BY <2>1, <2>4
<1> QED BY <1>1, <1>7, <1>8

\* What is written: a line, with its zero or without.
LEMMA LineFact ==
  ASSUME ChatTypeOK, NEW p \in Sides, at[p] = "write"
  PROVE  /\ Line(p) \in Seq(Chars)
         /\ kind[p] \in Terminates =>
              \E h, l \in Nat : /\ Len(Line(p)) = h + 1 /\ Line(p)[h + 1] = <<l, 0>>
                                /\ \A k \in 1 .. h : Line(p)[k] = <<l, k>>
                                /\ sent[p] # <<>> => l = sent[p][Len(sent[p])][1] + 1
         /\ kind[p] \notin Terminates => NoZero(Line(p))
<1>1. PICK h : h = Head(input[p])
  OBVIOUS
<1>2. PICK l : l = IF sent[p] = <<>> THEN 1 ELSE Last(sent[p])[1] + 1
  OBVIOUS
<1>3. h \in Nat
  BY <1>1 DEF ChatTypeOK
<1>4. l \in Nat /\ (sent[p] # <<>> => l = sent[p][Len(sent[p])][1] + 1)
  <2>1. CASE sent[p] = <<>>
    BY <1>2, <2>1
  <2>2. CASE sent[p] # <<>>
    <3>1. l = sent[p][Len(sent[p])][1] + 1
      BY <1>2, <2>2 DEF Last
    <3>2. sent[p] \in Seq(Chars) /\ Len(sent[p]) \in 1 .. Len(sent[p])
      BY <2>2 DEF ChatTypeOK
    <3>3. sent[p][Len(sent[p])] \in Chars
      BY <3>2
    <3> QED BY <2>2, <3>1, <3>3, CharsFact
  <2> QED BY <2>1, <2>2
<1> DEFINE w == [k \in 1 .. h |-> <<l, k>>]
           e == << <<l, 0>> >>
<1>5. w \in Seq(Chars) /\ Len(w) = h /\ \A k \in 1 .. h : w[k] = <<l, k>>
  BY <1>3, <1>4 DEF Chars
<1>6. e \in Seq(Chars) /\ Len(e) = 1 /\ e[1] = <<l, 0>>
  BY <1>4 DEF Chars
<1>7. Line(p) = w \o (IF kind[p] \in Terminates THEN e ELSE <<>>)
  BY <1>1, <1>2 DEF Line
<1> HIDE DEF w, e
<1>8. CASE kind[p] \in Terminates
  <2>1. Line(p) = w \o e
    BY <1>7, <1>8
  <2>2. Line(p) \in Seq(Chars) /\ Joined(w, e, Line(p))
    BY <1>5, <1>6, <2>1, JoinedFact
  <2>3. /\ Len(Line(p)) = h + 1 /\ Line(p)[h + 1] = <<l, 0>>
        /\ \A k \in 1 .. h : Line(p)[k] = <<l, k>>
    BY <1>3, <1>5, <1>6, <2>2 DEF Joined
  <2> QED BY <1>3, <1>4, <1>8, <2>2, <2>3
<1>9. CASE kind[p] \notin Terminates
  <2>1. Line(p) = w
    BY <1>5, <1>7, <1>9, ConcatEmptySeq
  <2>2. NoZero(w)
    BY <1>3, <1>5 DEF NoZero
  <2> QED BY <1>5, <1>9, <2>1, <2>2
<1> QED BY <1>8, <1>9

\* What side p shows depends on these alone.
LEMMA ScreenSame ==
  ASSUME NEW p \in Sides, ScreenInv(p), kind'[Peer(p)] = kind[Peer(p)], sent'[Peer(p)] = sent[Peer(p)],
         shown'[p] = shown[p], Rest(p)' = Rest(p),
         kind[Peer(p)] \notin Terminates => pipe'[In(p)] = pipe[In(p)]
  PROVE  ScreenInv(p)'
<1>1. CASE kind[Peer(p)] \in Terminates
  BY <1>1 DEF ScreenInv
<1>2. CASE kind[Peer(p)] \notin Terminates
  BY <1>2 DEF ScreenInv
<1> QED BY <1>1, <1>2

\* What is left of the input after a line: all of it, if the line is repeated.
LEMMA FollowingFact ==
  ASSUME NEW p \in Sides, input[p] \in Seq(-1 .. PipeMax - 1), input[p] # <<>>
  PROVE  Following(p) \in Seq(-1 .. PipeMax - 1) /\ Head(input[p]) \in -1 .. PipeMax - 1
<1>1. PICK T : T = -1 .. PipeMax - 1
  OBVIOUS
<1>2. input[p] \in Seq(T) /\ input[p] # <<>>
  BY <1>1
<1>3. Tail(input[p]) \in Seq(T) /\ Head(input[p]) \in T
  BY <1>2
<1>4. Following(p) \in Seq(T)
  BY <1>2, <1>3 DEF Following
<1> QED BY <1>1, <1>3, <1>4

LEMMA WriteTypes ==
  ASSUME ChatTypeOK, KindInv, NEW q \in Sides, at[q] = "write",
         pipe' = [pipe EXCEPT ![Out(q)] = @ \o Line(q)],
         sent' = [sent EXCEPT ![q] = @ \o Line(q)],
         input' = [input EXCEPT ![q] = Following(q)],
         at' = [at EXCEPT ![q] = "talk"],
         UNCHANGED <<kind, chunk, shown, reader>>
  PROVE  ChatTypeOK' /\ KindInv'
<1>0. /\ kind = [p \in Sides |-> kind[p]] /\ at = [p \in Sides |-> at[p]]
      /\ input \in [Sides -> Seq(-1 .. PipeMax - 1)]
      /\ pipe \in [Pipes -> Seq(Chars)]
      /\ sent \in [Sides -> Seq(Chars)]
      /\ input[q] # <<>> /\ Line(q) \in Seq(Chars) /\ Out(q) \in Pipes
  BY LineFact, NamesFact DEF ChatTypeOK
<1>1. at' = [p \in Sides |-> at'[p]] /\ at'[q] = "talk" /\ \A p \in Sides : p # q => at'[p] = at[p]
  BY <1>0
<1>2. input' \in [Sides -> Seq(-1 .. PipeMax - 1)] /\ \A p \in Sides : p # q => input'[p] = input[p]
  <2>1. Following(q) \in Seq(-1 .. PipeMax - 1)
    BY <1>0, FollowingFact
  <2> QED BY <1>0, <2>1
<1>3. pipe' \in [Pipes -> Seq(Chars)] /\ \A n \in Pipes : n # Out(q) => pipe'[n] = pipe[n]
  <2>1. pipe[Out(q)] \o Line(q) \in Seq(Chars)
    BY <1>0, JoinedFact
  <2> QED BY <1>0, <2>1
<1>4. sent' \in [Sides -> Seq(Chars)] /\ \A p \in Sides : p # q => sent'[p] = sent[p]
  <2>1. sent[q] \o Line(q) \in Seq(Chars)
    BY <1>0, JoinedFact
  <2> QED BY <1>0, <2>1
<1>5. \A p \in Sides : at'[p] = "write" => input'[p] # <<>> /\ Head(input'[p]) \in Nat
  BY <1>1, <1>2 DEF ChatTypeOK
<1>6. ChatTypeOK'
  BY <1>0, <1>1, <1>2, <1>3, <1>4, <1>5 DEF ChatTypeOK
<1>7. KindInv'
  <2>1. kind["b"] = "mkfiforead" => q = "a" /\ sent'["b"] = sent["b"] /\ pipe'["ba"] = pipe["ba"]
    BY <1>3, <1>4, NamesFact DEF KindInv
  <2>2. at'["b"] \in {"line", "write"} => at["b"] \in {"line", "write"}
    BY <1>1, NamesFact
  <2>3. at'["a"] = "start" => at["a"] = "start"
    BY <1>1, NamesFact
  <2> QED BY <2>1, <2>2, <2>3 DEF KindInv
<1> QED BY <1>6, <1>7

LEMMA WriteScreen ==
  ASSUME ChatTypeOK, NEW p \in Sides, ScreenInv(p), at[Peer(p)] = "write",
         pipe' = [pipe EXCEPT ![In(p)] = @ \o Line(Peer(p))],
         sent' = [sent EXCEPT ![Peer(p)] = @ \o Line(Peer(p))],
         UNCHANGED <<kind, chunk, shown>>
  PROVE  ScreenInv(p)'
<1>1. PICK q \in Sides : q = Peer(p)
  BY NamesFact
<1>2. PICK w, s, screen : w = Line(q) /\ s = sent[q] /\ screen = FlattenSeq(shown[p])
  OBVIOUS
<1>3. PICK r, i : r = Rest(p) /\ i = pipe[In(p)]
  OBVIOUS
<1>4. /\ w \in Seq(Chars) /\ s \in Seq(Chars) /\ screen \in Seq(Chars)
      /\ chunk \in Seq(Chars) /\ i \in Seq(Chars)
      /\ pipe \in [Pipes -> Seq(Chars)] /\ sent \in [Sides -> Seq(Chars)]
  BY <1>1, <1>2, <1>3, LineFact, NamesFact DEF ChatTypeOK
<1>5. sent'[q] = s \o w /\ pipe'[In(p)] = i \o w /\ FlattenSeq(shown'[p]) = screen
  BY <1>1, <1>2, <1>3, <1>4, NamesFact
<1>6. r \in Seq(Chars) /\ Rest(p)' = r \o w
  <2>1. CASE p = "a"
    <3>1. r = chunk \o i /\ Rest(p)' = chunk \o (i \o w)
      BY <1>3, <1>5, <2>1, NamesFact DEF Rest
    <3>2. (chunk \o i) \o w = chunk \o (i \o w)
      <4>1. chunk \in Seq(Chars) /\ i \in Seq(Chars) /\ w \in Seq(Chars)
        BY <1>4
      <4> QED BY <4>1, ConcatAgain
    <3>3. chunk \o i \in Seq(Chars)
      BY <1>4, JoinedFact
    <3> QED BY <3>1, <3>2, <3>3
  <2>2. CASE p = "b"
    <3>1. r = i /\ Rest(p)' = i \o w
      BY <1>3, <1>5, <2>2, NamesFact DEF Rest
    <3> QED BY <1>4, <3>1
  <2> QED BY <2>1, <2>2, NamesFact
<1>7. CASE kind[q] \in Terminates
  <2>1. Ordered(s) /\ Suffix(r, s) /\ Drawn(screen, s, Len(s) - Len(r)) /\ \A k \in DOMAIN shown[p] : OneLine(shown[p][k])
    BY <1>1, <1>2, <1>3, <1>7 DEF ScreenInv
  <2>2. Suffix(r \o w, s \o w) /\ Drawn(screen, s \o w, Len(s \o w) - Len(r \o w))
    BY <1>4, <1>6, <2>1, SuffixWrite
  <2>3. Ordered(s \o w)
    <3>1. PICK h \in Nat, l \in Nat : /\ Len(w) = h + 1 /\ w[h + 1] = <<l, 0>>
                                      /\ \A k \in 1 .. h : w[k] = <<l, k>>
                                      /\ s # <<>> => l = s[Len(s)][1] + 1
      BY <1>1, <1>2, <1>7, LineFact
    <3> QED BY <1>4, <2>1, <3>1, OrderedWrite
  <2> QED BY <1>1, <1>5, <1>6, <1>7, <2>1, <2>2, <2>3 DEF ScreenInv
<1>8. CASE kind[q] \notin Terminates
  <2>1. NoZero(s) /\ screen \o i = s
    BY <1>1, <1>2, <1>3, <1>8 DEF ScreenInv
  <2>2. screen \o (i \o w) = s \o w
    <3>1. (screen \o i) \o w = screen \o (i \o w)
      <4>1. screen \in Seq(Chars) /\ i \in Seq(Chars) /\ w \in Seq(Chars)
        BY <1>4
      <4> QED BY <4>1, ConcatAgain
    <3> QED BY <2>1, <3>1
  <2>3. NoZero(s \o w)
    <3>1. NoZero(w)
      BY <1>1, <1>2, <1>8, LineFact
    <3>2. PICK t : t = s \o w
      OBVIOUS
    <3>3. Joined(s, w, t)
      BY <1>4, <3>2, JoinedFact
    <3>4. NoZero(t)
      <4>1. ASSUME NEW k \in DOMAIN t PROVE t[k][2] # 0
        <5>1. CASE k \in 1 .. Len(s)
          BY <2>1, <3>3, <5>1 DEF NoZero, Joined
        <5>2. CASE k \notin 1 .. Len(s)
          <6>1. t[k] = w[k - Len(s)] /\ k - Len(s) \in DOMAIN w
            BY <3>3, <5>2 DEF Joined
          <6> QED BY <3>1, <6>1 DEF NoZero
        <5> QED BY <5>1, <5>2
      <4> QED BY <4>1 DEF NoZero
    <3> QED BY <3>2, <3>4
  <2> QED BY <1>1, <1>5, <1>8, <2>2, <2>3 DEF ScreenInv
<1> QED BY <1>7, <1>8

\* A read splits what is in the pipe.
LEMMA TakeFact ==
  ASSUME ChatTypeOK, NEW p \in Sides, take(p)
  PROVE  /\ Taken(p) \in Seq(Chars) /\ pipe'[In(p)] \in Seq(Chars)
         /\ pipe[In(p)] = Taken(p) \o pipe'[In(p)]
         /\ pipe' \in [Pipes -> Seq(Chars)]
         /\ \A n \in Pipes : n # In(p) => pipe'[n] = pipe[n]
<1>1. PICK i, n : i = pipe[In(p)] /\ n = In(p)
  OBVIOUS
<1>2. i \in Seq(Chars) /\ Len(i) \in Nat /\ n \in Pipes /\ pipe \in [Pipes -> Seq(Chars)]
  BY <1>1, NamesFact DEF ChatTypeOK
<1>3. PICK m : m = IF Len(i) < ReadSize THEN Len(i) ELSE ReadSize
  OBVIOUS
<1>4. m \in 0 .. Len(i) /\ m \in Nat
  BY <1>2, <1>3, FifoChatAssumption
<1>5. PICK x, y : x = SubSeq(i, 1, m) /\ y = SubSeq(i, m + 1, Len(i))
  OBVIOUS
<1>6. /\ x \in Seq(Chars) /\ Len(x) = m /\ \A k \in 1 .. m : x[k] = i[k]
  BY <1>2, <1>4, <1>5
<1>7. /\ y \in Seq(Chars) /\ Len(y) = Len(i) - m /\ \A k \in 1 .. Len(i) - m : y[k] = i[m + k]
  BY <1>2, <1>4, <1>5
<1>8. i = x \o y
  <2>1. PICK t : t = x \o y
    OBVIOUS
  <2>2. t \in Seq(Chars) /\ Joined(x, y, t)
    BY <1>6, <1>7, <2>1, JoinedFact
  <2>3. PICK z : z = Len(i)
    OBVIOUS
  <2>4. /\ z \in Nat /\ m <= z /\ Len(t) = z
        /\ \A k \in 1 .. m : t[k] = i[k]
        /\ \A k \in 1 .. z : k \notin 1 .. m => t[k] = y[k - m] /\ k - m \in 1 .. z - m
    <3>1. z \in Nat /\ m \in Nat /\ m <= z /\ Len(x) = m /\ Len(y) = z - m /\ m + (z - m) = z
      BY <1>2, <1>4, <1>6, <1>7, <2>3
    <3> QED BY <1>6, <2>2, <3>1 DEF Joined
  <2>5. ASSUME NEW k \in 1 .. z PROVE t[k] = i[k]
    <3>1. CASE k \in 1 .. m
      BY <2>4, <3>1
    <3>2. CASE k \notin 1 .. m
      <4>1. t[k] = y[k - m] /\ k - m \in 1 .. z - m
        BY <2>4, <3>2
      <4>2. y[k - m] = i[m + (k - m)]
        BY <1>7, <2>3, <4>1
      <4>3. m + (k - m) = k
        BY <1>4
      <4> QED BY <4>1, <4>2, <4>3
    <3> QED BY <3>1, <3>2
  <2> QED BY <1>2, <2>1, <2>2, <2>3, <2>4, <2>5, SeqEqual
<1>9. Taken(p) = x
  BY <1>1, <1>3, <1>5 DEF Taken
<1>10. pipe' = [pipe EXCEPT ![n] = SubSeq(i, Len(x) + 1, Len(i))]
  BY <1>1, <1>9 DEF take
<1>11. pipe' = [pipe EXCEPT ![n] = y]
  BY <1>5, <1>6, <1>10
<1>12. pipe' \in [Pipes -> Seq(Chars)] /\ pipe'[n] = y /\ \A o \in Pipes : o # n => pipe'[o] = pipe[o]
  BY <1>2, <1>7, <1>11
<1> QED BY <1>1, <1>6, <1>7, <1>8, <1>9, <1>12

\* A side shows a read: buffer is what comes next of the other's characters.
LEMMA ShowScreen ==
  ASSUME ChatTypeOK, NEW p \in Sides, ScreenInv(p), NEW buffer \in Seq(Chars), show(p, buffer),
         UNCHANGED <<kind, sent>>, Rest(p)' \in Seq(Chars), Rest(p) = buffer \o Rest(p)',
         pipe'[In(p)] \in Seq(Chars),
         kind[Peer(p)] \notin Terminates => pipe[In(p)] = buffer \o pipe'[In(p)]
  PROVE  /\ ScreenInv(p)'
         /\ shown' \in [Sides -> Seq(Seq(Chars))] /\ \A q \in Sides : q # p => shown'[q] = shown[q]
         /\ \A q \in Sides : FlattenSeq(shown'[q]) \in Seq(Chars)
<1>1. PICK v, s, screen, l, q : v = Visible(buffer) /\ q = Peer(p) /\ s = sent[q] /\ screen = FlattenSeq(shown[p]) /\ l = shown[p]
  OBVIOUS
<1>2. v \in Seq(Chars) /\ s \in Seq(Chars) /\ screen \in Seq(Chars) /\ l \in Seq(Seq(Chars))
      /\ shown \in [Sides -> Seq(Seq(Chars))] /\ \A o \in Sides : FlattenSeq(shown[o]) \in Seq(Chars)
  BY <1>1, VisibleFact, NamesFact DEF ChatTypeOK
<1>3. shown' = [shown EXCEPT ![p] = Append(shown[p], v)]
  BY <1>1 DEF show
<1>4. Append(l, v) \in Seq(Seq(Chars)) /\ DOMAIN l = 1 .. Len(l) /\ Len(l) \in Nat
      /\ DOMAIN Append(l, v) = 1 .. Len(l) + 1
      /\ (\A k \in 1 .. Len(l) : Append(l, v)[k] = l[k]) /\ Append(l, v)[Len(l) + 1] = v
  BY <1>2, AppendFact
<1>5. shown'[p] = Append(l, v) /\ shown' \in [Sides -> Seq(Seq(Chars))]
      /\ \A o \in Sides : o # p => shown'[o] = shown[o]
  BY <1>1, <1>2, <1>3, <1>4
<1>6. FlattenSeq(shown'[p]) = screen \o v
  <2>1. FlattenSeq(Append(l, v)) = FlattenSeq(l) \o v
    BY <1>2, FlatAppend
  <2> QED BY <1>1, <1>5, <2>1
<1>7. screen \o v \in Seq(Chars)
  BY <1>2, JoinedFact
<1>8. \A o \in Sides : FlattenSeq(shown'[o]) \in Seq(Chars)
  BY <1>2, <1>5, <1>6, <1>7
<1>9. CASE kind[q] \in Terminates
  <2>1. Ordered(s) /\ Suffix(Rest(p), s) /\ Drawn(screen, s, Len(s) - Len(Rest(p))) /\ \A k \in DOMAIN l : OneLine(l[k])
    BY <1>1, <1>9 DEF ScreenInv
  <2>2. PICK r \in Seq(Chars) : r = Rest(p)'
    OBVIOUS
  <2>3. Suffix(buffer \o r, s) /\ Drawn(screen, s, Len(s) - Len(buffer \o r))
    BY <2>1, <2>2
  <2>4. Suffix(r, s) /\ OneLine(v) /\ Drawn(screen \o v, s, Len(s) - Len(r))
    BY <1>1, <1>2, <2>1, <2>3, ShowFact
  <2>5. \A k \in DOMAIN shown'[p] : OneLine(shown'[p][k])
    <3>1. ASSUME NEW k \in 1 .. Len(l) + 1 PROVE OneLine(Append(l, v)[k])
      <4>1. k \in 1 .. Len(l) \/ k = Len(l) + 1
        BY <1>4
      <4> QED BY <1>4, <2>1, <2>4, <4>1
    <3> QED BY <1>4, <1>5, <3>1
  <2>6. kind'[q] = kind[q] /\ sent'[q] = s
    BY <1>1
  <2>7. /\ Ordered(sent'[q]) /\ Suffix(Rest(p)', sent'[q])
        /\ Drawn(FlattenSeq(shown'[p]), sent'[q], Len(sent'[q]) - Len(Rest(p)'))
    BY <1>6, <2>1, <2>2, <2>4, <2>6
  <2>8. ScreenInv(p)'
    BY <1>1, <1>9, <2>5, <2>6, <2>7 DEF ScreenInv
  <2> QED BY <1>5, <1>8, <2>8
<1>10. CASE kind[q] \notin Terminates
  <2>1. NoZero(s) /\ screen \o pipe[In(p)] = s
    BY <1>1, <1>10 DEF ScreenInv
  <2>2. PICK r \in Seq(Chars) : r = pipe'[In(p)]
    OBVIOUS
  <2>3. screen \o (buffer \o r) = s
    BY <1>1, <1>10, <2>1, <2>2
  <2>4. NoZero(buffer)
    <3>1. PICK t : t = buffer \o r
      OBVIOUS
    <3>2. t \in Seq(Chars) /\ Joined(buffer, r, t)
      BY <2>2, <3>1, JoinedFact
    <3>3. Joined(screen, t, s)
      BY <1>2, <2>3, <3>1, <3>2, JoinedFact
    <3>4. ASSUME NEW k \in DOMAIN buffer PROVE buffer[k][2] # 0
      <4>1. k \in 1 .. Len(t) /\ t[k] = buffer[k]
        BY <3>2 DEF Joined
      <4>2. s[Len(screen) + k] = t[k] /\ Len(screen) + k \in DOMAIN s
        BY <3>3, <4>1 DEF Joined
      <4> QED BY <2>1, <4>1, <4>2 DEF NoZero
    <3> QED BY <3>4 DEF NoZero
  <2>5. v = buffer
    BY <1>1, <2>4, VisibleFact
  <2>6. (screen \o v) \o r = s
    <3>1. screen \in Seq(Chars) /\ buffer \in Seq(Chars) /\ r \in Seq(Chars)
      BY <1>2, <2>2
    <3>2. (screen \o buffer) \o r = screen \o (buffer \o r)
      BY <3>1, ConcatAgain
    <3> QED BY <2>3, <2>5, <3>2
  <2>7. kind'[q] = kind[q] /\ sent'[q] = s
    BY <1>1
  <2>8. NoZero(sent'[q]) /\ FlattenSeq(shown'[p]) \o pipe'[In(p)] = sent'[q]
    BY <1>6, <2>1, <2>2, <2>6, <2>7
  <2>9. ScreenInv(p)'
    BY <1>1, <1>10, <2>7, <2>8 DEF ScreenInv
  <2> QED BY <1>5, <1>8, <2>9
<1> QED BY <1>5, <1>8, <1>9, <1>10

-----------------------------------------------------------------------------
\* A step of one side that neither writes, reads nor shows anything.
LEMMA QuietChat ==
  ASSUME ChatInv, UNCHANGED <<kind, pipe, chunk, sent, shown>>, NEW p \in Sides,
         NEW x, at' = [at EXCEPT ![p] = x] \/ (at' = at /\ x = at[p]),
         x = "start" => at[p] = "start" /\ reader' = reader,
         p = "b" /\ x \in {"line", "write"} => kind["b"] = "fifo_chat_b",
         input' \in [Sides -> Seq(-1 .. PipeMax - 1)], \A q \in Sides : q # p => input'[q] = input[q],
         x = "write" => input'[p] # <<>> /\ Head(input'[p]) \in Nat,
         \/ reader' = reader
         \/ reader' = "off" /\ p = "a"
         \/ reader' = "read" /\ p = "a" /\ at["a"] = "start" /\ kind["a"] \in {"fifo_chat_a", "mkfifo_chat"}
  PROVE  ChatInv'
<1>1. at = [q \in Sides |-> at[q]]
  BY DEF ChatInv, ChatTypeOK
<1>2. at' = [q \in Sides |-> at'[q]] /\ at'[p] = x /\ \A q \in Sides : q # p => at'[q] = at[q]
  BY <1>1
<1>3. \A q \in Sides : at'[q] = "write" => input'[q] # <<>> /\ Head(input'[q]) \in Nat
  BY <1>2 DEF ChatInv, ChatTypeOK
<1>4. ChatTypeOK'
  BY <1>2, <1>3 DEF ChatInv, ChatTypeOK
<1>5. KindInv'
  <2>1. at'["a"] = "start" => at["a"] = "start" /\ reader' = reader
    BY <1>2, NamesFact
  <2>2. at'["b"] \in {"line", "write"} => at["b"] \in {"line", "write"} \/ kind["b"] = "fifo_chat_b"
    BY <1>2, NamesFact
  <2>3. /\ reader' = "read" => chunk = <<>>
        /\ kind["b"] = "mkfiforead" => reader' = "off"
    BY DEF ChatInv, KindInv
  <2> QED BY <2>1, <2>2, <2>3 DEF ChatInv, KindInv
<1>6. ASSUME NEW q \in Sides PROVE ScreenInv(q)'
  <2>1. Rest(q)' = Rest(q)
    BY DEF Rest
  <2> QED BY <2>1, ScreenSame DEF ChatInv
<1> QED BY <1>4, <1>5, <1>6 DEF ChatInv

LEMMA ConnectingStep ==
  ASSUME ChatInv, NEW p \in Sides, Connecting(p)
  PROVE  ChatInv'
<1>0. input \in [Sides -> Seq(-1 .. PipeMax - 1)]
      /\ (at[p] = "write" => input[p] # <<>> /\ Head(input[p]) \in Nat)
      /\ kind["b"] \in {"fifo_chat_b", "mkfiforead"}
      /\ (kind["b"] = "mkfiforead" => at["b"] \notin {"line", "write"})
  BY DEF ChatInv, ChatTypeOK, KindInv
<1>1. CASE UNCHANGED <<kind, at, talk>>
  <2>1. UNCHANGED <<kind, pipe, chunk, sent, shown, at, input, reader>>
    BY <1>1 DEF talk
  <2>2. PICK x : x = at[p]
    OBVIOUS
  <2> QED BY <1>0, <2>1, <2>2, QuietChat
<1>2. ASSUME NEW n \in Pipes, open_fifo(p, n) PROVE ChatInv'
  <2>1. UNCHANGED <<kind, pipe, chunk, sent, shown, input, reader>>
    BY <1>2 DEF open_fifo, talk
  <2>2. CASE UNCHANGED at
    <3>1. UNCHANGED <<kind, at, talk>>
      BY <2>1, <2>2 DEF talk
    <3> QED BY <1>1, <3>1
  <2>3. CASE at' = [at EXCEPT ![p] = "gone"]
    <3>1. PICK x : x = "gone"
      OBVIOUS
    <3>2. at' = [at EXCEPT ![p] = x] /\ x \notin {"start", "line", "write"}
      BY <2>3, <3>1
    <3> QED BY <1>0, <2>1, <3>2, QuietChat
  <2> QED BY <1>2, <2>2, <2>3 DEF open_fifo
<1>3. CASE connected(p)
  <2>1. UNCHANGED <<kind, pipe, chunk, sent, shown, input>>
    BY <1>3 DEF connected
  <2>2. PICK x : x = "talk"
    OBVIOUS
  <2>3. at' = [at EXCEPT ![p] = x] /\ x \notin {"start", "line", "write"} /\ at[p] = "start"
    BY <1>3, <2>2 DEF connected
  <2>4. reader' = reader \/ (reader' = "read" /\ p = "a" /\ at["a"] = "start" /\ kind["a"] \in {"fifo_chat_a", "mkfifo_chat"})
    BY <1>0, <1>3, NamesFact DEF connected
  <2> QED BY <1>0, <2>1, <2>3, <2>4, QuietChat
<1>4. ASSUME NEW n \in Pipes, unlink(p, n) \/ mkfifo(p, n) PROVE UNCHANGED <<kind, at, talk>>
  BY <1>4 DEF unlink, mkfifo
<1> QED BY <1>1, <1>2, <1>3, <1>4 DEF Connecting

LEMMA LeaveStep ==
  ASSUME ChatInv, NEW p \in Sides, leave(p)
  PROVE  ChatInv'
<1>1. UNCHANGED <<kind, pipe, chunk, sent, shown, input>>
  BY DEF leave
<1>2. PICK x : x = "gone"
  OBVIOUS
<1>3. at' = [at EXCEPT ![p] = x] /\ x \notin {"start", "line", "write"}
  BY <1>2 DEF leave
<1>4. reader' = reader \/ (reader' = "off" /\ p = "a")
  BY DEF leave
<1>5. input' \in [Sides -> Seq(-1 .. PipeMax - 1)] /\ \A q \in Sides : q # p => input'[q] = input[q]
  BY <1>1 DEF ChatInv, ChatTypeOK
<1> QED BY <1>1, <1>3, <1>4, <1>5, QuietChat

LEMMA FgetsStep ==
  ASSUME ChatInv, NEW p \in Sides, fgets(p), p = "b" => at["b"] = "line"
  PROVE  ChatInv'
<1>1. CASE leave(p)
  BY <1>1, LeaveStep
<1>2. CASE ~(input[p] = <<>> \/ Head(input[p]) = Exit)
  <2>1. UNCHANGED <<kind, pipe, chunk, sent, shown, reader>>
    BY <1>2 DEF fgets
  <2>2. PICK x : x = IF Head(input[p]) = 0 THEN "talk" ELSE "write"
    OBVIOUS
  <2>3. at' = [at EXCEPT ![p] = x] /\ x # "start" /\ (x # "write" => x = "talk")
    BY <1>2, <2>2 DEF fgets
  <2>4. p = "b" => kind["b"] = "fifo_chat_b"
    BY DEF ChatInv, KindInv
  <2>5. input \in [Sides -> Seq(-1 .. PipeMax - 1)] /\ input[p] \in Seq(-1 .. PipeMax - 1) /\ input[p] # <<>>
    BY <1>2 DEF ChatInv, ChatTypeOK
  <2>6. Following(p) \in Seq(-1 .. PipeMax - 1) /\ Head(input[p]) \in -1 .. PipeMax - 1
    BY <2>5, FollowingFact
  <2>7. input' \in [Sides -> Seq(-1 .. PipeMax - 1)] /\ \A q \in Sides : q # p => input'[q] = input[q]
    BY <1>2, <2>5, <2>6 DEF fgets
  <2>8. x = "write" => input'[p] # <<>> /\ Head(input'[p]) \in Nat
    <3>1. x = "write" => input' = input /\ Head(input[p]) # 0
      BY <1>2, <2>2 DEF fgets
    <3>2. Head(input[p]) # Exit => Head(input[p]) \in Nat
      BY <2>6, FifoChatAssumption DEF Exit
    <3> QED BY <1>2, <2>5, <3>1, <3>2
  <2> QED BY <2>1, <2>3, <2>4, <2>7, <2>8, QuietChat
<1> QED BY <1>1, <1>2 DEF fgets

LEMMA WriteStep ==
  ASSUME ChatInv, NEW p \in Sides, write(p)
  PROVE  ChatInv'
<1>1. CASE at[Peer(p)] = "gone"
  <2>1. UNCHANGED <<kind, pipe, chunk, sent, shown, input>>
    BY <1>1 DEF write
  <2>2. PICK x : x = "gone"
    OBVIOUS
  <2>3. at' = [at EXCEPT ![p] = x] /\ x \notin {"start", "line", "write"}
    BY <1>1, <2>2 DEF write
  <2>4. reader' = reader \/ (reader' = "off" /\ p = "a")
    BY <1>1 DEF write
  <2>5. input' \in [Sides -> Seq(-1 .. PipeMax - 1)] /\ \A q \in Sides : q # p => input'[q] = input[q]
    BY <2>1 DEF ChatInv, ChatTypeOK
  <2> QED BY <2>1, <2>3, <2>4, <2>5, QuietChat
<1>2. CASE at[Peer(p)] # "gone"
  <2>1. /\ at[p] = "write"
        /\ pipe' = [pipe EXCEPT ![Out(p)] = @ \o Line(p)]
        /\ sent' = [sent EXCEPT ![p] = @ \o Line(p)]
        /\ input' = [input EXCEPT ![p] = Following(p)]
        /\ at' = [at EXCEPT ![p] = "talk"]
        /\ UNCHANGED <<kind, chunk, shown, reader>>
    BY <1>2 DEF write
  <2>2. ChatTypeOK' /\ KindInv'
    BY <2>1, WriteTypes DEF ChatInv
  \* The other side has more to read.
  <2>3. ScreenInv(Peer(p))'
    <3>1. PICK q \in Sides : q = Peer(p)
      BY NamesFact
    <3>2. p = Peer(q) /\ Out(p) = In(q)
      BY <3>1, NamesFact
    <3>3. at[Peer(q)] = "write" /\ pipe' = [pipe EXCEPT ![In(q)] = @ \o Line(Peer(q))]
          /\ sent' = [sent EXCEPT ![Peer(q)] = @ \o Line(Peer(q))]
      BY <2>1, <3>2
    <3>4. ScreenInv(q)'
      BY <2>1, <3>3, WriteScreen DEF ChatInv
    <3>5. q = "a" \/ q = "b"
      BY NamesFact
    <3> QED BY <3>1, <3>4
  \* This side has not.
  <2>4. ScreenInv(p)'
    <3>1. sent'[Peer(p)] = sent[Peer(p)] /\ pipe'[In(p)] = pipe[In(p)]
      BY <2>1, NamesFact DEF ChatInv, ChatTypeOK
    <3>2. Rest(p)' = Rest(p)
      BY <2>1, <3>1, NamesFact DEF Rest
    <3> QED BY <2>1, <3>1, <3>2, ScreenSame DEF ChatInv
  <2>5. \A q \in Sides : q = p \/ q = Peer(p)
    BY NamesFact
  <2>6. ASSUME NEW q \in Sides PROVE ScreenInv(q)'
    <3>1. CASE q = p
      BY <2>4, <3>1
    <3>2. CASE q = Peer(p)
      BY <2>3, <3>2
    <3> QED BY <2>5, <3>1, <3>2
  <2> QED BY <2>2, <2>6 DEF ChatInv
<1> QED BY <1>1, <1>2

\* read_thread reads, and later shows what it has read.
LEMMA ReadThreadStep ==
  ASSUME ChatInv, read_thread
  PROVE  ChatInv'
<1>0. /\ ChatTypeOK /\ KindInv /\ ScreenInv("a") /\ ScreenInv("b") /\ "a" \in Sides /\ "b" \in Sides
      /\ pipe \in [Pipes -> Seq(Chars)] /\ chunk \in Seq(Chars) /\ "ba" \in Pipes /\ "ab" \in Pipes
  BY NamesFact DEF ChatInv, ChatTypeOK
<1>1. CASE reader = "read" /\ take("a") /\ chunk' = Taken("a") /\ reader' = "print"
           /\ UNCHANGED <<kind, calls, fifos, at, input, sent, shown>>
  <2>1. /\ chunk' \in Seq(Chars) /\ pipe'["ba"] \in Seq(Chars)
        /\ pipe["ba"] = chunk' \o pipe'["ba"]
        /\ pipe' \in [Pipes -> Seq(Chars)] /\ pipe'["ab"] = pipe["ab"]
    BY <1>0, <1>1, TakeFact, NamesFact
  <2>2. chunk = <<>> /\ pipe["ba"] # <<>> /\ at["a"] # "start" /\ kind["b"] # "mkfiforead"
    BY <1>0, <1>1, NamesFact DEF KindInv, take
  <2>3. ChatTypeOK'
    BY <1>0, <1>1, <2>1 DEF ChatTypeOK
  <2>4. KindInv'
    BY <1>0, <1>1, <2>2 DEF KindInv
  <2>5. Rest("a")' = Rest("a") /\ Rest("b")' = Rest("b")
    <3>1. chunk \o pipe["ba"] = pipe["ba"]
      BY <1>0, <2>2, ConcatEmptySeq
    <3> QED BY <2>1, <3>1 DEF Rest
  <2>6. ScreenInv("a")'
    <3>1. kind[Peer("a")] \in Terminates
      BY <1>0, <2>2, NamesFact DEF KindInv, Terminates
    <3> QED BY <1>0, <1>1, <2>5, <3>1, ScreenSame
  <2>7. ScreenInv("b")'
    BY <1>0, <1>1, <2>1, <2>5, ScreenSame, NamesFact
  <2> QED BY <2>3, <2>4, <2>6, <2>7, NamesFact DEF ChatInv
<1>2. CASE reader' = "off" /\ UNCHANGED <<kind, calls, fifos, at, pipe, chunk, input, sent, shown>>
           /\ reader = "read"
  <2>1. PICK x : x = at["a"]
    OBVIOUS
  <2>2. at["a"] # "start"
    BY <1>0, <1>2 DEF KindInv
  <2>3. input' \in [Sides -> Seq(-1 .. PipeMax - 1)] /\ \A q \in Sides : q # "a" => input'[q] = input[q]
    BY <1>0, <1>2 DEF ChatTypeOK
  <2>4. x = "write" => input'["a"] # <<>> /\ Head(input'["a"]) \in Nat
    BY <1>0, <1>2, <2>1 DEF ChatTypeOK
  <2> QED BY <1>0, <1>2, <2>1, <2>2, <2>3, <2>4, QuietChat
<1>3. CASE reader = "print" /\ show("a", chunk) /\ chunk' = <<>> /\ reader' = "read"
           /\ UNCHANGED <<kind, calls, fifos, at, pipe, input, sent>>
  <2>1. at["a"] # "start" /\ kind["b"] # "mkfiforead"
    BY <1>0, <1>3 DEF KindInv
  <2>2. Rest("a") = chunk \o pipe["ba"] /\ Rest("a")' = pipe["ba"] /\ pipe["ba"] \in Seq(Chars) /\ Rest("b")' = Rest("b")
    <3>1. <<>> \o pipe["ba"] = pipe["ba"]
      BY <1>0, ConcatEmptySeq
    <3> QED BY <1>0, <1>3, <3>1 DEF Rest
  <2>3. Rest("a")' \in Seq(Chars) /\ Rest("a") = chunk \o Rest("a")' /\ pipe'[In("a")] \in Seq(Chars)
    BY <1>0, <1>3, <2>2, NamesFact
  <2>4. kind[Peer("a")] \in Terminates
    BY <1>0, <2>1, NamesFact DEF KindInv, Terminates
  <2>5. /\ ScreenInv("a")'
        /\ shown' \in [Sides -> Seq(Seq(Chars))] /\ \A q \in Sides : q # "a" => shown'[q] = shown[q]
        /\ \A q \in Sides : FlattenSeq(shown'[q]) \in Seq(Chars)
    BY <1>0, <1>3, <2>3, <2>4, ShowScreen
  <2>6. ChatTypeOK'
    <3>1. chunk' \in Seq(Chars)
      BY <1>3
    <3> QED BY <1>0, <1>3, <2>5, <3>1 DEF ChatTypeOK
  <2>7. KindInv'
    BY <1>0, <1>3, <2>1 DEF KindInv
  <2>8. ScreenInv("b")'
    BY <1>0, <1>3, <2>2, <2>5, ScreenSame
  <2> QED BY <2>5, <2>6, <2>7, <2>8, NamesFact DEF ChatInv
<1> QED BY <1>1, <1>2, <1>3 DEF read_thread

\* fifo_chat_b.c and mkfiforead.c show what they read at once.
LEMMA TakeShowStep ==
  ASSUME ChatInv, take("b"), show("b", Taken("b")),
         UNCHANGED <<kind, reader, chunk, input, sent>>,
         NEW x, at' = [at EXCEPT !["b"] = x] \/ (at' = at /\ x = at["b"]),
         at["b"] = "talk", x = "talk" \/ (x = "line" /\ kind["b"] = "fifo_chat_b")
  PROVE  ChatInv'
<1>0. /\ ChatTypeOK /\ KindInv /\ ScreenInv("a") /\ ScreenInv("b") /\ "a" \in Sides /\ "b" \in Sides
      /\ pipe \in [Pipes -> Seq(Chars)] /\ "ba" \in Pipes /\ "ab" \in Pipes
      /\ at = [q \in Sides |-> at[q]]
  BY NamesFact DEF ChatInv, ChatTypeOK
<1>1. /\ Taken("b") \in Seq(Chars) /\ pipe'["ab"] \in Seq(Chars)
      /\ pipe["ab"] = Taken("b") \o pipe'["ab"]
      /\ pipe' \in [Pipes -> Seq(Chars)] /\ pipe'["ba"] = pipe["ba"]
  BY <1>0, TakeFact, NamesFact
<1>2. at' = [q \in Sides |-> at'[q]] /\ at'["b"] = x /\ at'["a"] = at["a"]
  BY <1>0, NamesFact
<1>3. Rest("b")' \in Seq(Chars) /\ Rest("b") = Taken("b") \o Rest("b")' /\ Rest("a")' = Rest("a")
  BY <1>1 DEF Rest
<1>4. pipe'[In("b")] \in Seq(Chars) /\ pipe[In("b")] = Taken("b") \o pipe'[In("b")]
  BY <1>1, NamesFact
<1>5. /\ ScreenInv("b")'
      /\ shown' \in [Sides -> Seq(Seq(Chars))] /\ \A q \in Sides : q # "b" => shown'[q] = shown[q]
      /\ \A q \in Sides : FlattenSeq(shown'[q]) \in Seq(Chars)
  BY <1>0, <1>1, <1>3, <1>4, ShowScreen
<1>6. ScreenInv("a")'
  BY <1>0, <1>1, <1>3, <1>5, ScreenSame, NamesFact
<1>7. ChatTypeOK'
  <2>1. \A q \in Sides : at'[q] = "write" => input'[q] # <<>> /\ Head(input'[q]) \in Nat
    BY <1>0, <1>2, NamesFact DEF ChatTypeOK
  <2> QED BY <1>0, <1>1, <1>2, <1>5, <2>1 DEF ChatTypeOK
<1>8. KindInv'
  BY <1>0, <1>1, <1>2, <1>5 DEF KindInv
<1> QED BY <1>5, <1>6, <1>7, <1>8, NamesFact DEF ChatInv

LEMMA ChatNextInv ==
  ASSUME ChatInv, ChatStep
  PROVE  ChatInv'
<1>0. "a" \in Sides /\ "b" \in Sides
  BY NamesFact
<1>1. CASE main_a
  BY <1>0, <1>1, FgetsStep, WriteStep DEF main_a
<1>2. CASE read_thread
  BY <1>2, ReadThreadStep
<1>3. CASE mkfiforead
  <2>1. CASE take("b") /\ show("b", Taken("b")) /\ UNCHANGED <<kind, calls, fifos, at, reader, chunk, input, sent>>
    <3>1. PICK x : x = at["b"]
      OBVIOUS
    <3>2. at["b"] = "talk" /\ x = "talk"
      BY <1>3, <3>1 DEF mkfiforead
    <3> QED BY <2>1, <3>1, <3>2, TakeShowStep
  <2>2. CASE leave("b")
    BY <1>0, <2>2, LeaveStep
  <2> QED BY <1>3, <2>1, <2>2 DEF mkfiforead
<1>4. CASE select_b
  <2>1. kind["b"] = "fifo_chat_b" /\ at["b"] = "talk"
    BY <1>4 DEF select_b
  <2>2. ASSUME NEW typed \in BOOLEAN, take("b"), show("b", Taken("b")),
               at' = [at EXCEPT !["b"] = IF typed THEN "line" ELSE "talk"],
               UNCHANGED <<kind, calls, fifos, reader, chunk, input, sent>>
        PROVE  ChatInv'
    <3>1. PICK x : x = IF typed THEN "line" ELSE "talk"
      OBVIOUS
    <3>2. at' = [at EXCEPT !["b"] = x] /\ (x = "talk" \/ x = "line")
      BY <2>2, <3>1
    <3> QED BY <2>1, <2>2, <3>2, TakeShowStep
  <2>3. ASSUME at' = [at EXCEPT !["b"] = "line"], UNCHANGED <<kind, calls, fifos, talk>>
        PROVE  ChatInv'
    <3>1. UNCHANGED <<kind, pipe, chunk, sent, shown, reader, input>>
      BY <2>3 DEF talk
    <3>2. PICK x : x = "line"
      OBVIOUS
    <3>3. at' = [at EXCEPT !["b"] = x] /\ x # "start" /\ x # "write"
      BY <2>3, <3>2
    <3>4. input' \in [Sides -> Seq(-1 .. PipeMax - 1)] /\ \A q \in Sides : q # "b" => input'[q] = input[q]
      BY <3>1 DEF ChatInv, ChatTypeOK
    <3> QED BY <1>0, <2>1, <3>1, <3>3, <3>4, QuietChat
  <2>4. CASE leave("b")
    BY <1>0, <2>4, LeaveStep
  <2> QED BY <1>4, <2>2, <2>3, <2>4 DEF select_b
<1>5. CASE at["b"] = "line" /\ fgets("b")
  BY <1>0, <1>5, FgetsStep
<1>6. CASE write("b")
  BY <1>0, <1>6, WriteStep
<1>7. ASSUME NEW p \in Sides, Connecting(p) PROVE ChatInv'
  BY <1>7, ConnectingStep
<1> QED BY <1>1, <1>2, <1>3, <1>4, <1>5, <1>6, <1>7 DEF ChatStep, main_b

LEMMA ChatInitInv ==
  ASSUME ChatInit \/ ChatIdle
  PROVE  ChatInv
<1>1. /\ reader = "off" /\ chunk = <<>> /\ pipe = [n \in Pipes |-> <<>>]
      /\ sent = [p \in Sides |-> <<>>] /\ shown = [p \in Sides |-> <<>>]
  BY DEF ChatInit, ChatIdle, Untouched
<1>2. /\ kind = [p \in Sides |-> kind[p]] /\ at = [p \in Sides |-> at[p]]
      /\ \A p \in Sides : at[p] \in {"start", "gone"}
  <2>1. CASE ChatInit
    <3>1. PICK k : kind = [p \in Sides |-> IF p = "a" THEN k[1] ELSE k[2]]
      BY <2>1 DEF ChatInit
    <3>2. at = [p \in Sides |-> "start"]
      BY <2>1 DEF ChatInit
    <3> QED BY <3>1, <3>2
  <2>2. CASE ChatIdle
    BY <2>2 DEF ChatIdle
  <2> QED BY <2>1, <2>2
<1>3. kind["b"] \in {"fifo_chat_b", "mkfiforead"}
      /\ (kind["b"] = "mkfiforead" => kind["a"] \notin {"fifo_chat_a", "mkfifo_chat"})
  <2>1. CASE ChatInit
    <3>1. PICK k \in { <<"fifo_chat_a", "fifo_chat_b">>, <<"mkfifo_chat", "fifo_chat_b">>,
                       <<"mkfifowrite", "mkfiforead">> } :
            kind = [p \in Sides |-> IF p = "a" THEN k[1] ELSE k[2]]
      BY <2>1 DEF ChatInit
    <3>2. kind["a"] = k[1] /\ kind["b"] = k[2]
      BY <3>1, NamesFact
    <3> QED BY <3>1, <3>2
  <2>2. CASE ChatIdle
    <3>1. kind["a"] = "mkfiforead" /\ kind["b"] = "mkfiforead"
      BY <2>2, NamesFact DEF ChatIdle
    <3> QED BY <3>1
  <2> QED BY <2>1, <2>2
<1>4. input \in [Sides -> Seq(-1 .. PipeMax - 1)]
  <2>1. CASE ChatInit
    <3>1. PICK T : T = -1 .. PipeMax - 1
      OBVIOUS
    <3>2. Typed \subseteq Seq(T)
      BY <3>1, FifoChatAssumption
    <3>3. PICK x \in Buffered(kind["a"]), y \in Buffered(kind["b"]) :
            input = [p \in Sides |-> IF p = "a" THEN x ELSE y]
      BY <2>1 DEF ChatInit
    <3>4. ASSUME NEW k PROVE Buffered(k) \subseteq Seq(T)
      <4>1. \A line \in T : <<line>> \in Seq(T)
        OBVIOUS
      <4>2. Exit .. PipeMax - 1 = T /\ <<>> \in Seq(T)
        BY <3>1 DEF Exit
      <4> QED BY <3>2, <4>1, <4>2 DEF Buffered
    <3>5. x \in Seq(T) /\ y \in Seq(T)
      BY <3>4
    <3>6. input \in [Sides -> Seq(T)]
      BY <3>3, <3>5
    <3> QED BY <3>1, <3>6
  <2>2. CASE ChatIdle
    BY <2>2 DEF ChatIdle
  <2> QED BY <2>1, <2>2
<1>5. /\ \A p \in Sides : sent[p] = <<>> /\ shown[p] = <<>> /\ FlattenSeq(shown[p]) = <<>>
      /\ \A n \in Pipes : pipe[n] = <<>>
      /\ sent \in [Sides -> Seq(Chars)] /\ pipe \in [Pipes -> Seq(Chars)]
      /\ shown \in [Sides -> Seq(Seq(Chars))] /\ chunk \in Seq(Chars) /\ <<>> \in Seq(Chars)
  <2>1. <<>> \in Seq(Chars) /\ <<>> \in Seq(Seq(Chars))
    OBVIOUS
  <2> QED BY <1>1, <2>1, FlatEmpty
<1>6. ChatTypeOK
  BY <1>2, <1>4, <1>5 DEF ChatTypeOK
<1>7. KindInv
  BY <1>1, <1>2, <1>3, <1>5, NamesFact DEF KindInv
<1>8. ASSUME NEW p \in Sides PROVE ScreenInv(p)
  <2>1. <<>> \o <<>> = <<>>
    BY <1>5, ConcatEmptySeq
  <2>2. sent[Peer(p)] = <<>> /\ FlattenSeq(shown[p]) = <<>> /\ shown[p] = <<>> /\ pipe[In(p)] = <<>>
    BY <1>5, NamesFact
  <2>3. Rest(p) = <<>>
    BY <1>1, <1>5, <2>1, NamesFact DEF Rest
  <2>4. Len(<<>>) = 0 /\ DOMAIN <<>> = {}
    OBVIOUS
  <2>5. Ordered(<<>>) /\ Suffix(<<>>, <<>>) /\ Drawn(<<>>, <<>>, Len(<<>>) - Len(<<>>)) /\ NoZero(<<>>)
    BY <2>4 DEF Ordered, Suffix, Drawn, NoZero
  <2>6. \A k \in DOMAIN shown[p] : OneLine(shown[p][k])
    BY <2>2, <2>4
  <2> QED BY <2>1, <2>2, <2>3, <2>5, <2>6 DEF ScreenInv
<1> QED BY <1>6, <1>7, <1>8 DEF ChatInv

LEMMA ChatSame ==
  ASSUME ChatInv, UNCHANGED chatVars
  PROVE  ChatInv'
<1>1. UNCHANGED <<kind, at, reader, pipe, chunk, input, sent, shown>>
  BY DEF chatVars, talk
<1>2. ChatTypeOK' /\ KindInv'
  BY <1>1 DEF ChatInv, ChatTypeOK, KindInv
<1>3. ASSUME NEW p \in Sides PROVE ScreenInv(p)'
  <2>1. Rest(p)' = Rest(p)
    BY <1>1 DEF Rest
  <2> QED BY <1>1, <2>1, ScreenSame DEF ChatInv
<1> QED BY <1>2, <1>3 DEF ChatInv

LEMMA ChatInvariance == ExchangeSpec => []ChatInv
<1>1. ExchangeInit => ChatInv
  BY ChatInitInv DEF ExchangeInit
<1>2. ChatInv /\ [ExchangeNext]_exchangeVars => ChatInv'
  <2> SUFFICES ASSUME ChatInv, [ExchangeNext]_exchangeVars PROVE ChatInv'
    OBVIOUS
  <2>1. CASE ChatStep
    BY <2>1, ChatNextInv
  <2>2. CASE UNCHANGED chatVars
    BY <2>2, ChatSame
  <2> QED BY <2>1, <2>2 DEF ExchangeNext, exchangeVars
<1> QED BY <1>1, <1>2, PTL DEF ExchangeSpec

\* Whatever the reads cut out of the pipes, each side shows the other's lines
\* in order, one line at a time when they are sent with their zero, and every
\* character of them when they are not (src/IPC/pipe), for lines, pipes and
\* reads of any length.
THEOREM ChatShown == ExchangeSpec => []LinesShown
<1>1. ChatInv => LinesShown
  <2> SUFFICES ASSUME ChatInv, NEW p \in Sides
               PROVE  IF kind[Peer(p)] \in Terminates
                        THEN /\ \A k \in DOMAIN shown[p] : \A i, j \in DOMAIN shown[p][k] :
                                   shown[p][k][i][1] = shown[p][k][j][1]
                             /\ \A i \in 1 .. Len(FlattenSeq(shown[p])) - 1 :
                                   Earlier(FlattenSeq(shown[p])[i], FlattenSeq(shown[p])[i + 1])
                             /\ \A i \in DOMAIN FlattenSeq(shown[p]) :
                                   FlattenSeq(shown[p])[i] \in Range(sent[Peer(p)])
                        ELSE FlattenSeq(shown[p]) \o pipe[In(p)] = sent[Peer(p)]
    BY DEF LinesShown
  <2>1. ScreenInv(p) /\ ChatTypeOK
    BY DEF ChatInv
  <2>2. CASE kind[Peer(p)] \notin Terminates
    BY <2>1, <2>2 DEF ScreenInv
  <2>3. CASE kind[Peer(p)] \in Terminates
    <3>1. PICK s, screen, d : s = sent[Peer(p)] /\ screen = FlattenSeq(shown[p]) /\ d = Len(s) - Len(Rest(p))
      OBVIOUS
    <3>2. Drawn(screen, s, d) /\ Suffix(Rest(p), s) /\ \A k \in DOMAIN shown[p] : OneLine(shown[p][k])
      BY <2>1, <2>3, <3>1 DEF ScreenInv
    <3>3. s \in Seq(Chars) /\ screen \in Seq(Chars) /\ Len(screen) \in Nat /\ DOMAIN screen = 1 .. Len(screen)
      BY <2>1, <3>1, NamesFact DEF ChatTypeOK
    <3>4. \A i \in 1 .. Len(screen) - 1 : Earlier(screen[i], screen[i + 1])
      <4> SUFFICES ASSUME NEW i \in 1 .. Len(screen) - 1 PROVE Earlier(screen[i], screen[i + 1])
        OBVIOUS
      <4>1. i \in DOMAIN screen /\ i + 1 \in DOMAIN screen /\ i < i + 1
        BY <3>3
      <4> QED BY <3>2, <4>1 DEF Drawn
    <3>5. Rest(p) \in Seq(Chars)
      <4>1. chunk \in Seq(Chars) /\ pipe["ba"] \in Seq(Chars) /\ pipe["ab"] \in Seq(Chars)
        BY <2>1, NamesFact DEF ChatTypeOK
      <4>2. chunk \o pipe["ba"] \in Seq(Chars)
        BY <4>1, JoinedFact
      <4> QED BY <4>1, <4>2 DEF Rest
    <3>6. d <= Len(s) /\ d \in Int /\ Len(s) \in Nat /\ DOMAIN s = 1 .. Len(s)
      <4>1. Len(s) \in Nat /\ DOMAIN s = 1 .. Len(s) /\ Len(Rest(p)) \in Nat
        BY <3>3, <3>5
      <4> QED BY <3>1, <4>1
    <3>7. \A i \in DOMAIN screen : screen[i] \in Range(s)
      <4> SUFFICES ASSUME NEW i \in DOMAIN screen PROVE screen[i] \in Range(s)
        OBVIOUS
      <4>1. PICK k \in 1 .. d : s[k] = screen[i]
        BY <3>2 DEF Drawn
      <4>2. k \in DOMAIN s
        BY <3>6
      <4> QED BY <4>1, <4>2 DEF Range
    <3> QED BY <2>3, <3>1, <3>2, <3>4, <3>7 DEF OneLine
  <2> QED BY <2>2, <2>3
<1> QED BY <1>1, ChatInvariance, PTL
=============================================================================
