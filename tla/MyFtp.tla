------------------------------- MODULE MyFtp -------------------------------
(***************************************************************************)
(* src/IPC/xsi/msg/myftp_msg: a server that sends files through one        *)
(* message queue, which all clients share.  A message has a type; msgrcv   *)
(* takes the first one of the type asked for, and msgsnd blocks while      *)
(* there is no room: the kernel limits the bytes, of which MSG_EOT has     *)
(* none, and the number of messages.  A file is a number of packets, or -1 *)
(* when it cannot be opened; a read that fails ends it early, as if it     *)
(* were shorter.  The server ends a file with a message MSG_EOT.  The      *)
(* client takes MSG_DATA only and ends at a packet of length 0, which no   *)
(* file has: it leaves when its user stops it, or when a packet cannot be  *)
(* written.                                                                *)
(***************************************************************************)
EXTENDS Integers, Sequences, FiniteSets

CONSTANTS FtpClients,
          FileSizes,    \* the sizes of the files asked for
          QueueMax,     \* the messages the queue holds
          QueueBytes,   \* how many of them may have a content
          MaxLeave      \* bound: clients that leave

ASSUME MyFtpAssumption ==
    /\ FileSizes \subseteq Nat \cup {-1}
    /\ {QueueMax, QueueBytes} \subseteq Nat \ {0} /\ MaxLeave \in Nat

Nobody == "nobody"

VARIABLES
  queue,      \* messages [mtype, of, n]: of the file client "of" asked for
  phase,        \* the server: "wait", "send"
  request,    \* the client whose file is sent
  next,       \* the packet read() returns next
  stage,        \* [FtpClients -> "ask", "receive", "gone", "done"]
  size,       \* [FtpClients -> the size of the file it asks for]
  saved,      \* [FtpClients -> the packets it wrote to save_path]
  handled,    \* history: the clients whose request was handled
  given, lost, \* history: packets sent of each file; packets taken and not written
  left        \* clients that have left

ftpVars == <<queue, phase, request, next, stage, size, saved, handled, given, lost, left>>

Unasked ==
    /\ queue = <<>>
    /\ phase = "wait" /\ request = Nobody /\ next = 1
    /\ saved = [c \in FtpClients |-> <<>>]
    /\ handled = {} /\ lost = {} /\ left = 0
    /\ given = [c \in FtpClients |-> 0]

FtpInit ==
    /\ Unasked
    /\ stage = [c \in FtpClients |-> "ask"]
    /\ size \in [FtpClients -> FileSizes]

\* Nobody asks.
FtpIdle ==
    /\ Unasked
    /\ stage = [c \in FtpClients |-> "gone"]
    /\ size = [c \in FtpClients |-> -1]

\* msgsnd has room for a message of type t.
Room(t) ==
    /\ Len(queue) < QueueMax
    /\ t # "EOT" => Cardinality({k \in DOMAIN queue : queue[k].mtype # "EOT"}) < QueueBytes

msgsnd(t, c, k) == queue' = Append(queue, [mtype |-> t, of |-> c, n |-> k])

\* The place of the first message of type t, 0 if there is none.
First(t) ==
    LET places == {k \in DOMAIN queue : queue[k].mtype = t}
    IN  IF places = {} THEN 0 ELSE CHOOSE k \in places : \A j \in places : k <= j

Without(k) == SubSeq(queue, 1, k - 1) \o SubSeq(queue, k + 1, Len(queue))

-----------------------------------------------------------------------------
\* server.c

\* Variant: the server serves one request.
main_once ==
    /\ phase = "wait" /\ handled = {} /\ First("PATH") # 0
    /\ request' = queue[First("PATH")].of
    /\ queue' = Without(First("PATH"))
    /\ phase' = "send" /\ next' = 1
    /\ UNCHANGED <<stage, size, saved, handled, given, lost, left>>

\* main: the next request.
main_server ==
    /\ phase = "wait" /\ First("PATH") # 0
    /\ request' = queue[First("PATH")].of
    /\ queue' = Without(First("PATH"))
    /\ phase' = "send" /\ next' = 1
    /\ UNCHANGED <<stage, size, saved, handled, given, lost, left>>

\* Variant: msgsnd does not wait for room, and its result is not looked at.
send_data_nowait ==
    /\ phase = "send" /\ next <= size[request]
    /\ IF Room("DATA") THEN msgsnd("DATA", request, next) ELSE UNCHANGED queue
    /\ given' = [given EXCEPT ![request] = next]
    /\ next' = next + 1
    /\ UNCHANGED <<phase, request, stage, size, saved, handled, lost, left>>

send_data_packet ==
    /\ phase = "send" /\ next <= size[request]
    /\ Room("DATA")
    /\ msgsnd("DATA", request, next)
    /\ given' = [given EXCEPT ![request] = next]
    /\ next' = next + 1
    /\ UNCHANGED <<phase, request, stage, size, saved, handled, lost, left>>

\* The end of the file, or a file that cannot be opened.
send_eot_packet ==
    /\ phase = "send" /\ next > size[request]
    /\ Room("EOT")
    /\ msgsnd("EOT", request, 0)
    /\ handled' = handled \cup {request}
    /\ phase' = "wait"
    /\ UNCHANGED <<request, next, stage, size, saved, given, lost, left>>

handle_file_request == send_data_packet \/ send_eot_packet

ftp_server == main_server \/ handle_file_request

-----------------------------------------------------------------------------
\* client.c

send_path_request(c) ==
    /\ stage[c] = "ask"
    /\ Room("PATH")
    /\ msgsnd("PATH", c, 0)
    /\ stage' = [stage EXCEPT ![c] = "receive"]
    /\ UNCHANGED <<phase, request, next, size, saved, handled, given, lost, left>>

\* The loop of receive_and_save_file: whoever comes first takes the packet.
receive_and_save_file(c) ==
    /\ stage[c] = "receive" /\ First("DATA") # 0
    /\ LET packet == queue[First("DATA")]
       IN  IF packet.n = 0
             THEN /\ stage' = [stage EXCEPT ![c] = "done"]
                  /\ UNCHANGED saved
             ELSE /\ saved' = [saved EXCEPT ![c] = Append(@, <<packet.of, packet.n>>)]
                  /\ UNCHANGED stage
    /\ queue' = Without(First("DATA"))
    /\ UNCHANGED <<phase, request, next, size, handled, given, lost, left>>

\* fwrite fails: the packet is lost and the client exits.
fwrite_fails(c) ==
    /\ left < MaxLeave
    /\ stage[c] = "receive" /\ First("DATA") # 0
    /\ LET packet == queue[First("DATA")] IN lost' = lost \cup {<<packet.of, packet.n>>}
    /\ queue' = Without(First("DATA"))
    /\ stage' = [stage EXCEPT ![c] = "gone"] /\ left' = left + 1
    /\ UNCHANGED <<phase, request, next, size, saved, handled, given>>

\* The user stops a client.
stop(c) ==
    /\ left < MaxLeave
    /\ stage[c] \in {"ask", "receive"}
    /\ stage' = [stage EXCEPT ![c] = "gone"] /\ left' = left + 1
    /\ UNCHANGED <<queue, phase, request, next, size, saved, handled, given, lost>>

ftp_client(c) == send_path_request(c) \/ receive_and_save_file(c)

FtpStep == \/ ftp_server
           \/ \E c \in FtpClients : ftp_client(c) \/ fwrite_fails(c) \/ stop(c)

\* The programs are scheduled; a client that waits for a message other clients
\* take first is woken again (msgrcv serves those who wait in turn).
FtpFairness ==
    /\ WF_ftpVars(ftp_server)
    /\ \A c \in FtpClients : SF_ftpVars(ftp_client(c))

-----------------------------------------------------------------------------
Took(c, f) == {k \in DOMAIN saved[c] : saved[c][k][1] = f}
Queued(f)  == {k \in DOMAIN queue : queue[k].mtype = "DATA" /\ queue[k].of = f}

\* The packets of file f that were taken from the queue.
Gone(f) == (UNION {{saved[c][k][2] : k \in Took(c, f)} : c \in FtpClients})
             \cup {l[2] : l \in {l \in lost : l[1] = f}}

\* Every packet of a file is at one place: in the queue, in one of the files
\* saved, or lost with a client that could not write it.  No file saved has
\* packets of another out of order, and what is queued comes after what was
\* taken, although several clients take from one queue, and one that leaves
\* leaves its packets to the others.
PacketsOnce ==
    \A f \in FtpClients :
      /\ Gone(f) \cup {queue[k].n : k \in Queued(f)} = 1 .. given[f]
      /\ \A k \in Queued(f) : \A n \in Gone(f) : n < queue[k].n
      /\ \A j, k \in Queued(f) : j < k => queue[j].n < queue[k].n
      /\ \A c, d \in FtpClients : \A j \in Took(c, f), k \in Took(d, f) :
            /\ c = d /\ j < k => saved[c][j][2] < saved[d][k][2]
            /\ c # d => saved[c][j] # saved[d][k]
      /\ \A c \in FtpClients : \A k \in Took(c, f) : saved[c][k] \notin lost

\* The server waits for room in a queue full of messages nobody takes: the end of
\* every file sent, the packets for clients that have all left, and the requests
\* that only the server itself would take.
Stuck ==
    /\ phase = "send" /\ ~Room(IF next <= size[request] THEN "DATA" ELSE "EOT")
    /\ First("DATA") = 0 \/ \A c \in FtpClients : stage[c] # "receive"

\* Every request is handled, whoever leaves, until the server is stuck.
RequestsServed ==
    \A c \in FtpClients : (stage[c] = "receive") ~> (c \in handled \/ Stuck)
=============================================================================
