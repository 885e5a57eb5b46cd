------------------------------ MODULE FifoChat ------------------------------
(***************************************************************************)
(* The programs of src/IPC/pipe that talk through named pipes, in pairs:   *)
(*   fifo_chat_a.c or mkfifo_chat.c  with  fifo_chat_b.c, two pipes;       *)
(*   mkfifowrite.c  with  mkfiforead.c, one pipe.                          *)
(* Side "a" writes the pipe "ab" and reads "ba", side "b" the other way.   *)
(* A path leads to a pipe made by mkfifo; a pipe that was unlinked and     *)
(* made again is another pipe, with the next number.  A line of input is a *)
(* number of characters, or "exit"; a character in a pipe is <<line, place *)
(* in it>>, and a terminating zero has place 0.                            *)
(***************************************************************************)
EXTENDS Integers, Sequences, SequencesExt

CONSTANTS ReadSize,   \* BUFFER_SIZE - 1: what one read takes at most
          PipeMax,    \* what a pipe holds before write blocks
          Typed,      \* the inputs somebody types, sequences of lines
          MaxSent     \* bound: no last line is repeated once this much was sent

ASSUME FifoChatAssumption ==
    /\ ReadSize \in Nat \ {0} /\ PipeMax \in Nat /\ MaxSent \in Nat
    /\ Typed \subseteq Seq(-1 .. PipeMax - 1)

Sides == {"a", "b"}
Pipes == {"ab", "ba"}
Exit  == -1          \* the line "exit"

VARIABLES
  kind,      \* [Sides -> the program]
  calls,     \* [Sides -> the calls left before the conversation]
  made,      \* [Pipes -> how often its path was made by mkfifo]
  there,     \* the paths that exist
  held,      \* [Sides -> [Pipes -> the pipe it opened, or 0]]
  at,        \* [Sides -> "start", "talk", "line", "write", "gone"]
  reader,    \* read_thread of side "a": "read", "print", "off"
  pipe,      \* [Pipes -> the characters in it]
  chunk,     \* what read_thread has read and not shown
  input,     \* [Sides -> lines not yet typed]
  sent,      \* [Sides -> history: what it wrote]
  shown      \* [Sides -> history: the lines it displayed]

fifos    == <<made, there, held>>
talk     == <<reader, pipe, chunk, input, sent, shown>>
chatVars == <<kind, calls, fifos, at, talk>>

Peer(p) == IF p = "a" THEN "b" ELSE "a"
Out(p)  == IF p = "a" THEN "ab" ELSE "ba"
In(p)   == Out(Peer(p))

-----------------------------------------------------------------------------
\* The calls each program makes until it is connected.

fifo_chat_a == << <<"unlink", "ab">>, <<"unlink", "ba">>,
                  <<"mkfifo", "ab">>, <<"mkfifo", "ba">>,
                  <<"open", "ab">>, <<"open", "ba">> >>

\* Variant: the pipe to write is opened first, as the other side does.
fifo_chat_b_same == << <<"mkfifo", "ab">>, <<"mkfifo", "ba">>,
                       <<"open", "ba">>, <<"open", "ab">> >>

fifo_chat_b == << <<"mkfifo", "ab">>, <<"mkfifo", "ba">>,
                  <<"open", "ab">>, <<"open", "ba">> >>

mkfifo_chat == << <<"mkfifo", "ab">>, <<"mkfifo", "ba">>,
                  <<"open", "ab">>, <<"open", "ba">> >>

mkfifo_one == << <<"mkfifo", "ab">>, <<"open", "ab">> >>

Script == [ fifo_chat_a |-> fifo_chat_a, fifo_chat_b |-> fifo_chat_b,
            mkfifo_chat |-> mkfifo_chat, mkfifowrite |-> mkfifo_one,
            mkfiforead  |-> mkfifo_one ]

\* At the end of the input fgets leaves buffer alone.  These programs do not look
\* at its result, and send their last line again.
Repeats    == {"mkfifo_chat", "mkfifowrite"}
Locks      == {"fifo_chat_a"}                    \* print_mutex
Terminates == {"fifo_chat_a", "fifo_chat_b"}     \* strlen(buffer) + 1
ReadsOnly  == {"mkfiforead"}

\* The lines program k finds in buffer.  Where nothing is typed and nobody
\* notices, buffer is uninitialised, which may be any line.
Buffered(k) ==
    IF k \in ReadsOnly THEN {<<>>}
    ELSE IF k \in Repeats THEN (Typed \ {<<>>}) \cup {<<line>> : line \in Exit .. PipeMax - 1}
    ELSE Typed

Untouched ==
    /\ made = [n \in Pipes |-> IF n \in there THEN 1 ELSE 0]
    /\ held = [p \in Sides |-> [n \in Pipes |-> 0]]
    /\ reader = "off" /\ chunk = <<>>
    /\ pipe = [n \in Pipes |-> <<>>]
    /\ sent = [p \in Sides |-> <<>>] /\ shown = [p \in Sides |-> <<>>]

ChatInit ==
    /\ \E k \in { <<"fifo_chat_a", "fifo_chat_b">>, <<"mkfifo_chat", "fifo_chat_b">>,
                  <<"mkfifowrite", "mkfiforead">> } :
          kind = [p \in Sides |-> IF p = "a" THEN k[1] ELSE k[2]]
    /\ calls = [p \in Sides |-> Script[kind[p]]]
    /\ there \in {{}, Pipes}          \* paths a killed conversation left behind
    /\ at = [p \in Sides |-> "start"]
    /\ \E x \in Buffered(kind["a"]), y \in Buffered(kind["b"]) :
          input = [p \in Sides |-> IF p = "a" THEN x ELSE y]
    /\ Untouched

\* Nobody talks.
ChatIdle ==
    /\ kind = [p \in Sides |-> "mkfiforead"]
    /\ calls = [p \in Sides |-> <<>>] /\ input = [p \in Sides |-> <<>>]
    /\ there = {}
    /\ at = [p \in Sides |-> "gone"]
    /\ Untouched

-----------------------------------------------------------------------------
\* Connecting.

Call(p, what, n) == at[p] = "start" /\ calls[p] # <<>> /\ Head(calls[p]) = <<what, n>>

Done(P) == calls' = [p \in Sides |-> IF p \in P THEN Tail(calls[p]) ELSE calls[p]]

unlink(p, n) ==
    /\ Call(p, "unlink", n)
    /\ there' = there \ {n}
    /\ Done({p})
    /\ UNCHANGED <<kind, made, held, at, talk>>

\* EEXIST is not an error.
mkfifo(p, n) ==
    /\ Call(p, "mkfifo", n)
    /\ there' = there \cup {n}
    /\ made' = IF n \in there THEN made ELSE [made EXCEPT ![n] = @ + 1]
    /\ Done({p})
    /\ UNCHANGED <<kind, held, at, talk>>

\* open of a pipe returns when the other end is opened too, and then for both;
\* it fails, and the program returns, when the path is gone.
open_fifo(p, n) ==
    /\ Call(p, "open", n) /\ held[p][n] = 0
    /\ IF n \in there
         THEN /\ held' = [held EXCEPT ![p][n] = made[n]]
              /\ IF held[Peer(p)][n] = made[n] THEN Done(Sides) ELSE UNCHANGED calls
              /\ UNCHANGED at
         ELSE /\ at' = [at EXCEPT ![p] = "gone"]
              /\ UNCHANGED <<held, calls>>
    /\ UNCHANGED <<kind, made, there, talk>>

\* pthread_create of read_thread, and the conversation.
connected(p) ==
    /\ at[p] = "start" /\ calls[p] = <<>>
    /\ at' = [at EXCEPT ![p] = "talk"]
    /\ reader' = IF kind[p] \in {"fifo_chat_a", "mkfifo_chat"} THEN "read" ELSE reader
    /\ UNCHANGED <<kind, calls, fifos, pipe, chunk, input, sent, shown>>

-----------------------------------------------------------------------------
\* Talking.

\* Everything is closed, and the paths removed by all but the writer alone.
leave(p) ==
    /\ at' = [at EXCEPT ![p] = "gone"]
    /\ there' = IF kind[p] = "mkfifowrite" THEN there ELSE {}
    /\ reader' = IF p = "a" THEN "off" ELSE reader
    /\ UNCHANGED <<kind, calls, made, held, pipe, chunk, input, sent, shown>>

mutex == at["a"] = "write" /\ kind["a"] \in Locks     \* print_mutex is taken

\* The last line of a program that sends it again and again.
Repeating(p) == kind[p] \in Repeats /\ Len(input[p]) = 1 /\ Head(input[p]) # Exit
Following(p) == IF Repeating(p) THEN input[p] ELSE Tail(input[p])

\* One line of fgets.  An empty line is skipped, or written without effect.
fgets(p) ==
    IF input[p] = <<>> \/ Head(input[p]) = Exit
      THEN leave(p)
      ELSE /\ at' = [at EXCEPT ![p] = IF Head(input[p]) = 0 THEN "talk" ELSE "write"]
           /\ input' = IF Head(input[p]) = 0 THEN [input EXCEPT ![p] = Following(p)] ELSE input
           /\ UNCHANGED <<kind, calls, fifos, reader, pipe, chunk, sent, shown>>

Line(p) ==
    LET line == IF sent[p] = <<>> THEN 1 ELSE Last(sent[p])[1] + 1
    IN  [k \in 1 .. Head(input[p]) |-> <<line, k>>]
          \o IF kind[p] \in Terminates THEN << <<line, 0>> >> ELSE <<>>

\* The write: it blocks while there is no room, and SIGPIPE ends the process
\* when nobody is left to read.
write(p) ==
    /\ at[p] = "write"
    /\ \/ /\ at[Peer(p)] = "gone"
          /\ at' = [at EXCEPT ![p] = "gone"]
          /\ reader' = IF p = "a" THEN "off" ELSE reader
          /\ UNCHANGED <<pipe, input, sent>>
       \/ /\ at[Peer(p)] # "gone"
          /\ Len(pipe[Out(p)]) + Len(Line(p)) <= PipeMax
          /\ Repeating(p) => Len(sent[p]) < MaxSent
          /\ pipe' = [pipe EXCEPT ![Out(p)] = @ \o Line(p)]
          /\ sent' = [sent EXCEPT ![p] = @ \o Line(p)]
          /\ input' = [input EXCEPT ![p] = Following(p)]
          /\ at' = [at EXCEPT ![p] = "talk"]
          /\ UNCHANGED reader
    /\ UNCHANGED <<kind, calls, fifos, chunk, shown>>

\* A read takes what is there, up to the size of the buffer, which was cleared;
\* %s shows it up to its first zero.
Readable(p) == pipe[In(p)] # <<>> \/ at[Peer(p)] = "gone"
Taken(p)    == SubSeq(pipe[In(p)], 1, IF Len(pipe[In(p)]) < ReadSize THEN Len(pipe[In(p)]) ELSE ReadSize)

take(p) ==
    /\ pipe[In(p)] # <<>>
    /\ pipe' = [pipe EXCEPT ![In(p)] = SubSeq(@, Len(Taken(p)) + 1, Len(@))]

Visible(buffer) ==
    LET zeros == {k \in DOMAIN buffer : buffer[k][2] = 0}
    IN  IF zeros = {} THEN buffer
        ELSE SubSeq(buffer, 1, (CHOOSE k \in zeros : \A j \in zeros : k <= j) - 1)

\* Variant: the buffer is not cleared before the read.
show_stale(p, buffer) ==
    shown' = [shown EXCEPT ![p] = Append(@, Visible(buffer) \o
        IF shown[p] = <<>> \/ Visible(buffer) # buffer THEN <<>>
        ELSE SubSeq(Last(shown[p]), Len(buffer) + 1, Len(Last(shown[p]))))]

show(p, buffer) == shown' = [shown EXCEPT ![p] = Append(@, Visible(buffer))]

\* read_thread of fifo_chat_a.c, which prints under the lock, and of
\* mkfifo_chat.c, which has none.
read_thread ==
    \/ /\ reader = "read" /\ take("a")
       /\ chunk' = Taken("a") /\ reader' = "print"
       /\ UNCHANGED <<kind, calls, fifos, at, input, sent, shown>>
    \/ /\ reader = "read" /\ pipe["ba"] = <<>> /\ at["b"] = "gone"
       /\ reader' = "off"
       /\ UNCHANGED <<kind, calls, fifos, at, pipe, chunk, input, sent, shown>>
    \/ /\ reader = "print" /\ ~mutex
       /\ show("a", chunk)
       /\ chunk' = <<>> /\ reader' = "read"
       /\ UNCHANGED <<kind, calls, fifos, at, pipe, input, sent>>

\* The main threads of fifo_chat_a.c and mkfifo_chat.c, and mkfifowrite.c.
main_a ==
    \/ at["a"] = "talk" /\ fgets("a")
    \/ write("a")

\* mkfiforead.c: read until the writer has closed.
mkfiforead ==
    /\ kind["b"] = "mkfiforead" /\ at["b"] = "talk"
    /\ \/ /\ take("b") /\ show("b", Taken("b"))
          /\ UNCHANGED <<kind, calls, fifos, at, reader, chunk, input, sent>>
       \/ /\ pipe["ab"] = <<>> /\ at["a"] = "gone"
          /\ leave("b")

\* fifo_chat_b.c: select reports the pipe, the terminal or both; the pipe
\* comes first, and its end is the end of the program.
select_b ==
    /\ kind["b"] = "fifo_chat_b" /\ at["b"] = "talk"
    /\ \E typed \in BOOLEAN :
         \/ /\ take("b") /\ show("b", Taken("b"))
            /\ at' = [at EXCEPT !["b"] = IF typed THEN "line" ELSE "talk"]
            /\ UNCHANGED <<kind, calls, fifos, reader, chunk, input, sent>>
         \/ /\ pipe["ab"] = <<>> /\ at["a"] = "gone"
            /\ leave("b")
         \/ /\ ~Readable("b") /\ typed
            /\ at' = [at EXCEPT !["b"] = "line"]
            /\ UNCHANGED <<kind, calls, fifos, talk>>

main_b == \/ select_b
          \/ at["b"] = "line" /\ fgets("b")
          \/ write("b")

Connecting(p) == (\E n \in Pipes : unlink(p, n) \/ mkfifo(p, n) \/ open_fifo(p, n)) \/ connected(p)

ChatStep == \/ \E p \in Sides : Connecting(p)
            \/ main_a \/ read_thread \/ main_b \/ mkfiforead

\* Both programs are scheduled, and somebody types until the input is over,
\* however much there is to read.
ChatFairness ==
    /\ \A p \in Sides : WF_chatVars(Connecting(p))
    /\ WF_chatVars(main_a) /\ WF_chatVars(read_thread)
    /\ WF_chatVars(main_b) /\ WF_chatVars(mkfiforead)
    /\ WF_chatVars(select_b /\ at'["b"] # "talk")

-----------------------------------------------------------------------------
Earlier(c, d) == c[1] < d[1] \/ (c[1] = d[1] /\ c[2] < d[2])

\* What a side shows of the other's lines, whatever the reads cut out of the
\* pipe.  When the writer sends the terminating zero, a line on the screen is
\* part of one line that was typed, and the lines come in order, although
\* those that share a read with an earlier one are not shown.  When it does
\* not, lines may run together, but every character is shown once and in order.
LinesShown ==
    \A p \in Sides :
      LET screen == FlattenSeq(shown[p])
          q      == Peer(p)
      IN  IF kind[q] \in Terminates
            THEN /\ \A k \in DOMAIN shown[p] : \A i, j \in DOMAIN shown[p][k] :
                       shown[p][k][i][1] = shown[p][k][j][1]
                 /\ \A i \in 1 .. Len(screen) - 1 : Earlier(screen[i], screen[i + 1])
                 /\ \A i \in DOMAIN screen : screen[i] \in Range(sent[q])
            ELSE screen \o pipe[In(p)] = sent[q]

\* Everyone waits for everyone: each side is in a write to a full pipe, and the
\* thread that would read for side "a" waits for the lock its writer holds.
Jammed == /\ \A p \in Sides : at[p] = "write" /\ Len(pipe[Out(p)]) + Len(Line(p)) > PipeMax
          /\ reader = "print" /\ mutex

\* Side "a" does not look at the result of fgets and goes on after the end of its
\* input: mkfifowrite.c sends its last line for ever to a reader that waits for
\* it to leave; mkfifo_chat.c goes on alone if its last line was empty, since a
\* write of nothing raises no SIGPIPE.
Endless == /\ at["a"] # "gone" /\ Repeating("a")
           /\ kind["a"] = "mkfifowrite" \/ (Head(input["a"]) = 0 /\ at["b"] = "gone")

\* The orders of the two opens fit: programs that find the pipes made get
\* connected.  (Started before the pipes are made anew, the other side may
\* wait on an unlinked pipe for ever, or find no path.)  And a conversation
\* ends for both, but for the jam and the endless input above: mkfifo_chat.c that
\* repeats a line is ended by SIGPIPE when the other side has left.
ChatsConclude ==
    /\ (\A p \in Sides : /\ at[p] = "start" /\ \A n \in Pipes : held[p][n] = 0
                         /\ \A k \in DOMAIN calls[p] : /\ calls[p][k][1] # "unlink"
                                                       /\ calls[p][k][2] \in there)
         ~> (\A p \in Sides : calls[p] = <<>>)
    /\ (\A p \in Sides : calls[p] = <<>>)
         ~> ((\A p \in Sides : at[p] = "gone") \/ Jammed \/ Endless)
=============================================================================
