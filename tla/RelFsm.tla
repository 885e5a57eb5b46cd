------------------------------- MODULE RelFsm -------------------------------
(***************************************************************************)
(* One direction of a relay between two descriptors: the state machine     *)
(* struct rel_fsm_st and its fsm_driver, the same text in every relay of   *)
(* src/proIO, together with the two ends it reads and writes.              *)
(*                                                                         *)
(* A link is a record.  state, len, pos and buf are the state machine.     *)
(* The bytes of the source are numbered 1, 2, 3, ...: the first `taken'    *)
(* have been read, `avail' more can be read now, and src says what follows *)
(* them ("open": nothing yet, "eof", "err").  out holds the bytes the      *)
(* destination took, which has room for `room' more unless dst is "err".   *)
(* A definition marked "Variant" is a plausible mistake in the code that   *)
(* follows it; no specification uses it.                                   *)
(***************************************************************************)
EXTENDS Integers, Sequences

CONSTANTS BUFSIZE,
          Total,     \* bound: the bytes that arrive for 12 and for 21
          Endings,   \* the ways a terminal may fail or end
          Space      \* bound: the bytes a destination buffers

Dirs == {"12", "21"}

ASSUME RelAssumption ==
    /\ BUFSIZE \in Nat \ {0}
    /\ Total \in [Dirs -> Nat] /\ Space \in Nat

Cells == 0 .. BUFSIZE - 1

States == {"R", "W", "EX", "T"}

Link == [state : States, len : Int, pos : Nat, buf : [Cells -> Nat],
         taken : Nat, avail : Nat, src : {"open", "eof", "err"},
         out : Seq(Nat), room : Nat, dst : {"open", "err"}]

\* buf is uninitialised: 0 is no byte of the source.  The destination has taken
\* nothing yet and makes room when it likes.
NewLink ==
    [state |-> "R", len |-> 0, pos |-> 0, buf |-> [c \in Cells |-> 0],
     taken |-> 0, avail |-> 0, src |-> "open",
     out |-> <<>>, room |-> 0, dst |-> "open"]

Least(a, b) == IF a < b THEN a ELSE b

Readable(l) == l.avail > 0 \/ l.src # "open"

Writable(l) == l.room > 0 \/ l.dst = "err"

\* read(sfd, buf, BUFSIZE) on a non-blocking descriptor.
ReadStep(l) ==
    CASE l.src = "err"                  -> {[l EXCEPT !.len = -1, !.state = "EX"]}
      [] l.src # "err" /\ l.avail > 0   ->
           {[l EXCEPT !.len = n, !.pos = 0, !.state = "W",
                      !.buf = [c \in Cells |-> IF c < n THEN l.taken + c + 1 ELSE @[c]],
                      !.taken = @ + n, !.avail = @ - n] : n \in 1 .. Least(l.avail, BUFSIZE)}
      [] l.src = "eof" /\ l.avail = 0   -> {[l EXCEPT !.len = 0, !.state = "T"]}
      [] l.src = "open" /\ l.avail = 0  -> {[l EXCEPT !.len = -1]}

\* Variant: a partial write starts again at the beginning of the buffer.
WriteStepFromStart(l) ==
    CASE l.dst = "err"                  -> {[l EXCEPT !.state = "EX"]}
      [] l.dst = "open" /\ l.room = 0   -> {l}
      [] l.dst = "open" /\ l.room > 0   ->
           {[l EXCEPT !.len = @ - n,
                      !.out = @ \o [k \in 1 .. n |-> l.buf[k - 1]],
                      !.room = @ - n,
                      !.state = IF l.len = n THEN "R" ELSE "W"] : n \in 1 .. Least(l.len, l.room)}

\* write(dfd, buf + pos, len) on a non-blocking descriptor.
WriteStep(l) ==
    CASE l.dst = "err"                  -> {[l EXCEPT !.state = "EX"]}
      [] l.dst = "open" /\ l.room = 0   -> {l}
      [] l.dst = "open" /\ l.room > 0   ->
           {[l EXCEPT !.pos = @ + n, !.len = @ - n,
                      !.out = @ \o [k \in 1 .. n |-> l.buf[l.pos + k - 1]],
                      !.room = @ - n,
                      !.state = IF l.len = n THEN "R" ELSE "W"] : n \in 1 .. Least(l.len, l.room)}

\* Variant: after an error the machine stays where it is.
fsm_driver_stuck(l) ==
    CASE l.state = "R"          -> ReadStep(l)
      [] l.state = "W"          -> WriteStep(l)
      [] l.state \in {"EX","T"} -> {l}

\* The links that fsm_driver may make of l.
fsm_driver(l) ==
    CASE l.state = "R"  -> ReadStep(l)
      [] l.state = "W"  -> WriteStep(l)
      [] l.state = "EX" -> {[l EXCEPT !.state = "T"]}
      [] l.state = "T"  -> {l}

-----------------------------------------------------------------------------
\* What the two ends of direction d do by themselves: at most Total[d] bytes
\* arrive, and one of the Endings may come: the end of input ("eof"), an error
\* of the source ("err") or of the destination ("dst").
EndStep(l, d) ==
      {[l EXCEPT !.avail = @ + 1] : x \in {x \in {l} : x.src = "open" /\ x.taken + x.avail < Total[d]}}
    \cup {[l EXCEPT !.src = s] : s \in {s \in Endings \cap {"eof", "err"} : l.src = "open"}}
    \cup {[l EXCEPT !.dst = "err"] : x \in Endings \cap {"dst"}}

\* The reader of the destination makes room, up to Space bytes.  It is seen
\* only by a machine that writes.
Drain(l) ==
    {[l EXCEPT !.room = @ + 1] : x \in {x \in {l} : x.room < Space /\ x.state = "W"}}

-----------------------------------------------------------------------------
\* The destination has got the bytes of the source in order, each once, and
\* buf + pos holds what comes next.
LinkInOrder(l) ==
    /\ \A k \in 1 .. Len(l.out) : l.out[k] = k
    /\ l.state = "W" =>
         /\ l.len > 0 /\ l.pos + l.len <= BUFSIZE
         /\ l.taken = Len(l.out) + l.len
         /\ \A k \in 0 .. l.len - 1 : l.buf[l.pos + k] = Len(l.out) + k + 1
    /\ l.state = "R" \/ (l.state = "T" /\ l.dst = "open") => l.taken = Len(l.out)
=============================================================================
