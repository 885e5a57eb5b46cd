----------------------------- MODULE RelayProofs -----------------------------
(***************************************************************************)
(* Proofs about Relay and Relayer, for any buffer, any number of bytes,    *)
(* callers and slots.                                                      *)
(*                                                                         *)
(* Both rest on the same lemmas: fsm_driver, and whatever the terminals    *)
(* do, keep each direction in order.  LinkInOrder is not preserved by      *)
(* itself, since it says nothing about a machine in STATE_EX: LinkInv adds *)
(* what such a machine has delivered.                                      *)
(***************************************************************************)
EXTENDS Relay, Relayer, SequenceTheorems, FiniteSetTheorems, WellFoundedInduction, TLAPS

\* A machine in STATE_EX whose destination works has failed in a read, and has
\* written all it had read before.
LinkInv(l) ==
    /\ l \in Link
    /\ LinkInOrder(l)
    /\ l.state = "EX" /\ l.dst = "open" => l.taken = Len(l.out)

\* The events reported for machine 12 hold until it is driven, and those for
\* machine 21 also while machine 12 is driven.
ReadyInv ==
    /\ pc = "drive12" /\ wait # "busy" /\ Selected12 => ~WouldBlock(fsm12)
    /\ pc \in {"drive12", "drive21"} /\ wait \in {"poll", "epoll"} /\ Selected21 => ~WouldBlock(fsm21)

Inv ==
    /\ TypeOK
    /\ LinkInv(fsm12) /\ LinkInv(fsm21)
    /\ ReadyInv

-----------------------------------------------------------------------------
\* What each program point of rel_addjob and of thr_relayer means for the mutex.
MutexInv ==
    /\ \A c \in Callers : apc[c] \in {"find", "store", "reject"} <=> mut = c
    /\ rpc = "scan" <=> mut = "relayer"

\* The slot a caller is about to fill is free.
FoundInv == \A c \in Callers : apc[c] = "store" => pos[c] \in FreeSlots

\* The jobs in the table are those that were added, each in one slot.
TableInv ==
    /\ \A i \in Slots : rel_job[i] # NULL => apc[rel_job[i]] = "added"
    /\ \A i, k \in Slots : rel_job[i] = rel_job[k] /\ rel_job[i] # NULL => i = k
    /\ \A c \in Callers : apc[c] = "added" => \E i \in Slots : rel_job[i] = c

\* The descriptors are non-blocking from the call on, until it is refused.
FlagInv ==
    \A c \in Callers :
      /\ apc[c] \in {"lock", "find", "store", "reject", "added"} => nonblock[c] = {"fd1", "fd2"}
      /\ apc[c] = "rejected" => job_state[c] = "freed" /\ nonblock[c] = saved[c]

\* The links of every job are in order, and both machines of one that is over
\* have stopped.
JobInv ==
    \A c \in Callers, d \in Dirs :
      /\ LinkInv(fsm[c][d])
      /\ job_state[c] = "OVER" => fsm[c][d].state = "T"

RelayerInv ==
    /\ RelayerTypeOK
    /\ MutexInv
    /\ FoundInv
    /\ TableInv
    /\ FlagInv
    /\ JobInv

-----------------------------------------------------------------------------
\* The links.

\* The fields of a link have their types.
LEMMA LinkFields ==
    ASSUME NEW l \in Link
    PROVE  /\ l.state \in States /\ l.len \in Int /\ l.pos \in Nat /\ l.buf \in [Cells -> Nat]
           /\ l.taken \in Nat /\ l.avail \in Nat /\ l.src \in {"open", "eof", "err"}
           /\ l.out \in Seq(Nat) /\ Len(l.out) \in Nat /\ l.room \in Nat /\ l.dst \in {"open", "err"}
  BY DEF Link

\* A fresh link is in order.
LEMMA NewLinkInv == LinkInv(NewLink)
<1>1. NewLink.buf \in [Cells -> Nat]
  BY DEF NewLink
<1>2. NewLink \in Link
  BY <1>1 DEF NewLink, Link, States
<1>3. Len(NewLink.out) = 0 /\ NewLink.state = "R" /\ NewLink.taken = 0
  BY DEF NewLink
<1> QED BY <1>2, <1>3 DEF LinkInv, LinkInOrder

\* A read that returns n bytes fills the first n cells with the bytes after
\* those taken so far, and the machine is to write them from the start.
LEMMA ReadSome ==
    ASSUME NEW l, LinkInv(l), l.state = "R",
           NEW n \in 1 .. Least(l.avail, BUFSIZE), NEW k,
           k = [l EXCEPT !.len = n, !.pos = 0, !.state = "W",
                         !.buf = [c \in Cells |-> IF c < n THEN l.taken + c + 1 ELSE @[c]],
                         !.taken = @ + n, !.avail = @ - n]
    PROVE  LinkInv(k)
<1>1. l \in Link /\ LinkInOrder(l)
  BY DEF LinkInv
<1>2. /\ n \in Nat /\ n > 0 /\ n <= l.avail /\ n <= BUFSIZE /\ BUFSIZE \in Nat
      /\ l.taken \in Nat /\ l.avail \in Nat /\ Len(l.out) \in Nat
  BY <1>1, LinkFields, RelAssumption DEF Least
<1>3. l.taken = Len(l.out)
  BY <1>1 DEF LinkInOrder
<1>4. /\ k.state = "W" /\ k.len = n /\ k.pos = 0 /\ k.taken = l.taken + n /\ k.avail = l.avail - n
      /\ k.src = l.src /\ k.out = l.out /\ k.room = l.room /\ k.dst = l.dst
      /\ k.buf = [c \in Cells |-> IF c < n THEN l.taken + c + 1 ELSE l.buf[c]]
  BY <1>1 DEF Link
<1>5. k.buf \in [Cells -> Nat]
  BY <1>1, <1>2, <1>4, LinkFields DEF Cells
<1>6. k \in Link
  <2>1. k.len \in Int /\ k.pos \in Nat /\ k.taken \in Nat /\ k.avail \in Nat /\ k.state \in States
    BY <1>2, <1>4 DEF States
  <2> QED BY <1>1, <1>4, <1>5, <2>1, LinkFields DEF Link
<1>7. \A c \in 0 .. n - 1 : k.buf[0 + c] = Len(l.out) + c + 1
  BY <1>2, <1>3, <1>4 DEF Cells
<1>8. LinkInOrder(k)
  BY <1>1, <1>2, <1>3, <1>4, <1>7 DEF LinkInOrder
<1> QED BY <1>4, <1>6, <1>8 DEF LinkInv

\* A write that takes n bytes hands on the next n bytes of the source.
LEMMA WriteSome ==
    ASSUME NEW l, LinkInv(l), l.state = "W",
           NEW n \in 1 .. Least(l.len, l.room), NEW k,
           k = [l EXCEPT !.pos = @ + n, !.len = @ - n,
                         !.out = @ \o [j \in 1 .. n |-> l.buf[l.pos + j - 1]],
                         !.room = @ - n,
                         !.state = IF l.len = n THEN "R" ELSE "W"]
    PROVE  LinkInv(k)
<1> DEFINE t == [j \in 1 .. n |-> l.buf[l.pos + j - 1]]
<1>1. l \in Link /\ LinkInOrder(l)
  BY DEF LinkInv
<1>2. /\ n \in Nat /\ n > 0 /\ n <= l.len /\ n <= l.room /\ BUFSIZE \in Nat
      /\ l.taken \in Nat /\ l.len \in Int /\ l.pos \in Nat /\ l.room \in Nat
      /\ l.out \in Seq(Nat) /\ Len(l.out) \in Nat /\ l.buf \in [Cells -> Nat]
  BY <1>1, LinkFields, RelAssumption DEF Least
<1>3. /\ l.len > 0 /\ l.pos + l.len <= BUFSIZE /\ l.taken = Len(l.out) + l.len
      /\ \A j \in 0 .. l.len - 1 : l.buf[l.pos + j] = Len(l.out) + j + 1
      /\ \A j \in 1 .. Len(l.out) : l.out[j] = j
  BY <1>1 DEF LinkInOrder
<1>4. /\ k.state = (IF l.len = n THEN "R" ELSE "W") /\ k.len = l.len - n /\ k.pos = l.pos + n
      /\ k.taken = l.taken /\ k.avail = l.avail /\ k.buf = l.buf
      /\ k.src = l.src /\ k.out = l.out \o t /\ k.room = l.room - n /\ k.dst = l.dst
  BY <1>1 DEF Link
<1>5. t \in Seq(Nat) /\ Len(t) = n /\ \A j \in 1 .. n : t[j] = Len(l.out) + j
  <2>1. ASSUME NEW j \in 1 .. n PROVE l.buf[l.pos + j - 1] = Len(l.out) + j
    <3>1. j - 1 \in 0 .. l.len - 1 /\ l.pos + (j - 1) = l.pos + j - 1
      BY <1>2
    <3>2. l.buf[l.pos + (j - 1)] = Len(l.out) + (j - 1) + 1
      BY <1>3, <3>1
    <3>3. Len(l.out) + (j - 1) + 1 = Len(l.out) + j
      BY <1>2
    <3> QED BY <3>1, <3>2, <3>3
  <2>2. t \in [1 .. n -> Nat]
    BY <1>2, <2>1
  <2>3. \A j \in 1 .. n : t[j] = Len(l.out) + j
    BY <2>1
  <2> HIDE DEF t
  <2> QED BY <1>2, <2>2, <2>3
<1> HIDE DEF t
<1>6. /\ k.out \in Seq(Nat) /\ Len(k.out) = Len(l.out) + n
      /\ \A j \in 1 .. Len(l.out) + n : k.out[j] = j
  <2>1. /\ k.out \in Seq(Nat) /\ Len(k.out) = Len(l.out) + n
        /\ \A j \in 1 .. Len(l.out) + n :
              k.out[j] = IF j <= Len(l.out) THEN l.out[j] ELSE t[j - Len(l.out)]
    <3>1. ASSUME NEW u \in Seq(Nat), NEW v \in Seq(Nat)
          PROVE  /\ u \o v \in Seq(Nat) /\ Len(u \o v) = Len(u) + Len(v)
                 /\ \A j \in 1 .. Len(u) + Len(v) :
                      (u \o v)[j] = IF j <= Len(u) THEN u[j] ELSE v[j - Len(u)]
      BY ConcatProperties
    <3>2. /\ l.out \o t \in Seq(Nat) /\ Len(l.out \o t) = Len(l.out) + n
          /\ \A j \in 1 .. Len(l.out) + n :
                (l.out \o t)[j] = IF j <= Len(l.out) THEN l.out[j] ELSE t[j - Len(l.out)]
      BY <1>2, <1>5, <3>1
    <3>3. k.out = l.out \o t
      BY <1>4
    <3> QED BY <3>2, <3>3
  <2>2. ASSUME NEW j \in 1 .. Len(l.out) + n PROVE k.out[j] = j
    <3>1. CASE j <= Len(l.out)
      BY <1>2, <1>3, <2>1, <3>1
    <3>2. CASE ~(j <= Len(l.out))
      <4>1. j - Len(l.out) \in 1 .. n /\ Len(l.out) + (j - Len(l.out)) = j
        BY <1>2, <3>2
      <4> QED BY <1>5, <2>1, <3>2, <4>1
    <3> QED BY <3>1, <3>2
  <2> QED BY <2>1, <2>2
<1>7. k \in Link
  <2>1. k.pos \in Nat /\ k.len \in Int /\ k.room \in Nat /\ k.state \in States
    BY <1>2, <1>4 DEF States
  <2> QED BY <1>1, <1>4, <1>6, <2>1, LinkFields DEF Link
<1>8. ASSUME k.state = "W"
      PROVE  /\ k.len > 0 /\ k.pos + k.len <= BUFSIZE /\ k.taken = Len(k.out) + k.len
             /\ \A j \in 0 .. k.len - 1 : k.buf[k.pos + j] = Len(k.out) + j + 1
  <2>1. k.len > 0 /\ k.pos + k.len <= BUFSIZE /\ k.taken = Len(k.out) + k.len
    BY <1>2, <1>3, <1>4, <1>6, <1>8
  <2>2. ASSUME NEW j \in 0 .. k.len - 1 PROVE k.buf[k.pos + j] = Len(k.out) + j + 1
    <3>0. k.len = l.len - n /\ k.pos = l.pos + n
      BY <1>4
    <3>1. n + j \in 0 .. l.len - 1 /\ k.pos + j = l.pos + (n + j)
      BY <1>2, <3>0
    <3>2. Len(l.out) + (n + j) + 1 = Len(k.out) + j + 1
      BY <1>2, <1>6
    <3> QED BY <1>3, <1>4, <3>1, <3>2
  <2> QED BY <2>1, <2>2
<1>9. k.state = "R" => k.taken = Len(k.out)
  BY <1>2, <1>3, <1>4, <1>6
<1>10. k.state \in {"R", "W"}
  BY <1>4
<1> QED BY <1>6, <1>7, <1>8, <1>9, <1>10 DEF LinkInv, LinkInOrder

\* Whatever read and write return, fsm_driver keeps a link in order.
LEMMA DriverInv ==
    ASSUME NEW l, LinkInv(l), NEW k \in fsm_driver(l)
    PROVE  LinkInv(k)
<1>0. /\ l \in Link /\ LinkInOrder(l) /\ l.state \in States
      /\ (l.avail > 0 => l.avail # 0) /\ (l.room > 0 => l.room # 0)
  BY LinkFields DEF LinkInv
<1>1. CASE l.state = "R"
  <2>0. k \in ReadStep(l)
    BY <1>1 DEF fsm_driver
  <2>1. CASE l.src = "err"
    <3>1. k = [l EXCEPT !.len = -1, !.state = "EX"]
      BY <2>0, <2>1 DEF ReadStep
    <3>2. k \in Link
      <4>1. k.len \in Int /\ k.state \in States
        BY <1>0, <3>1 DEF Link, States
      <4> QED BY <1>0, <3>1, <4>1 DEF Link
    <3>3. k.state = "EX" /\ k.taken = l.taken /\ k.out = l.out
      BY <1>0, <3>1 DEF Link
    <3> QED BY <1>0, <1>1, <3>2, <3>3 DEF LinkInv, LinkInOrder
  <2>2. CASE l.src # "err" /\ l.avail > 0
    <3>1. \E n \in 1 .. Least(l.avail, BUFSIZE) :
             k = [l EXCEPT !.len = n, !.pos = 0, !.state = "W",
                           !.buf = [c \in Cells |-> IF c < n THEN l.taken + c + 1 ELSE @[c]],
                           !.taken = @ + n, !.avail = @ - n]
      <4>1. k \in {[l EXCEPT !.len = n, !.pos = 0, !.state = "W",
                             !.buf = [c \in Cells |-> IF c < n THEN l.taken + c + 1 ELSE @[c]],
                             !.taken = @ + n, !.avail = @ - n] : n \in 1 .. Least(l.avail, BUFSIZE)}
        BY <1>0, <2>0, <2>2, Zenon DEF ReadStep
      <4> QED BY <4>1, Zenon
    <3> QED BY <1>1, <3>1, ReadSome
  <2>3. CASE l.src = "eof" /\ l.avail = 0
    <3>1. k = [l EXCEPT !.len = 0, !.state = "T"]
      BY <2>0, <2>3 DEF ReadStep
    <3>2. k \in Link
      <4>1. k.len \in Int /\ k.state \in States
        BY <1>0, <3>1 DEF Link, States
      <4> QED BY <1>0, <3>1, <4>1 DEF Link
    <3>3. k.state = "T" /\ k.taken = l.taken /\ k.out = l.out
      BY <1>0, <3>1 DEF Link
    <3> QED BY <1>0, <1>1, <3>2, <3>3 DEF LinkInv, LinkInOrder
  <2>4. CASE l.src = "open" /\ l.avail = 0
    <3>1. k = [l EXCEPT !.len = -1]
      BY <2>0, <2>4 DEF ReadStep
    <3>2. k \in Link
      <4>1. k.len \in Int
        BY <1>0, <3>1 DEF Link
      <4> QED BY <1>0, <3>1, <4>1 DEF Link
    <3>3. k.state = "R" /\ k.taken = l.taken /\ k.out = l.out
      BY <1>0, <1>1, <3>1 DEF Link
    <3> QED BY <1>0, <1>1, <3>2, <3>3 DEF LinkInv, LinkInOrder
  <2> QED BY <1>0, <2>1, <2>2, <2>3, <2>4, LinkFields
<1>2. CASE l.state = "W"
  <2>0. k \in WriteStep(l)
    BY <1>2 DEF fsm_driver
  <2>1. CASE l.dst = "err"
    <3>1. k = [l EXCEPT !.state = "EX"]
      BY <2>0, <2>1 DEF WriteStep
    <3>2. k \in Link
      BY <1>0, <3>1 DEF Link, States
    <3>3. k.state = "EX" /\ k.dst = "err" /\ k.out = l.out
      BY <1>0, <2>1, <3>1 DEF Link
    <3> QED BY <1>0, <3>2, <3>3 DEF LinkInv, LinkInOrder
  <2>2. CASE l.dst = "open" /\ l.room = 0
    BY <2>0, <2>2 DEF WriteStep
  <2>3. CASE l.dst = "open" /\ l.room > 0
    <3>1. \E n \in 1 .. Least(l.len, l.room) :
             k = [l EXCEPT !.pos = @ + n, !.len = @ - n,
                           !.out = @ \o [j \in 1 .. n |-> l.buf[l.pos + j - 1]],
                           !.room = @ - n,
                           !.state = IF l.len = n THEN "R" ELSE "W"]
      <4>1. k \in {[l EXCEPT !.pos = @ + n, !.len = @ - n,
                             !.out = @ \o [j \in 1 .. n |-> l.buf[l.pos + j - 1]],
                             !.room = @ - n,
                             !.state = IF l.len = n THEN "R" ELSE "W"] : n \in 1 .. Least(l.len, l.room)}
        BY <1>0, <2>0, <2>3, Zenon DEF WriteStep
      <4> QED BY <4>1, Zenon
    <3> QED BY <1>2, <3>1, WriteSome
  <2> QED BY <1>0, <2>1, <2>2, <2>3, LinkFields
<1>3. CASE l.state = "EX"
  <2>1. k = [l EXCEPT !.state = "T"]
    BY <1>3 DEF fsm_driver
  <2>2. k \in Link
    BY <1>0, <2>1 DEF Link, States
  <2>3. k.state = "T" /\ k.dst = l.dst /\ k.taken = l.taken /\ k.out = l.out
    BY <1>0, <2>1 DEF Link
  <2> QED BY <1>0, <1>3, <2>2, <2>3 DEF LinkInv, LinkInOrder
<1>4. CASE l.state = "T"
  BY <1>4 DEF fsm_driver
<1> QED BY <1>0, <1>1, <1>2, <1>3, <1>4 DEF States

\* What the terminals do: bytes arrive and room is made, a source may end, a
\* destination fail; the machine stays where it is, and what it could read or
\* write without blocking it still can.
LEMMA TerminalInv ==
    ASSUME NEW l, LinkInv(l), NEW d \in Dirs, NEW k \in EndStep(l, d) \cup Drain(l)
    PROVE  /\ LinkInv(k)
           /\ k.state = l.state
           /\ Readable(l) => Readable(k)
           /\ Writable(l) => Writable(k)
<1>0. l \in Link /\ LinkInOrder(l)
  BY DEF LinkInv
<1>1. CASE k = [l EXCEPT !.avail = @ + 1]
  <2>1. k \in Link
    <3>1. k.avail \in Nat
      BY <1>0, <1>1 DEF Link
    <3> QED BY <1>0, <1>1, <3>1 DEF Link
  <2>2. /\ k.state = l.state /\ k.len = l.len /\ k.pos = l.pos /\ k.buf = l.buf /\ k.taken = l.taken
        /\ k.out = l.out /\ k.dst = l.dst /\ k.src = l.src /\ k.room = l.room /\ k.avail = l.avail + 1
    BY <1>0, <1>1 DEF Link
  <2> QED BY <1>0, <2>1, <2>2, LinkFields DEF LinkInv, LinkInOrder, Readable, Writable
<1>2. CASE k = [l EXCEPT !.room = @ + 1]
  <2>1. k \in Link
    <3>1. k.room \in Nat
      BY <1>0, <1>2 DEF Link
    <3> QED BY <1>0, <1>2, <3>1 DEF Link
  <2>2. /\ k.state = l.state /\ k.len = l.len /\ k.pos = l.pos /\ k.buf = l.buf /\ k.taken = l.taken
        /\ k.out = l.out /\ k.dst = l.dst /\ k.src = l.src /\ k.avail = l.avail /\ k.room = l.room + 1
    BY <1>0, <1>2 DEF Link
  <2> QED BY <1>0, <2>1, <2>2, LinkFields DEF LinkInv, LinkInOrder, Readable, Writable
<1>3. CASE \E s \in {"eof", "err"} : k = [l EXCEPT !.src = s]
  <2>1. k \in Link
    BY <1>0, <1>3, LinkFields DEF Link
  <2>2. /\ k.state = l.state /\ k.len = l.len /\ k.pos = l.pos /\ k.buf = l.buf /\ k.taken = l.taken
        /\ k.out = l.out /\ k.dst = l.dst /\ k.src # "open" /\ k.avail = l.avail /\ k.room = l.room
    BY <1>0, <1>3 DEF Link
  <2> QED BY <1>0, <2>1, <2>2 DEF LinkInv, LinkInOrder, Readable, Writable
<1>4. CASE k = [l EXCEPT !.dst = "err"]
  <2>1. k \in Link
    BY <1>0, <1>4, LinkFields DEF Link
  <2>2. /\ k.state = l.state /\ k.len = l.len /\ k.pos = l.pos /\ k.buf = l.buf /\ k.taken = l.taken
        /\ k.out = l.out /\ k.dst = "err" /\ k.src = l.src /\ k.avail = l.avail /\ k.room = l.room
    BY <1>0, <1>4 DEF Link
  <2> QED BY <1>0, <2>1, <2>2 DEF LinkInv, LinkInOrder, Readable, Writable
<1> QED BY <1>1, <1>2, <1>3, <1>4 DEF EndStep, Drain

-----------------------------------------------------------------------------
\* Relay.

LEMMA RelayInitInv == Init => Inv
<1> SUFFICES ASSUME Init PROVE Inv
  OBVIOUS
<1>1. LinkInv(fsm12) /\ LinkInv(fsm21)
  BY NewLinkInv DEF Init
<1>2. TypeOK
  BY <1>1 DEF Init, TypeOK, LinkInv
<1>3. ReadyInv
  BY DEF Init, ReadyInv
<1> QED BY <1>1, <1>2, <1>3 DEF Inv

\* What a wait reports is asked for by the state of a machine, and true: the
\* machine can be driven without blocking.
LEMMA HappenedFact ==
    /\ Happened \subseteq {"in1", "out1", "in2", "out2"}
    /\ Happened \cap {"in1", "out2"} # {} => ~WouldBlock(fsm12)
    /\ Happened \cap {"in2", "out1"} # {} => ~WouldBlock(fsm21)
<1>1. "in1" \in Happened => fsm12.state = "R" /\ Readable(fsm12)
  BY DEF Happened, Events
<1>2. "out2" \in Happened => fsm12.state = "W" /\ Writable(fsm12)
  BY DEF Happened, Events
<1>3. "in2" \in Happened => fsm21.state = "R" /\ Readable(fsm21)
  BY DEF Happened, Events
<1>4. "out1" \in Happened => fsm21.state = "W" /\ Writable(fsm21)
  BY DEF Happened, Events
<1>5. Happened \subseteq {"in1", "out1", "in2", "out2"}
  BY DEF Happened, Events
<1> QED BY <1>1, <1>2, <1>3, <1>4, <1>5 DEF WouldBlock

\* A machine that has left its two waiting states is never blocked.
LEMMA EndingFact ==
    ASSUME NEW l
    PROVE  (Ending(l) => ~WouldBlock(l)) /\ (~Waiting(l) => ~WouldBlock(l))
  BY DEF Ending, Waiting, WouldBlock

\* The four ways to wait.
LEMMA WaitInv ==
    ASSUME Inv, Wait
    PROVE  Inv'
<1>0. TypeOK /\ LinkInv(fsm12) /\ LinkInv(fsm21)
  BY DEF Inv
<1>1. UNCHANGED <<wait, fsm12, fsm21>> /\ pc' = "drive12"
  BY DEF Wait, BusyNext, SelectWait, PollWait, EpollWait
<1>2. (LinkInv(fsm12) /\ LinkInv(fsm21))'
  BY <1>0, <1>1
<1>3. Events \subseteq {"in1", "out1", "in2", "out2"}
  BY DEF Events
<1>4. TypeOK'
  <2>1. (revents \subseteq {"in1", "out1", "in2", "out2"})'
    BY <1>0, <1>3, HappenedFact DEF Wait, BusyNext, SelectWait, PollWait, EpollWait, TypeOK
  <2> QED BY <1>0, <1>1, <2>1 DEF TypeOK
<1>5. ASSUME wait # "busy"
      PROVE  revents' \subseteq Happened \/ (~Waiting(fsm12) /\ ~Waiting(fsm21))
  BY <1>0, <1>5 DEF Wait, BusyNext, SelectWait, PollWait, EpollWait, TypeOK
<1>6. ReadyInv'
  <2>1. ASSUME wait # "busy", Selected12' PROVE ~WouldBlock(fsm12)
    <3>1. revents' \cap {"in1", "out2"} # {} \/ Ending(fsm12)
      BY <1>1, <2>1 DEF Selected12, Ending
    <3> QED BY <1>5, <2>1, <3>1, HappenedFact, EndingFact
  <2>2. ASSUME wait \in {"poll", "epoll"}, Selected21' PROVE ~WouldBlock(fsm21)
    <3>1. revents' \cap {"in2", "out1"} # {} \/ Ending(fsm21)
      BY <1>1, <2>2 DEF Selected21, Ending
    <3> QED BY <1>5, <2>2, <3>1, HappenedFact, EndingFact
  <2> QED BY <1>1, <2>1, <2>2 DEF ReadyInv, WouldBlock, Readable, Writable
<1> QED BY <1>2, <1>4, <1>6 DEF Inv

LEMMA DriveInv ==
    ASSUME Inv, Drive12 \/ Drive21
    PROVE  Inv'
<1>0. TypeOK /\ LinkInv(fsm12) /\ LinkInv(fsm21) /\ ReadyInv
  BY DEF Inv
<1>1. CASE Drive12
  <2>1. LinkInv(fsm12')
    BY <1>0, <1>1, DriverInv DEF Drive12
  <2>2. UNCHANGED <<wait, fsm21, revents>> /\ pc = "drive12" /\ pc' = "drive21"
    BY <1>1 DEF Drive12
  <2>3. (LinkInv(fsm12) /\ LinkInv(fsm21))'
    BY <1>0, <2>1, <2>2
  <2>4. TypeOK'
    BY <1>0, <2>2, <2>3 DEF TypeOK, LinkInv
  <2>5. (Selected21 <=> Selected21') /\ (WouldBlock(fsm21) <=> WouldBlock(fsm21)')
    BY <2>2 DEF Selected21, WouldBlock, Readable, Writable, Waiting, Ending
  <2>6. ReadyInv'
    BY <1>0, <2>2, <2>5 DEF ReadyInv
  <2> QED BY <2>3, <2>4, <2>6 DEF Inv
<1>2. CASE Drive21
  <2>1. LinkInv(fsm21')
    BY <1>0, <1>2, DriverInv DEF Drive21
  <2>2. UNCHANGED <<wait, fsm12, revents>> /\ pc' = "loop"
    BY <1>2 DEF Drive21
  <2>3. (LinkInv(fsm12) /\ LinkInv(fsm21))'
    BY <1>0, <2>1, <2>2
  <2>4. TypeOK'
    BY <1>0, <2>2, <2>3 DEF TypeOK, LinkInv
  <2>5. ReadyInv'
    BY <2>2 DEF ReadyInv
  <2> QED BY <2>3, <2>4, <2>5 DEF Inv
<1> QED BY <1>1, <1>2

\* The terminals.
LEMMA TerminalsInv ==
    ASSUME Inv, Ends \/ Drain12 \/ Drain21
    PROVE  Inv'
<1>0. TypeOK /\ LinkInv(fsm12) /\ LinkInv(fsm21) /\ ReadyInv
  BY DEF Inv
<1>1. UNCHANGED <<wait, pc, revents>>
  BY DEF Ends, Drain12, Drain21
<1>2. /\ fsm12' \in EndStep(fsm12, "12") \cup Drain(fsm12) \/ UNCHANGED fsm12
      /\ fsm21' \in EndStep(fsm21, "21") \cup Drain(fsm21) \/ UNCHANGED fsm21
  BY DEF Ends, Drain12, Drain21
<1>3. /\ LinkInv(fsm12') /\ fsm12'.state = fsm12.state
      /\ Readable(fsm12) => Readable(fsm12')
      /\ Writable(fsm12) => Writable(fsm12')
  BY <1>0, <1>2, TerminalInv DEF Dirs
<1>4. /\ LinkInv(fsm21') /\ fsm21'.state = fsm21.state
      /\ Readable(fsm21) => Readable(fsm21')
      /\ Writable(fsm21) => Writable(fsm21')
  BY <1>0, <1>2, TerminalInv DEF Dirs
<1>5. TypeOK'
  BY <1>0, <1>1, <1>3, <1>4 DEF TypeOK, LinkInv
<1>6. (Selected12' <=> Selected12) /\ (Selected21' <=> Selected21)
  BY <1>1, <1>3, <1>4 DEF Selected12, Selected21, Waiting, Ending
<1>7. (WouldBlock(fsm12') => WouldBlock(fsm12)) /\ (WouldBlock(fsm21') => WouldBlock(fsm21))
  BY <1>3, <1>4 DEF WouldBlock
<1>8. ReadyInv'
  BY <1>0, <1>1, <1>6, <1>7 DEF ReadyInv
<1> QED BY <1>3, <1>4, <1>5, <1>8 DEF Inv

LEMMA RelayStepInv == Inv /\ [Next]_vars => Inv'
<1> SUFFICES ASSUME Inv, [Next]_vars PROVE Inv'
  OBVIOUS
<1>1. CASE Finish
  BY <1>1 DEF Finish, Inv, TypeOK, ReadyInv
<1>2. CASE UNCHANGED vars
  BY <1>2 DEF vars, Inv, TypeOK, ReadyInv, Selected12, Selected21, Waiting, Ending,
              WouldBlock, Readable, Writable
<1> QED BY <1>1, <1>2, WaitInv, DriveInv, TerminalsInv DEF Next, relay

LEMMA RelayInvariance == Spec => []Inv
  BY RelayInitInv, RelayStepInv, PTL DEF Spec

\* In all four relays each terminal gets the other's bytes in order, none lost
\* and none twice, for any size of the buffer, short reads, partial writes and
\* errors of either side included.
THEOREM BytesInOrder == Spec => []InOrder
<1>1. Inv => InOrder
  BY DEF Inv, LinkInv, InOrder
<1> QED BY <1>1, RelayInvariance, PTL

\* The relays that wait for events drive a machine only when it can read or
\* write: an event, although it is reported before the other machine is driven,
\* is still true when it is used.
THEOREM CallsNotFutile == Spec => []NoFutileCall
<1>1. Inv => NoFutileCall
  BY DEF Inv, ReadyInv, NoFutileCall
<1> QED BY <1>1, RelayInvariance, PTL

-----------------------------------------------------------------------------
\* Relayer.

\* get_free_pos_unlocked returns -1 or the index of a free slot.
LEMMA FreePosFact ==
    get_free_pos_unlocked = -1 \/ get_free_pos_unlocked \in FreeSlots
<1>1. CASE FreeSlots = {}
  BY <1>1 DEF get_free_pos_unlocked
<1>2. CASE FreeSlots # {}
  <2>1. FreeSlots \subseteq Nat
    BY RelayerAssumption DEF FreeSlots, Slots
  <2>2. PICK i \in FreeSlots : \A k \in FreeSlots : ~(<<k, i>> \in OpToRel(<, Nat))
    BY <1>2, <2>1, NatLessThanWellFounded, WFMin, Zenon
  <2>3. \A k \in FreeSlots : i <= k
    <3> SUFFICES ASSUME NEW k \in FreeSlots PROVE ~(k < i)
      BY <2>1
    <3>1. k < i => <<k, i>> \in OpToRel(<, Nat)
      BY <2>1 DEF OpToRel
    <3> QED BY <2>2, <3>1
  <2> QED BY <1>2, <2>3 DEF get_free_pos_unlocked
<1> QED BY <1>1, <1>2

LEMMA RelayerInitInv == RelayerInit => RelayerInv
<1> SUFFICES ASSUME RelayerInit PROVE RelayerInv
  OBVIOUS
<1> USE DEF RelayerInit
<1>1. JobInv
  BY NewLinkInv DEF JobInv
<1>2. RelayerTypeOK
  <2>1. NewLink \in Link /\ 0 \in 0 .. REL_JOBMAX
    BY NewLinkInv, RelayerAssumption DEF LinkInv
  <2> QED BY <2>1 DEF RelayerTypeOK
<1>3. MutexInv /\ FoundInv /\ TableInv /\ FlagInv
  BY RelayerAssumption DEF MutexInv, FoundInv, TableInv, FlagInv
<1> QED BY <1>1, <1>2, <1>3 DEF RelayerInv

LEMMA AddCallInv ==
    ASSUME RelayerInv, NEW c \in Callers, AddCall(c)
    PROVE  RelayerInv'
<1> USE DEF RelayerInv, RelayerTypeOK, AddCall, Goto, table
<1>1. RelayerTypeOK'
  OBVIOUS
<1>2. MutexInv'
  BY RelayerAssumption DEF MutexInv
<1>3. FoundInv' /\ TableInv'
  BY DEF FoundInv, FreeSlots, TableInv
<1>4. FlagInv'
  BY DEF FlagInv
<1>5. JobInv'
  BY DEF JobInv
<1> QED BY <1>1, <1>2, <1>3, <1>4, <1>5

LEMMA AddLockInv ==
    ASSUME RelayerInv, NEW c \in Callers, AddLock(c)
    PROVE  RelayerInv'
<1> USE DEF RelayerInv, RelayerTypeOK, AddLock, Goto, flags, relayer
<1>1. RelayerTypeOK'
  OBVIOUS
<1>2. MutexInv'
  BY RelayerAssumption DEF MutexInv
<1>3. FoundInv' /\ TableInv'
  BY DEF FoundInv, FreeSlots, TableInv
<1>4. FlagInv'
  BY DEF FlagInv
<1>5. JobInv'
  BY DEF JobInv
<1> QED BY <1>1, <1>2, <1>3, <1>4, <1>5

LEMMA AddFindInv ==
    ASSUME RelayerInv, NEW c \in Callers, AddFind(c)
    PROVE  RelayerInv'
<1> USE DEF RelayerInv, RelayerTypeOK, AddFind, Goto, flags, relayer, table
<1>0. /\ get_free_pos_unlocked = -1 \/ get_free_pos_unlocked \in FreeSlots
      /\ \A i \in FreeSlots : i \in Slots /\ ~(i < 0)
  BY FreePosFact, RelayerAssumption DEF FreeSlots, Slots
<1>1. RelayerTypeOK'
  BY <1>0
<1>2. MutexInv'
  BY RelayerAssumption DEF MutexInv
<1>3. FoundInv' /\ TableInv'
  BY <1>0 DEF FoundInv, FreeSlots, TableInv
<1>4. FlagInv'
  BY DEF FlagInv
<1>5. JobInv'
  BY DEF JobInv
<1> QED BY <1>1, <1>2, <1>3, <1>4, <1>5

\* The slot that was found is still free, since the mutex was held all along.
LEMMA AddStoreInv ==
    ASSUME RelayerInv, NEW c \in Callers, AddStore(c)
    PROVE  RelayerInv'
<1> USE DEF RelayerInv, RelayerTypeOK, AddStore, Goto, flags, relayer
<1>0. /\ pos[c] \in Slots /\ rel_job[pos[c]] = NULL /\ c # NULL
      /\ \A i \in Slots : rel_job[i] # c
  BY RelayerAssumption DEF FoundInv, FreeSlots, TableInv
<1>1. RelayerTypeOK'
  BY <1>0
<1>2. MutexInv'
  BY RelayerAssumption DEF MutexInv
<1>3. FoundInv'
  BY DEF FoundInv, FreeSlots, MutexInv
<1>4. TableInv'
  <2>1. rel_job' = [rel_job EXCEPT ![pos[c]] = c] /\ apc' = [apc EXCEPT ![c] = "added"]
    OBVIOUS
  <2>2. \A i \in Slots : rel_job'[i] = IF i = pos[c] THEN c ELSE rel_job[i]
    BY <1>0, <2>1
  <2>3. \A e \in Callers : apc'[e] = IF e = c THEN "added" ELSE apc[e]
    BY <2>1
  <2>4. \A i \in Slots : rel_job'[i] # NULL => apc'[rel_job'[i]] = "added"
    BY <1>0, <2>2, <2>3 DEF TableInv
  <2>5. \A i, k \in Slots : rel_job'[i] = rel_job'[k] /\ rel_job'[i] # NULL => i = k
    BY <1>0, <2>2 DEF TableInv
  <2>6. ASSUME NEW e \in Callers, apc'[e] = "added" PROVE \E i \in Slots : rel_job'[i] = e
    <3>1. CASE e = c
      BY <1>0, <2>2, <3>1
    <3>2. CASE e # c
      <4>1. PICK i \in Slots : rel_job[i] = e
        BY <2>3, <2>6, <3>2 DEF TableInv
      <4>2. i # pos[c]
        BY <1>0, <4>1, RelayerAssumption
      <4> QED BY <2>2, <4>1, <4>2
    <3> QED BY <3>1, <3>2
  <2> QED BY <2>4, <2>5, <2>6 DEF TableInv
<1>5. FlagInv'
  BY DEF FlagInv
<1>6. JobInv'
  BY DEF JobInv
<1> QED BY <1>1, <1>2, <1>3, <1>4, <1>5, <1>6

LEMMA AddRejectInv ==
    ASSUME RelayerInv, NEW c \in Callers, AddReject(c)
    PROVE  RelayerInv'
<1> USE DEF RelayerInv, RelayerTypeOK, AddReject, Goto, relayer
<1>1. RelayerTypeOK'
  OBVIOUS
<1>2. MutexInv'
  BY RelayerAssumption DEF MutexInv
<1>3. FoundInv' /\ TableInv'
  BY DEF FoundInv, FreeSlots, TableInv
<1>4. FlagInv'
  BY DEF FlagInv
<1>5. JobInv'
  BY DEF JobInv
<1> QED BY <1>1, <1>2, <1>3, <1>4, <1>5

\* The relayer's steps other than driving a job change the mutex and its index.
LEMMA RelayerWalkInv ==
    ASSUME RelayerInv, RelayerLock \/ RelayerSkip \/ RelayerUnlock
    PROVE  RelayerInv'
<1> USE DEF RelayerInv
<1>1. UNCHANGED <<rel_job, caller, job_state, fsm, flags>>
  BY DEF RelayerLock, RelayerSkip, RelayerUnlock, table
<1>2. RelayerTypeOK'
  <2>1. mut' \in Callers \cup {"relayer", NULL} /\ rpc' \in {"none", "lock", "scan"}
    BY DEF RelayerTypeOK, RelayerLock, RelayerSkip, RelayerUnlock, table
  <2>2. ri' \in 0 .. REL_JOBMAX
    BY RelayerAssumption DEF RelayerTypeOK, RelayerLock, RelayerSkip, RelayerUnlock, Slots
  <2> QED BY <1>1, <2>1, <2>2 DEF RelayerTypeOK, caller, flags
<1>3. MutexInv'
  BY <1>1, RelayerAssumption
     DEF MutexInv, RelayerTypeOK, RelayerLock, RelayerSkip, RelayerUnlock, table, caller
<1>4. FoundInv' /\ TableInv'
  BY <1>1 DEF FoundInv, FreeSlots, TableInv, caller
<1>5. FlagInv' /\ JobInv'
  BY <1>1 DEF FlagInv, JobInv, caller, flags
<1> QED BY <1>2, <1>3, <1>4, <1>5

\* A job is over exactly when both of its machines have stopped.
LEMMA RelayerDriveInv ==
    ASSUME RelayerInv, RelayerDrive
    PROVE  RelayerInv'
<1> USE DEF RelayerInv
<1> DEFINE c == rel_job[ri]
<1>1. /\ ri \in Slots /\ c \in Callers /\ job_state[c] = "RUNNING"
      /\ UNCHANGED <<table, caller, flags, rpc>> /\ ri' = ri + 1
  BY DEF RelayerDrive, RelayerTypeOK
<1>2. PICK l12 \in fsm_driver(fsm[c]["12"]), l21 \in fsm_driver(fsm[c]["21"]) :
        /\ fsm' = [fsm EXCEPT ![c] = [d \in Dirs |-> IF d = "12" THEN l12 ELSE l21]]
        /\ job_state' = [job_state EXCEPT ![c] =
                           IF l12.state = "T" /\ l21.state = "T" THEN "OVER" ELSE @]
  BY DEF RelayerDrive
<1> HIDE DEF c
<1>3. LinkInv(l12) /\ LinkInv(l21)
  BY <1>1, <1>2, DriverInv DEF JobInv, Dirs
<1>4. \A e \in Callers, d \in Dirs :
        fsm'[e][d] = IF e = c THEN IF d = "12" THEN l12 ELSE l21 ELSE fsm[e][d]
  BY <1>1, <1>2 DEF RelayerTypeOK
<1>5. \A e \in Callers :
        job_state'[e] = IF e = c THEN IF l12.state = "T" /\ l21.state = "T" THEN "OVER" ELSE "RUNNING"
                        ELSE job_state[e]
  BY <1>1, <1>2 DEF RelayerTypeOK
<1>6. JobInv'
  BY <1>3, <1>4, <1>5 DEF JobInv, Dirs
<1>7. RelayerTypeOK'
  <2>1. fsm' \in [Callers -> [Dirs -> Link]]
    BY <1>1, <1>2, <1>3 DEF RelayerTypeOK, LinkInv
  <2>2. job_state' \in [Callers -> {"none", "RUNNING", "OVER", "freed"}]
    BY <1>1, <1>2 DEF RelayerTypeOK
  <2>3. ri' \in 0 .. REL_JOBMAX
    BY <1>1, RelayerAssumption DEF Slots
  <2> QED BY <1>1, <2>1, <2>2, <2>3 DEF RelayerTypeOK, table, caller, flags
<1>8. MutexInv' /\ FoundInv' /\ TableInv'
  BY <1>1 DEF MutexInv, FoundInv, FreeSlots, TableInv, table, caller
<1>9. FlagInv'
  <2>1. c \in Callers /\ job_state[c] # "freed"
    BY <1>1
  <2>2. \A e \in Callers : job_state[e] = "freed" => job_state'[e] = "freed"
    BY <1>5, <2>1
  <2> QED BY <1>1, <2>2 DEF FlagInv, caller, flags
<1> QED BY <1>6, <1>7, <1>8, <1>9

\* The terminals of a job.
LEMMA RelayerTerminalInv ==
    ASSUME RelayerInv, NEW c \in Callers, NEW d \in Dirs, JobEnds(c, d) \/ Drained(c, d)
    PROVE  RelayerInv'
<1> USE DEF RelayerInv
<1>1. UNCHANGED <<table, caller, job_state, flags, relayer>>
  BY DEF JobEnds, Drained
<1>2. PICK l \in EndStep(fsm[c][d], d) \cup Drain(fsm[c][d]) : fsm' = [fsm EXCEPT ![c][d] = l]
  BY DEF JobEnds, Drained
<1>3. LinkInv(l) /\ l.state = fsm[c][d].state
  BY <1>2, TerminalInv DEF JobInv
<1>4. \A e \in Callers, f \in Dirs : fsm'[e][f] = IF e = c /\ f = d THEN l ELSE fsm[e][f]
  BY <1>2 DEF RelayerTypeOK
<1>5. JobInv'
  BY <1>1, <1>3, <1>4 DEF JobInv
<1>6. RelayerTypeOK'
  <2>1. fsm' \in [Callers -> [Dirs -> Link]]
    BY <1>2, <1>3 DEF RelayerTypeOK, LinkInv
  <2> QED BY <1>1, <2>1 DEF RelayerTypeOK, table, caller, flags, relayer
<1>7. MutexInv' /\ FoundInv' /\ TableInv' /\ FlagInv'
  BY <1>1 DEF MutexInv, FoundInv, FreeSlots, TableInv, FlagInv, table, caller, flags, relayer
<1> QED BY <1>5, <1>6, <1>7

LEMMA RelayerStepInv == RelayerInv /\ [RelayerNext]_relayer_vars => RelayerInv'
<1> SUFFICES ASSUME RelayerInv, [RelayerNext]_relayer_vars PROVE RelayerInv'
  OBVIOUS
<1>1. CASE UNCHANGED relayer_vars
  BY <1>1 DEF relayer_vars, table, caller, flags, relayer, RelayerInv, RelayerTypeOK,
              MutexInv, FoundInv, FreeSlots, TableInv, FlagInv, JobInv
<1>2. CASE thr_relayer
  BY <1>2, RelayerWalkInv, RelayerDriveInv DEF thr_relayer
<1>3. ASSUME NEW c \in Callers, rel_addjob(c) PROVE RelayerInv'
  BY <1>3, AddCallInv, AddLockInv, AddFindInv, AddStoreInv, AddRejectInv DEF rel_addjob
<1>4. ASSUME NEW c \in Callers, NEW d \in Dirs, JobEnds(c, d) \/ Drained(c, d) PROVE RelayerInv'
  BY <1>4, RelayerTerminalInv
<1> QED BY <1>1, <1>2, <1>3, <1>4 DEF RelayerNext

LEMMA RelayerInvariance == RelayerSpec => []RelayerInv
  BY RelayerInitInv, RelayerStepInv, PTL DEF RelayerSpec

\* For any number of callers and any length of the table each accepted job has
\* exactly one slot and descriptors that do not block the relayer, and a refused
\* one has left nothing behind.
THEOREM TableExact == RelayerSpec => []JobsInTable
<1>1. ASSUME RelayerInv, NEW c \in Callers
      PROVE  Cardinality({i \in Slots : rel_job[i] = c}) = (IF apc[c] = "added" THEN 1 ELSE 0)
  <2>0. c # NULL
    BY RelayerAssumption
  <2>1. CASE apc[c] = "added"
    <3>1. PICK i \in Slots : rel_job[i] = c
      BY <1>1, <2>1 DEF RelayerInv, TableInv
    <3>2. {k \in Slots : rel_job[k] = c} = {i}
      BY <1>1, <2>0, <3>1 DEF RelayerInv, TableInv
    <3> QED BY <2>1, <3>2, FS_Singleton
  <2>2. CASE apc[c] # "added"
    <3>1. {k \in Slots : rel_job[k] = c} = {}
      BY <1>1, <2>0, <2>2 DEF RelayerInv, TableInv
    <3> QED BY <2>2, <3>1, FS_EmptySet
  <2> QED BY <2>1, <2>2
<1>2. RelayerInv => JobsInTable
  BY <1>1 DEF JobsInTable, RelayerInv, FlagInv
<1> QED BY <1>2, RelayerInvariance, PTL

\* A job that is over has delivered everything it read, in both directions,
\* unless a destination failed.
THEOREM OverDelivered == RelayerSpec => []OverMeansDelivered
<1>1. RelayerInv => OverMeansDelivered
  BY DEF RelayerInv, JobInv, LinkInv, OverMeansDelivered
<1> QED BY <1>1, RelayerInvariance, PTL
=============================================================================
