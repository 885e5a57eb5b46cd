---------------------------- MODULE MyPipeProofs ----------------------------
(***************************************************************************)
(* Proofs about MyPipe, for any set of threads, any size of the pipe and   *)
(* any byte counts.                                                        *)
(*                                                                         *)
(* NoLostWakeup is not inductive: what a thread may conclude when a read   *)
(* or a write returns depends on whether it had registered before it       *)
(* blocked (RoleInv), and mypipe_init may set the counters to 0 only       *)
(* because nobody uses the pipe before it (FreshInv).                      *)
(***************************************************************************)
EXTENDS MyPipe, WellFoundedInduction, TLAPS

\* Before mypipe_init nobody is inside a call and no byte has been written.
FreshInv ==
    me = "none" =>
      /\ cond = {} /\ written = 0 /\ got = 0
      /\ \A t \in Threads : pc[t] = "new"

\* A thread that is not registered has no role; one that registered before it
\* called read or write has met the other side.
RoleInv ==
    \A t \in Threads :
      /\ pc[t] = "new" => opmap[t] = {}
      /\ pc[t] \in {"read_wait", "write_wait"} /\ opmap[t] # {} => count_rd > 0 /\ count_wr > 0

Inv ==
    /\ TypeOK
    /\ FreshInv
    /\ RoleInv
    /\ NoLostWakeup
    /\ ByteConservation

-----------------------------------------------------------------------------
\* next() does not advance: a call of readbyte or writebyte leaves its index
\* where it was.
LEMMA NextStays == \A h \in Cells : next(h) = h
<1>1. ASSUME NEW P \in Nat \ {0}, NEW h \in 0 .. P - 1 PROVE h % P = h
  OBVIOUS
<1> QED BY <1>1, PipeAssumption DEF next, Cells

\* ... so any number of calls visits the same cell.
LEMMA VisitStays ==
    ASSUME NEW h \in Cells, NEW n \in Nat
    PROVE  Visit(h, n) = [k \in 1 .. n + 1 |-> h]
<1> DEFINE Loop(f) == f = [k \in 1 .. n + 1 |-> IF k = 1 THEN h ELSE next(f[k - 1])]
           f == Visit(h, n)
           S == {k \in 1 .. n + 1 : f[k] # h}
<1>1. Loop([k \in 1 .. n + 1 |-> h])
  BY NextStays
<1>2. Visit(h, n) = CHOOSE g : Loop(g)
  BY DEF Visit
<1>3. Loop(f)
  <2> HIDE DEF Loop, f
  <2>1. \E g : Loop(g)
    BY <1>1, Zenon
  <2>2. Loop(CHOOSE g : Loop(g))
    BY <2>1, Zenon
  <2> QED BY <1>2, <2>2, Zenon DEF f
<1> HIDE DEF f
<1>4. S = {}
  <2> SUFFICES ASSUME S # {} PROVE FALSE
    OBVIOUS
  <2>1. S \subseteq Nat
    OBVIOUS
  <2>2. PICK k \in S : \A j \in S : ~(<<j, k>> \in OpToRel(<, Nat))
    BY <2>1, NatLessThanWellFounded, WFMin, Zenon
  <2>3. k \in 1 .. n + 1 /\ f[k] # h
    OBVIOUS
  <2>4. k # 1 /\ f[k] = next(f[k - 1])
    BY <1>3, <2>3
  <2>5. k - 1 \in 1 .. n + 1
    BY <2>3, <2>4
  <2>6. f[k - 1] = h
    <3>1. <<k - 1, k>> \in OpToRel(<, Nat)
      BY <2>3, <2>5 DEF OpToRel
    <3> QED BY <2>2, <2>5, <3>1
  <2> QED BY <2>3, <2>4, <2>6, NextStays
<1>5. \A k \in 1 .. n + 1 : f[k] = h
  BY <1>4
<1>6. f = [k \in 1 .. n + 1 |-> f[k]]
  BY <1>3
<1> QED BY <1>5, <1>6 DEF f

\* What mypipe_read does to the structure with n bytes in it to take.
LEMMA TakeFact ==
    ASSUME Inv, NEW n \in Nat, n <= datasize, TakeBytes(n)
    PROVE  head' = head /\ got' = got + n /\ datasize' = datasize - n /\ datasize' \in 0 .. PIPESIZE
<1>1. Visit(head, n)[n + 1] = head
  BY VisitStays DEF Inv, TypeOK
<1> QED BY <1>1, PipeAssumption DEF TakeBytes, Inv, TypeOK

\* ... and mypipe_write with room for n bytes.
LEMMA PutFact ==
    ASSUME Inv, NEW n \in Nat, n <= PIPESIZE - datasize, PutBytes(n)
    PROVE  /\ tail' = tail /\ written' = written + n
           /\ datasize' = datasize + n /\ datasize' \in 0 .. PIPESIZE
           /\ data' \in [Cells -> Nat]
<1> DEFINE at == Visit(tail, n)
           Hits(c) == {k \in 1 .. n : at[k] = c}
           Last(T) == CHOOSE k \in T : \A j \in T : j <= k
<1> USE PipeAssumption
<1>1. tail \in Cells /\ data \in [Cells -> Nat] /\ written \in Nat /\ datasize \in 0 .. PIPESIZE
  BY DEF Inv, TypeOK
<1>2. at = [k \in 1 .. n + 1 |-> tail]
  BY <1>1, VisitStays
<1>3. /\ data' = [c \in Cells |-> IF Hits(c) = {} THEN data[c] ELSE written + Last(Hits(c))]
      /\ tail' = at[n + 1]
      /\ datasize' = datasize + n
      /\ written' = written + n
  BY DEF PutBytes
<1> HIDE DEF at
<1>4. ASSUME NEW c \in Cells, Hits(c) # {} PROVE Last(Hits(c)) \in Nat
  <2>1. Hits(c) = 1 .. n /\ n > 0
    BY <1>2, <1>4
  <2>2. n \in 1 .. n /\ \A j \in 1 .. n : j <= n
    BY <2>1
  <2>3. Last(1 .. n) \in 1 .. n
    BY <2>2
  <2> HIDE DEF Hits, Last
  <2> QED BY <2>1, <2>3
<1> HIDE DEF Hits, Last
<1>5. data' \in [Cells -> Nat]
  BY <1>1, <1>3, <1>4
<1> QED BY <1>1, <1>2, <1>3, <1>5

-----------------------------------------------------------------------------
LEMMA InitInv == Init => Inv
<1> SUFFICES ASSUME Init PROVE Inv
  OBVIOUS
<1>1. 0 \in Cells /\ 0 \in 0 .. PIPESIZE
  BY PipeAssumption DEF Cells
<1>2. TypeOK
  BY <1>1 DEF Init, TypeOK
<1>3. FreshInv /\ RoleInv /\ NoLostWakeup
  BY DEF Init, FreshInv, RoleInv, NoLostWakeup
<1>4. ByteConservation
  BY PipeAssumption DEF Init, ByteConservation
<1> QED BY <1>2, <1>3, <1>4 DEF Inv

\* Creation and destruction of the pipe.
LEMMA OwnerSteps ==
    ASSUME Inv, mypipe_init \/ mypipe_destroy
    PROVE  Inv'
<1>1. CASE mypipe_init
  <2>1. 0 \in Cells /\ 0 \in 0 .. PIPESIZE
    BY PipeAssumption DEF Cells
  <2>2. TypeOK'
    BY <1>1, <2>1 DEF mypipe_init, Inv, TypeOK, history
  <2>3. FreshInv' /\ RoleInv' /\ NoLostWakeup'
    BY <1>1 DEF mypipe_init, Inv, FreshInv, RoleInv, NoLostWakeup, history
  <2>4. ByteConservation'
    BY <1>1, PipeAssumption DEF mypipe_init, Inv, FreshInv, ByteConservation, history
  <2> QED BY <2>2, <2>3, <2>4 DEF Inv
<1>2. CASE mypipe_destroy
  BY <1>2 DEF mypipe_destroy, Inv, TypeOK, FreshInv, RoleInv, NoLostWakeup, ByteConservation, history
<1> QED BY <1>1, <1>2

-----------------------------------------------------------------------------
\* mypipe_register, mypipe_unregister and spurious wake-ups.

LEMMA RegisterSteps ==
    ASSUME Inv, NEW t \in Threads, RegisterWake(t) \/ \E r \in Roles : RegisterEnter(t, r)
    PROVE  Inv'
<1>1. ASSUME NEW r \in Roles, RegisterEnter(t, r) PROVE Inv'
  <2> DEFINE dr == IF "READ" \in r THEN 1 ELSE 0
             dw == IF "WRITE" \in r THEN 1 ELSE 0
  <2>1. /\ me = "live" /\ pc[t] = "new" /\ r \subseteq {"READ", "WRITE"} /\ r # {}
        /\ dr \in {0, 1} /\ dw \in {0, 1}
        /\ count_rd' = count_rd + dr /\ count_wr' = count_wr + dw
        /\ opmap' = [opmap EXCEPT ![t] = r]
        /\ UNCHANGED <<me, head, tail, data, datasize, count, written, got>>
    BY <1>1 DEF RegisterEnter, Roles, history
  <2>2. \/ /\ count_rd' <= 0 \/ count_wr' <= 0
           /\ cond' = cond \cup {t} /\ pc' = [pc EXCEPT ![t] = "reg_wait"]
        \/ /\ ~(count_rd' <= 0 \/ count_wr' <= 0)
           /\ cond' = {} /\ pc' = [pc EXCEPT ![t] = "ready"]
    BY <1>1 DEF RegisterEnter, Block, broadcast, Goto
  <2> HIDE DEF dr, dw
  <2>3. count_rd' \in Nat /\ count_wr' \in Nat /\ count_rd' >= count_rd /\ count_wr' >= count_wr
    BY <2>1 DEF Inv, TypeOK
  <2>4. TypeOK'
    BY <2>1, <2>2, <2>3 DEF Inv, TypeOK
  <2>5. FreshInv' /\ ByteConservation'
    BY <2>1 DEF Inv, FreshInv, ByteConservation
  <2>6. RoleInv'
    BY <2>1, <2>2, <2>3 DEF Inv, TypeOK, RoleInv
  <2>7. NoLostWakeup'
    BY <2>1, <2>2, <2>3 DEF Inv, TypeOK, NoLostWakeup
  <2> QED BY <2>4, <2>5, <2>6, <2>7 DEF Inv
<1>2. CASE RegisterWake(t)
  <2>1. /\ pc[t] = "reg_wait"
        /\ UNCHANGED <<me, head, tail, data, datasize, count_rd, count_wr, opmap, count, written, got>>
    BY <1>2 DEF RegisterWake, struct, history
  <2>2. \/ /\ count_rd <= 0 \/ count_wr <= 0
           /\ cond' = cond \cup {t} /\ pc' = [pc EXCEPT ![t] = "reg_wait"]
        \/ /\ ~(count_rd <= 0 \/ count_wr <= 0)
           /\ cond' = {} /\ pc' = [pc EXCEPT ![t] = "ready"]
    BY <1>2 DEF RegisterWake, Block, broadcast, Goto
  <2>3. TypeOK'
    BY <2>1, <2>2 DEF Inv, TypeOK
  <2>4. FreshInv' /\ ByteConservation'
    BY <2>1 DEF Inv, FreshInv, ByteConservation
  <2>5. RoleInv'
    BY <2>1, <2>2 DEF Inv, TypeOK, RoleInv
  <2>6. NoLostWakeup'
    BY <2>1, <2>2 DEF Inv, TypeOK, NoLostWakeup
  <2> QED BY <2>3, <2>4, <2>5, <2>6 DEF Inv
<1> QED BY <1>1, <1>2

LEMMA LeaveSteps ==
    ASSUME Inv, NEW t \in Threads, mypipe_unregister(t) \/ SpuriousWakeup(t)
    PROVE  Inv'
<1>1. CASE mypipe_unregister(t)
  BY <1>1 DEF mypipe_unregister, Goto, struct, history,
              Inv, TypeOK, FreshInv, RoleInv, NoLostWakeup, ByteConservation
<1>2. CASE SpuriousWakeup(t)
  BY <1>2 DEF SpuriousWakeup, struct, history,
              Inv, TypeOK, FreshInv, RoleInv, NoLostWakeup, ByteConservation
<1> QED BY <1>1, <1>2

-----------------------------------------------------------------------------
\* mypipe_read and mypipe_write.

\* What a thread knows when it enters the body of read or write, at the call or
\* after a wake-up.
MayPass(t) ==
    /\ t \notin cond
    /\ me # "none"
    /\ opmap[t] # {} => count_rd > 0 /\ count_wr > 0

LEMMA EntryFact ==
    ASSUME Inv, NEW t \in Threads,
           \/ Idle(t)
           \/ pc[t] \in {"read_wait", "write_wait"} /\ t \notin cond
    PROVE  MayPass(t)
<1> QED BY DEF Idle, MayPass, Inv, TypeOK, FreshInv, RoleInv, NoLostWakeup

\* A call that blocks, in mypipe_read or in mypipe_write.
LEMMA BlockStep ==
    ASSUME Inv, NEW t \in Threads, NEW n \in Nat, MayPass(t),
           NEW l \in {"read_wait", "write_wait"},
           l = "read_wait" => datasize = 0 /\ count_wr > 0,
           l = "write_wait" => datasize = PIPESIZE /\ count_rd > 0,
           Block(t, l), count' = [count EXCEPT ![t] = n],
           UNCHANGED <<struct, opmap, history>>
    PROVE  Inv'
<1>1. cond' = cond \cup {t} /\ pc' = [pc EXCEPT ![t] = l]
  BY DEF Block, Goto
<1> USE <1>1 DEF Inv, struct, history
<1>2. TypeOK'
  BY DEF TypeOK
<1>3. FreshInv' /\ ByteConservation'
  BY DEF MayPass, FreshInv, ByteConservation
<1>4. RoleInv'
  BY DEF RoleInv, MayPass, TypeOK
<1>5. NoLostWakeup'
  BY DEF NoLostWakeup, TypeOK
<1> QED BY <1>2, <1>3, <1>4, <1>5

\* A call that returns, having moved bytes and woken everybody or nothing of
\* both.
LEMMA ReturnStep ==
    ASSUME Inv, NEW t \in Threads, MayPass(t), Return(t),
           UNCHANGED <<me, count_rd, count_wr, opmap>>,
           head' \in Cells, tail' \in Cells, data' \in [Cells -> Nat],
           datasize' \in 0 .. PIPESIZE, written' \in Nat, got' \in Nat,
           datasize' = written' - got',
           cond' = {} \/ (cond' = cond /\ datasize' = datasize)
    PROVE  Inv'
<1>1. /\ pc' = [pc EXCEPT ![t] = IF opmap[t] = {} THEN "new" ELSE "ready"]
      /\ count' = [count EXCEPT ![t] = 0]
  BY DEF Return, Goto
<1>2. datasize' <= PIPESIZE
  <2>1. \A d \in 0 .. PIPESIZE : d <= PIPESIZE
    BY PipeAssumption
  <2> QED BY <2>1, Zenon
<1> USE <1>1 DEF Inv
<1>3. TypeOK'
  BY DEF TypeOK
<1>4. FreshInv'
  BY DEF FreshInv, MayPass
<1>5. ByteConservation'
  BY <1>2 DEF ByteConservation
<1>6. RoleInv'
  BY DEF RoleInv, MayPass, TypeOK
<1>7. NoLostWakeup'
  BY DEF NoLostWakeup, MayPass, TypeOK
<1> QED BY <1>3, <1>4, <1>5, <1>6, <1>7

\* The body of mypipe_read: it blocks, finds no writer, or takes bytes.
LEMMA ReadStep ==
    ASSUME Inv, NEW t \in Threads, NEW n \in Nat, MayPass(t), ReadBody(t, n)
    PROVE  Inv'
<1> USE PipeAssumption
<1>1. CASE datasize <= 0 /\ count_wr > 0
  BY <1>1, BlockStep DEF ReadBody, Inv, TypeOK
<1>2. CASE datasize <= 0 /\ ~(count_wr > 0)
  <2>1. Return(t) /\ UNCHANGED <<struct, cond, opmap, history>>
    BY <1>2 DEF ReadBody, Inv, TypeOK
  <2> QED BY <2>1, ReturnStep DEF struct, history, Inv, TypeOK, ByteConservation
<1>3. CASE datasize > 0
  <2> DEFINE k == Min2(n, datasize)
  <2>1. /\ TakeBytes(k) /\ cond' = {} /\ Return(t)
        /\ UNCHANGED <<me, tail, data, count_rd, count_wr, opmap, written>>
    BY <1>3 DEF ReadBody, broadcast, Inv, TypeOK
  <2>2. k \in Nat /\ k <= datasize
    BY <1>3 DEF Min2, Inv, TypeOK
  <2> HIDE DEF k
  <2>3. head' = head /\ got' = got + k /\ datasize' = datasize - k /\ datasize' \in 0 .. PIPESIZE
    BY <2>1, <2>2, TakeFact
  <2>4. /\ head' \in Cells /\ tail' \in Cells /\ data' \in [Cells -> Nat]
        /\ written' \in Nat /\ got' \in Nat /\ datasize' = written' - got'
    BY <2>1, <2>2, <2>3 DEF Inv, TypeOK, ByteConservation
  <2> QED BY <2>1, <2>3, <2>4, ReturnStep
<1> QED BY <1>1, <1>2, <1>3 DEF Inv, TypeOK

\* The body of mypipe_write: it blocks, finds no reader, or puts bytes.
LEMMA WriteStep ==
    ASSUME Inv, NEW t \in Threads, NEW n \in Nat, MayPass(t), WriteBody(t, n)
    PROVE  Inv'
<1> USE PipeAssumption
<1>1. CASE datasize >= PIPESIZE /\ count_rd > 0
  BY <1>1, BlockStep DEF WriteBody, Inv, TypeOK
<1>2. CASE datasize >= PIPESIZE /\ ~(count_rd > 0)
  <2>1. Return(t) /\ UNCHANGED <<struct, cond, opmap, history>>
    BY <1>2 DEF WriteBody, Inv, TypeOK
  <2> QED BY <2>1, ReturnStep DEF struct, history, Inv, TypeOK, ByteConservation
<1>3. CASE datasize < PIPESIZE
  <2> DEFINE k == Min2(n, PIPESIZE - datasize)
  <2>1. /\ PutBytes(k) /\ cond' = {} /\ Return(t)
        /\ UNCHANGED <<me, head, count_rd, count_wr, opmap, got>>
    BY <1>3 DEF WriteBody, broadcast, Inv, TypeOK
  <2>2. k \in Nat /\ k <= PIPESIZE - datasize
    BY <1>3 DEF Min2, Inv, TypeOK
  <2> HIDE DEF k
  <2>3. /\ tail' = tail /\ written' = written + k
        /\ datasize' = datasize + k /\ datasize' \in 0 .. PIPESIZE
        /\ data' \in [Cells -> Nat]
    BY <2>1, <2>2, PutFact
  <2>4. /\ head' \in Cells /\ tail' \in Cells
        /\ written' \in Nat /\ got' \in Nat /\ datasize' = written' - got'
    BY <2>1, <2>2, <2>3 DEF Inv, TypeOK, ByteConservation
  <2> QED BY <2>1, <2>3, <2>4, ReturnStep
<1> QED BY <1>1, <1>2, <1>3 DEF Inv, TypeOK

\* Every step preserves the invariant.
LEMMA NextInv == Inv /\ [Next]_vars => Inv'
<1> SUFFICES ASSUME Inv, [Next]_vars PROVE Inv'
  OBVIOUS
<1>1. CASE mypipe_init \/ mypipe_destroy
  BY <1>1, OwnerSteps
<1>2. ASSUME NEW t \in Threads, Wake(t) PROVE Inv'
  <2>1. count[t] \in Nat
    BY DEF Inv, TypeOK
  <2>2. CASE ReadWake(t)
    BY <2>1, <2>2, EntryFact, ReadStep DEF ReadWake
  <2>3. CASE WriteWake(t)
    BY <2>1, <2>3, EntryFact, WriteStep DEF WriteWake
  <2> QED BY <1>2, <2>2, <2>3, RegisterSteps DEF Wake
<1>3. ASSUME NEW t \in Threads,
             \/ SpuriousWakeup(t) \/ mypipe_unregister(t)
             \/ \E r \in Roles : RegisterEnter(t, r)
      PROVE Inv'
  BY <1>3, LeaveSteps, RegisterSteps
<1>4. ASSUME NEW t \in Threads, NEW n \in Counts, ReadCall(t, n) \/ WriteCall(t, n)
      PROVE Inv'
  <2>1. n \in Nat
    BY PipeAssumption
  <2> QED BY <1>4, <2>1, EntryFact, ReadStep, WriteStep DEF ReadCall, WriteCall
<1>5. CASE UNCHANGED vars
  BY <1>5 DEF vars, struct, history, Inv, TypeOK, FreshInv, RoleInv, NoLostWakeup, ByteConservation
<1> QED BY <1>1, <1>2, <1>3, <1>4, <1>5 DEF Next

LEMMA Invariance == Spec => []Inv
<1> QED BY InitInv, NextInv, PTL DEF Spec

-----------------------------------------------------------------------------
\* The variables keep their types: head, tail and datasize stay inside data[].
THEOREM TypeCorrect == Spec => []TypeOK
<1>1. Inv => TypeOK
  BY DEF Inv
<1> QED BY <1>1, Invariance, PTL

\* No reader, writer or registrant is left in pthread_cond_wait when what it
\* waits for has come, and mypipe_register returns only when both sides exist.
THEOREM WakeupsArrive == Spec => []NoLostWakeup
<1>1. Inv => NoLostWakeup
  BY DEF Inv
<1> QED BY <1>1, Invariance, PTL

\* datasize is the number of bytes written and not yet read.
THEOREM BytesConserved == Spec => []ByteConservation
<1>1. Inv => ByteConservation
  BY DEF Inv
<1> QED BY <1>1, Invariance, PTL
=============================================================================
