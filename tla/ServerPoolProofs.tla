-------------------------- MODULE ServerPoolProofs --------------------------
(***************************************************************************)
(* Proofs about ServerPool, for any size of serverpool[] and any limits.   *)
(*                                                                         *)
(* SleepsInformed speaks of a sleeping parent only.  What is inductive is  *)
(* a bound on each side that holds through the scan and the resizing, slot *)
(* by slot: a child that changes sides first moves out of the way of the   *)
(* bound (it is about to notify), and only its signal releases it.         *)
(***************************************************************************)
EXTENDS ServerPool, FiniteSetTheorems, WellFoundedInduction, TLAPS

\* The slots below n of a set.
Below(S, n) == {s \in S : s < n}

\* The slots the parent may count as idle, and those it must count unless a
\* signal is on its way.
MayCount  == {s \in InUse : state[s] = "IDLE" \/ child[s] = "notify_busy"}
MustCount == {s \in InUse : state[s] = "IDLE" /\ child[s] # "notify_idle"}

\* The two sums of scan_pool add up to the slots it has passed.
ScanSum == ppc = "scan" => idle + busy = Cardinality(Below(InUse, slot))

\* del_1_server is called while idle_count > 0 only.
SearchInv == ppc = "search" => idle_count > 0

\* With no signal pending the parent has counted no slot it may not count.
UpperBound ==
    ~pending => IF ppc = "scan" THEN idle <= Cardinality(Below(MayCount, slot))
                                ELSE idle_count <= Cardinality(MayCount)

\* With no signal pending it has missed no slot it must count, unless it
\* killed a child that it had counted as busy.
LowerBound ==
    ~pending /\ ~killed =>
      IF ppc = "scan" THEN Cardinality(Below(MustCount, slot)) <= idle
                      ELSE Cardinality(MustCount) <= idle_count

Inv ==
    /\ TypeOK
    /\ CountsMatch
    /\ ScanSum
    /\ SearchInv
    /\ UpperBound
    /\ LowerBound

-----------------------------------------------------------------------------
\* Cardinalities of sets of slots.
LEMMA CardFact ==
    ASSUME NEW S \in SUBSET Slots
    PROVE  /\ Cardinality(S) \in 0 .. MAXCLIENT
           /\ \A T \in SUBSET S : Cardinality(T) <= Cardinality(S)
           /\ \A x \in S : Cardinality(S \ {x}) = Cardinality(S) - 1
           /\ \A x \in Slots \ S : Cardinality(S \cup {x}) = Cardinality(S) + 1
<1>1. IsFiniteSet(Slots) /\ Cardinality(Slots) = MAXCLIENT
  BY PoolAssumption, FS_Interval DEF Slots
<1>2. IsFiniteSet(S) /\ Cardinality(S) <= MAXCLIENT
  BY <1>1, FS_Subset
<1>3. Cardinality(S) \in Nat
  BY <1>2, FS_CardinalityType
<1>4. \A T \in SUBSET S : Cardinality(T) <= Cardinality(S)
  BY <1>2, FS_Subset
<1>5. \A x \in S : Cardinality(S \ {x}) = Cardinality(S) - 1
  BY <1>2, FS_RemoveElement
<1>6. \A x \in Slots \ S : Cardinality(S \cup {x}) = Cardinality(S) + 1
  BY <1>2, FS_AddElement
<1> QED BY <1>2, <1>3, <1>4, <1>5, <1>6, PoolAssumption

\* The sets the invariant counts are sets of slots.
LEMMA SetsFact ==
    /\ InUse \in SUBSET Slots /\ MayCount \in SUBSET Slots /\ MustCount \in SUBSET Slots
    /\ MayCount \subseteq InUse /\ MustCount \subseteq InUse
  BY DEF InUse, MayCount, MustCount

LEMMA BelowFact ==
    ASSUME NEW S \in SUBSET Slots
    PROVE  /\ \A n \in Nat : Below(S, n) \in SUBSET Slots
           /\ Below(S, 0) = {} /\ Below(S, MAXCLIENT) = S
           /\ \A n \in Slots : Below(S, n + 1) = IF n \in S THEN Below(S, n) \cup {n} ELSE Below(S, n)
           /\ \A n \in Slots : n \notin Below(S, n)
           /\ \A T \in SUBSET S : \A n \in Nat : Below(T, n) \subseteq Below(S, n)
<1> USE PoolAssumption DEF Slots, Below
<1>1. \A n \in Nat : Below(S, n) \in SUBSET Slots
  OBVIOUS
<1>2. Below(S, 0) = {} /\ Below(S, MAXCLIENT) = S
  <2>1. \A m \in S : m \in Nat /\ ~(m < 0) /\ m < MAXCLIENT
    OBVIOUS
  <2> QED BY <2>1
<1>3. ASSUME NEW n \in Slots
      PROVE  Below(S, n + 1) = IF n \in S THEN Below(S, n) \cup {n} ELSE Below(S, n)
  <2>1. \A m \in S : m \in Nat /\ (m < n + 1 <=> m < n \/ m = n)
    OBVIOUS
  <2> QED BY <2>1
<1>4. \A n \in Slots : n \notin Below(S, n)
  OBVIOUS
<1>5. \A T \in SUBSET S : \A n \in Nat : Below(T, n) \subseteq Below(S, n)
  OBVIOUS
<1> QED BY <1>1, <1>2, <1>3, <1>4, <1>5

\* The counts of the slots below n.
LEMMA CardBelow ==
    ASSUME NEW S \in SUBSET Slots, NEW n \in Slots
    PROVE  Cardinality(Below(S, n + 1)) = Cardinality(Below(S, n)) + (IF n \in S THEN 1 ELSE 0)
<1>1. Below(S, n) \in SUBSET Slots /\ n \notin Below(S, n)
  BY BelowFact, PoolAssumption DEF Slots
<1>2. Cardinality(Below(S, n)) \in Nat
  BY <1>1, CardFact
<1>3. CASE n \in S
  <2>1. Below(S, n + 1) = Below(S, n) \cup {n}
    BY <1>3, BelowFact
  <2>2. Cardinality(Below(S, n) \cup {n}) = Cardinality(Below(S, n)) + 1
    BY <1>1, CardFact
  <2> QED BY <1>3, <2>1, <2>2
<1>4. CASE n \notin S
  <2>1. Below(S, n + 1) = Below(S, n)
    BY <1>4, BelowFact
  <2> QED BY <1>2, <1>4, <2>1
<1> QED BY <1>3, <1>4

\* While a slot is free the search of add_1_server finds one.
LEMMA FreeSlotFact ==
    ASSUME FreeSlots # {}
    PROVE  (CHOOSE n \in FreeSlots : \A m \in FreeSlots : n <= m) \in FreeSlots
<1>1. FreeSlots \subseteq Nat
  BY PoolAssumption DEF FreeSlots, Slots
<1>2. PICK n \in FreeSlots : \A k \in FreeSlots : ~(<<k, n>> \in OpToRel(<, Nat))
  BY <1>1, NatLessThanWellFounded, WFMin, Zenon
<1>3. \A k \in FreeSlots : n <= k
  <2> SUFFICES ASSUME NEW k \in FreeSlots PROVE ~(k < n)
    BY <1>1
  <2>1. k < n => <<k, n>> \in OpToRel(<, Nat)
    BY <1>1 DEF OpToRel
  <2> QED BY <1>2, <2>1
<1> QED BY <1>3

\* The invariant holds before the first fork.
LEMMA InitInv == Init => Inv
<1> SUFFICES ASSUME Init PROVE Inv
  OBVIOUS
<1>1. TypeOK
  <2>1. used \in [Slots -> BOOLEAN] /\ killed \in BOOLEAN /\ pending \in BOOLEAN
    BY DEF Init
  <2>2. 0 \in 0 .. MAXCLIENT /\ 0 \in 0 .. MaxWaiting /\ 0 \in 0 .. MaxFaults
    BY PoolAssumption
  <2> QED BY <2>1, <2>2 DEF Init, TypeOK
<1>2. InUse = {} /\ MayCount = {} /\ MustCount = {}
  BY DEF Init, InUse, MayCount, MustCount
<1>3. CountsMatch /\ UpperBound /\ LowerBound
  BY <1>2, FS_EmptySet DEF Init, CountsMatch, UpperBound, LowerBound
<1>4. ScanSum /\ SearchInv
  BY DEF Init, ScanSum, SearchInv
<1> QED BY <1>1, <1>3, <1>4 DEF Inv

-----------------------------------------------------------------------------
\* The children.

\* A child that moves out of the way of the bounds, or sends its signal,
\* leaves the parent with counts as good as before.
LEMMA ChildMoves ==
    ASSUME Inv, TypeOK',
           UNCHANGED <<used, counts, ppc, locals, killed>>,
           ~pending' => ~pending /\ MayCount \subseteq MayCount' /\ MustCount' \subseteq MustCount
    PROVE  Inv'
<1> USE DEF Inv, counts, locals
<1>1. InUse' = InUse
  BY DEF InUse
<1>2. CountsMatch' /\ ScanSum' /\ SearchInv'
  BY <1>1 DEF CountsMatch, ScanSum, SearchInv, Below
<1>3. /\ MayCount \in SUBSET Slots /\ MayCount' \in SUBSET Slots
      /\ MustCount \in SUBSET Slots /\ MustCount' \in SUBSET Slots
  BY <1>1, SetsFact DEF MayCount, MustCount
<1>4. slot \in Nat /\ slot' = slot
  BY PoolAssumption DEF TypeOK
<1>5. ASSUME NEW S \in SUBSET Slots, NEW T \in SUBSET S
      PROVE  /\ Cardinality(T) <= Cardinality(S)
             /\ Cardinality(Below(T, slot)) <= Cardinality(Below(S, slot))
             /\ Cardinality(T) \in Nat /\ Cardinality(S) \in Nat
             /\ Cardinality(Below(T, slot)) \in Nat /\ Cardinality(Below(S, slot)) \in Nat
  <2>1. Below(S, slot) \in SUBSET Slots /\ Below(T, slot) \in SUBSET Slots
        /\ Below(T, slot) \in SUBSET Below(S, slot)
    BY <1>4, BelowFact
  <2> QED BY <2>1, CardFact
<1>6. UpperBound'
  <2> SUFFICES ASSUME ~pending' PROVE UpperBound'
    BY DEF UpperBound
  <2>1. ~pending /\ MayCount \in SUBSET MayCount'
    OBVIOUS
  <2>2. /\ Cardinality(MayCount) <= Cardinality(MayCount')
        /\ Cardinality(Below(MayCount, slot)) <= Cardinality(Below(MayCount', slot))
        /\ Cardinality(MayCount) \in Nat /\ Cardinality(MayCount') \in Nat
        /\ Cardinality(Below(MayCount, slot)) \in Nat /\ Cardinality(Below(MayCount', slot)) \in Nat
    BY <1>3, <1>5, <2>1
  <2>3. Below(MayCount, slot)' = Below(MayCount', slot)
    BY DEF Below
  <2> HIDE DEF Inv
  <2>4. TypeOK /\ UpperBound
    BY DEF Inv
  <2> QED BY <2>1, <2>2, <2>3, <2>4 DEF UpperBound, TypeOK
<1>7. LowerBound'
  <2> SUFFICES ASSUME ~pending', ~killed PROVE LowerBound'
    BY DEF LowerBound
  <2>1. ~pending /\ MustCount' \in SUBSET MustCount
    OBVIOUS
  <2>2. /\ Cardinality(MustCount') <= Cardinality(MustCount)
        /\ Cardinality(Below(MustCount', slot)) <= Cardinality(Below(MustCount, slot))
        /\ Cardinality(MustCount) \in Nat /\ Cardinality(MustCount') \in Nat
        /\ Cardinality(Below(MustCount, slot)) \in Nat /\ Cardinality(Below(MustCount', slot)) \in Nat
    BY <1>3, <1>5, <2>1
  <2>3. Below(MustCount, slot)' = Below(MustCount', slot)
    BY DEF Below
  <2> HIDE DEF Inv
  <2>4. TypeOK /\ LowerBound
    BY DEF Inv
  <2> QED BY <2>1, <2>2, <2>3, <2>4 DEF LowerBound, TypeOK
<1> QED BY <1>2, <1>6, <1>7

LEMMA ChildStep ==
    ASSUME Inv, NEW s \in Slots, Child(s) \/ AcceptFail(s)
    PROVE  Inv'
<1> USE DEF counts, locals, network, pool
<1>0. TypeOK
  BY DEF Inv
<1>1. CASE SetIdle(s)
  <2>1. TypeOK'
    BY <1>0, <1>1 DEF SetIdle, TypeOK
  <2>2. MayCount \subseteq MayCount' /\ MustCount' \subseteq MustCount
    BY <1>0, <1>1 DEF SetIdle, TypeOK, MayCount, MustCount, InUse
  <2> QED BY <1>1, <2>1, <2>2, ChildMoves DEF SetIdle
<1>2. CASE NotifyIdle(s)
  <2>1. TypeOK'
    BY <1>0, <1>2 DEF NotifyIdle, TypeOK
  <2> QED BY <1>2, <2>1, ChildMoves DEF NotifyIdle
<1>3. CASE Accept(s)
  <2>1. TypeOK'
    BY <1>0, <1>3, PoolAssumption DEF Accept, TypeOK
  <2>2. MayCount \subseteq MayCount' /\ MustCount' \subseteq MustCount
    BY <1>0, <1>3 DEF Accept, TypeOK, MayCount, MustCount, InUse
  <2> QED BY <1>3, <2>1, <2>2, ChildMoves DEF Accept
<1>4. CASE AcceptFail(s)
  <2>1. TypeOK'
    BY <1>0, <1>4, PoolAssumption DEF AcceptFail, TypeOK
  <2>2. MayCount \subseteq MayCount' /\ MustCount' \subseteq MustCount
    BY <1>0, <1>4 DEF AcceptFail, TypeOK, MayCount, MustCount, InUse
  <2> QED BY <1>4, <2>1, <2>2, ChildMoves DEF AcceptFail
<1>5. CASE SetBusy(s)
  <2>1. TypeOK'
    BY <1>0, <1>5 DEF SetBusy, TypeOK
  <2>2. MayCount \subseteq MayCount' /\ MustCount' \subseteq MustCount
    BY <1>0, <1>5 DEF SetBusy, TypeOK, MayCount, MustCount, InUse
  <2> QED BY <1>5, <2>1, <2>2, ChildMoves DEF SetBusy
<1>6. CASE NotifyBusy(s)
  <2>1. TypeOK'
    BY <1>0, <1>6 DEF NotifyBusy, TypeOK
  <2> QED BY <1>6, <2>1, ChildMoves DEF NotifyBusy
<1>7. CASE Serve(s)
  <2>1. TypeOK'
    BY <1>0, <1>7 DEF Serve, TypeOK
  <2>2. MayCount \subseteq MayCount' /\ MustCount' \subseteq MustCount
    BY <1>0, <1>7 DEF Serve, TypeOK, MayCount, MustCount, InUse
  <2> QED BY <1>7, <2>1, <2>2, ChildMoves DEF Serve
<1> QED BY <1>1, <1>2, <1>3, <1>4, <1>5, <1>6, <1>7 DEF Child

-----------------------------------------------------------------------------
\* The parent.

\* The scan begins: nothing is counted yet.
LEMMA WaitStep ==
    ASSUME Inv, Wait
    PROVE  Inv'
<1> USE DEF Inv, Wait, counts, network, pool
<1>1. TypeOK'
  <2>1. 0 \in 0 .. MAXCLIENT
    BY PoolAssumption
  <2>2. pending' \in BOOLEAN /\ killed' \in BOOLEAN
    OBVIOUS
  <2> QED BY <2>1, <2>2 DEF TypeOK
<1>2. Below(InUse, slot)' = {} /\ Below(MayCount, slot)' = {} /\ Below(MustCount, slot)' = {}
  <2>1. InUse' \in SUBSET Slots /\ MayCount' \in SUBSET Slots /\ MustCount' \in SUBSET Slots
    BY DEF InUse, MayCount, MustCount
  <2>2. \A S \in SUBSET Slots : Below(S, 0) = {}
    BY BelowFact
  <2> QED BY <2>1, <2>2 DEF Below
<1>3. CountsMatch' /\ SearchInv'
  BY DEF CountsMatch, SearchInv
<1>4. ScanSum' /\ UpperBound' /\ LowerBound'
  BY <1>2, FS_EmptySet DEF ScanSum, UpperBound, LowerBound
<1> QED BY <1>1, <1>3, <1>4

\* One slot is counted, or freed because its child is dead.
LEMMA ScanSlotStep ==
    ASSUME Inv, ScanSlot
    PROVE  Inv'
<1> USE DEF ScanSlot, counts, network
<1>0. TypeOK /\ ScanSum /\ UpperBound /\ LowerBound
  BY DEF Inv
<1>1. slot \in Slots /\ slot \in Nat /\ slot + 1 \in 0 .. MAXCLIENT
  BY <1>0, PoolAssumption DEF TypeOK, Slots
<1>2. used' \in [Slots -> BOOLEAN] /\ \A s \in Slots \ {slot} : used'[s] = used[s]
  BY <1>0, <1>1 DEF TypeOK
<1>3. InUse' \in SUBSET Slots /\ MayCount' \in SUBSET Slots /\ MustCount' \in SUBSET Slots
  BY DEF InUse, MayCount, MustCount
<1>4. /\ Below(InUse', slot) = Below(InUse, slot)
      /\ Below(MayCount', slot) = Below(MayCount, slot)
      /\ Below(MustCount', slot) = Below(MustCount, slot)
  <2>1. \A s \in Slots : s < slot => s # slot
    BY PoolAssumption DEF Slots
  <2> QED BY <1>2, <2>1 DEF Below, InUse, MayCount, MustCount
<1>5. /\ slot \in InUse' <=> used'[slot]
      /\ used'[slot] /\ state[slot] = "IDLE" => slot \in MayCount'
      /\ slot \in MustCount' => used'[slot] /\ state[slot] = "IDLE"
  BY <1>1 DEF InUse, MayCount, MustCount
<1>6. /\ Cardinality(Below(InUse, slot)') = Cardinality(Below(InUse, slot)) + (IF slot \in InUse' THEN 1 ELSE 0)
      /\ Cardinality(Below(MayCount, slot)') = Cardinality(Below(MayCount, slot)) + (IF slot \in MayCount' THEN 1 ELSE 0)
      /\ Cardinality(Below(MustCount, slot)') = Cardinality(Below(MustCount, slot)) + (IF slot \in MustCount' THEN 1 ELSE 0)
  <2>1. /\ Below(InUse, slot)' = Below(InUse', slot + 1)
        /\ Below(MayCount, slot)' = Below(MayCount', slot + 1)
        /\ Below(MustCount, slot)' = Below(MustCount', slot + 1)
    BY DEF Below
  <2>2. \A S \in SUBSET Slots : Cardinality(Below(S, slot + 1)) = Cardinality(Below(S, slot)) + (IF slot \in S THEN 1 ELSE 0)
    BY <1>1, CardBelow
  <2>3. /\ Cardinality(Below(InUse', slot + 1)) = Cardinality(Below(InUse', slot)) + (IF slot \in InUse' THEN 1 ELSE 0)
        /\ Cardinality(Below(MayCount', slot + 1)) = Cardinality(Below(MayCount', slot)) + (IF slot \in MayCount' THEN 1 ELSE 0)
        /\ Cardinality(Below(MustCount', slot + 1)) = Cardinality(Below(MustCount', slot)) + (IF slot \in MustCount' THEN 1 ELSE 0)
    BY <1>3, <2>2
  <2> QED BY <1>4, <2>1, <2>3
<1>7. /\ Cardinality(Below(InUse, slot)) \in Nat
      /\ Cardinality(Below(MayCount, slot)) \in Nat
      /\ Cardinality(Below(MustCount, slot)) \in Nat
      /\ Cardinality(Below(InUse, slot)') \in 0 .. MAXCLIENT
  <2>1. \A S \in SUBSET Slots : \A n \in Nat : Cardinality(Below(S, n)) \in 0 .. MAXCLIENT
    BY BelowFact, CardFact
  <2>2. slot' \in Nat /\ Below(InUse, slot)' = Below(InUse', slot')
    BY <1>1 DEF Below
  <2> QED BY <1>1, <1>3, <2>1, <2>2, SetsFact, PoolAssumption
<1>8. /\ idle' = idle + (IF used'[slot] /\ state[slot] = "IDLE" THEN 1 ELSE 0)
      /\ busy' = busy + (IF used'[slot] /\ state[slot] = "BUSY" THEN 1 ELSE 0)
      /\ used'[slot] => (state[slot] = "BUSY" <=> state[slot] # "IDLE")
  BY <1>0, <1>1 DEF TypeOK
<1>9. idle \in Nat /\ busy \in Nat /\ idle + busy = Cardinality(Below(InUse, slot)) /\ ppc' = "scan"
  BY <1>0, PoolAssumption DEF TypeOK, ScanSum
<1>10. idle' + busy' = Cardinality(Below(InUse, slot)')
  BY <1>5, <1>6, <1>7, <1>8, <1>9
<1>11. TypeOK'
  <2>1. idle' \in 0 .. MAXCLIENT /\ busy' \in 0 .. MAXCLIENT
    BY <1>7, <1>8, <1>9, <1>10, PoolAssumption
  <2> QED BY <1>0, <1>1, <1>2, <2>1 DEF TypeOK
<1>12. CountsMatch' /\ ScanSum' /\ SearchInv'
  BY <1>9, <1>10 DEF CountsMatch, ScanSum, SearchInv
<1>13. UpperBound'
  <2> SUFFICES ASSUME ~pending PROVE idle' <= Cardinality(Below(MayCount, slot)')
    BY <1>9 DEF UpperBound
  <2>1. idle <= Cardinality(Below(MayCount, slot))
    BY <1>0 DEF UpperBound
  <2> QED BY <2>1, <1>5, <1>6, <1>7, <1>8, <1>9
<1>14. LowerBound'
  <2> SUFFICES ASSUME ~pending, ~killed PROVE Cardinality(Below(MustCount, slot)') <= idle'
    BY <1>9 DEF LowerBound
  <2>1. Cardinality(Below(MustCount, slot)) <= idle
    BY <1>0 DEF LowerBound
  <2> QED BY <2>1, <1>5, <1>6, <1>7, <1>8, <1>9
<1> QED BY <1>11, <1>12, <1>13, <1>14 DEF Inv

\* The scan ends: what it counted below MAXCLIENT it counted of the whole table.
LEMMA ScanEndStep ==
    ASSUME Inv, ScanEnd
    PROVE  Inv'
<1> USE DEF ScanEnd, network, pool
<1>0. TypeOK /\ ScanSum /\ UpperBound /\ LowerBound
  BY DEF Inv
<1>1. InUse' = InUse /\ MayCount' = MayCount /\ MustCount' = MustCount
  BY DEF InUse, MayCount, MustCount
<1>2. Below(InUse, slot) = InUse /\ Below(MayCount, slot) = MayCount /\ Below(MustCount, slot) = MustCount
  BY SetsFact, BelowFact
<1>3. ppc' \in {"del", "add", "suspend"}
  OBVIOUS
<1>4. TypeOK'
  BY <1>0, <1>3 DEF TypeOK
<1>5. CountsMatch' /\ ScanSum' /\ SearchInv'
  BY <1>0, <1>1, <1>2, <1>3 DEF CountsMatch, ScanSum, SearchInv
<1>6. UpperBound' /\ LowerBound'
  BY <1>0, <1>1, <1>2, <1>3 DEF UpperBound, LowerBound
<1> QED BY <1>4, <1>5, <1>6 DEF Inv

\* A step of the parent that changes neither the table nor its counts.
LEMMA QuietStep ==
    ASSUME Inv, TypeOK', UNCHANGED <<pool, counts, child, pending, killed>>,
           ppc # "scan", ppc' # "scan", ppc' = "search" => idle_count > 0
    PROVE  Inv'
<1> USE DEF Inv, counts, pool
<1>1. InUse' = InUse /\ MayCount' = MayCount /\ MustCount' = MustCount
  BY DEF InUse, MayCount, MustCount
<1>2. CountsMatch' /\ ScanSum' /\ SearchInv'
  BY <1>1 DEF CountsMatch, ScanSum, SearchInv
<1>3. UpperBound' /\ LowerBound'
  BY <1>1 DEF UpperBound, LowerBound
<1> QED BY <1>2, <1>3

\* main asks for one server less: only while idle_count > MAXSPARESERVER.
LEMMA DelCallStep ==
    ASSUME Inv, DelCall
    PROVE  Inv'
<1> USE DEF DelCall, counts, network, pool
<1>0. TypeOK
  BY DEF Inv
<1>1. ppc' \in {"search", "suspend"} /\ (ppc' = "search" => i < idle_count - MAXSPARESERVER)
  OBVIOUS
<1>2. ppc' = "search" => idle_count > 0
  BY <1>0, <1>1, PoolAssumption DEF TypeOK
<1>3. TypeOK'
  BY <1>0, <1>1, PoolAssumption DEF TypeOK
<1> QED BY <1>1, <1>2, <1>3, QuietStep

\* A server is killed: it was idle, so each count that drops drops by one.
LEMMA KillStep ==
    ASSUME Inv, DelSlot, used[slot], state[slot] = "IDLE"
    PROVE  Inv'
<1> USE DEF DelSlot, network
<1>0. TypeOK /\ CountsMatch /\ SearchInv /\ UpperBound
  BY DEF Inv
<1>1. slot \in Slots /\ ppc' = "del" /\ killed' /\ pending' = pending
  BY <1>0, PoolAssumption DEF TypeOK, Slots
<1>2. used' = [used EXCEPT ![slot] = FALSE] /\ child' = [child EXCEPT ![slot] = "none"]
  OBVIOUS
<1>3. InUse' = InUse \ {slot} /\ slot \in InUse
  BY <1>0, <1>1, <1>2 DEF InUse, TypeOK
<1>4. MayCount' = MayCount \ {slot} /\ slot \in MayCount
  BY <1>0, <1>1, <1>2 DEF InUse, MayCount, TypeOK
<1>5. /\ Cardinality(InUse') = Cardinality(InUse) - 1 /\ Cardinality(InUse) \in Nat
      /\ Cardinality(MayCount') = Cardinality(MayCount) - 1 /\ Cardinality(MayCount) \in Nat
  BY <1>3, <1>4, SetsFact, CardFact
<1>6. idle_count > 0 /\ idle_count' = idle_count - 1 /\ busy_count' = busy_count
  BY <1>0 DEF SearchInv
<1>7. TypeOK'
  <2>1. used' \in [Slots -> BOOLEAN]
    BY <1>0, <1>2 DEF TypeOK
  <2>2. idle_count' \in 0 .. MAXCLIENT /\ i' \in Nat
    BY <1>0, <1>6, PoolAssumption DEF TypeOK
  <2>3. child' \in [Slots -> {"none", "set_idle", "notify_idle", "accept", "set_busy",
                              "notify_busy", "serve", "dead"}]
    BY <1>0, <1>2 DEF TypeOK
  <2>4. killed' \in BOOLEAN
    OBVIOUS
  <2> QED BY <1>0, <1>1, <2>1, <2>2, <2>3, <2>4 DEF TypeOK
<1>8. CountsMatch'
  BY <1>0, <1>1, <1>5, <1>6 DEF CountsMatch, TypeOK
<1>9. UpperBound'
  <2>1. ~pending => idle_count <= Cardinality(MayCount)
    BY <1>0 DEF UpperBound
  <2> QED BY <1>0, <1>1, <1>5, <1>6, <2>1 DEF UpperBound, TypeOK
<1>10. ScanSum' /\ SearchInv' /\ LowerBound'
  BY <1>1 DEF ScanSum, SearchInv, LowerBound
<1> QED BY <1>7, <1>8, <1>9, <1>10 DEF Inv

LEMMA DelSlotStep ==
    ASSUME Inv, DelSlot
    PROVE  Inv'
<1>1. CASE used[slot] /\ state[slot] = "IDLE"
  BY <1>1, KillStep
<1>2. CASE ~(used[slot] /\ state[slot] = "IDLE")
  <2>0. TypeOK /\ SearchInv
    BY DEF Inv
  <2>1. /\ slot' = slot + 1 /\ slot < MAXCLIENT /\ ppc = "search"
        /\ UNCHANGED <<pool, counts, child, ppc, pending, killed, i, idle, busy, network>>
    BY <1>2 DEF DelSlot, pool, counts, network
  <2>2. TypeOK'
    BY <2>0, <2>1, PoolAssumption DEF TypeOK, pool, counts, network
  <2> QED BY <2>0, <2>1, <2>2, QuietStep DEF SearchInv
<1> QED BY <1>1, <1>2

LEMMA DelNoneStep ==
    ASSUME Inv, DelNone
    PROVE  Inv'
<1>0. TypeOK
  BY DEF Inv
<1>1. TypeOK'
  BY <1>0 DEF DelNone, TypeOK, pool, counts, network
<1> QED BY <1>1, QuietStep DEF DelNone

LEMMA AddFullStep ==
    ASSUME Inv, Adding, AddFull
    PROVE  Inv'
<1>0. TypeOK
  BY DEF Inv
<1>1. TypeOK'
  BY <1>0 DEF AddFull, TypeOK, pool, counts, network
<1> QED BY <1>1, QuietStep DEF AddFull, Adding

LEMMA ForkFailStep ==
    ASSUME Inv, Adding, ForkFail
    PROVE  Inv'
<1>0. TypeOK
  BY DEF Inv
<1>1. TypeOK'
  BY <1>0, PoolAssumption DEF ForkFail, TypeOK, pool, counts, locals
<1> QED BY <1>1, QuietStep DEF ForkFail, Adding

LEMMA AddEndStep ==
    ASSUME Inv, AddEnd
    PROVE  Inv'
<1>0. TypeOK
  BY DEF Inv
<1>1. TypeOK'
  BY <1>0 DEF AddEnd, TypeOK, pool, counts, locals, network
<1> QED BY <1>1, QuietStep DEF AddEnd

\* add_1_server stays in the table: the counts leave room, so a slot is free.
LEMMA AddOneStep ==
    ASSUME Inv, Adding, AddOne
    PROVE  Inv'
<1> USE DEF network
<1>0. TypeOK /\ CountsMatch /\ UpperBound /\ LowerBound
  BY DEF Inv
<1>1. ppc \in {"start", "add"} /\ ppc' = ppc /\ pending' = pending /\ killed' = killed
  BY DEF Adding, AddOne
<1>2. FreeSlots # {}
  <2> SUFFICES ASSUME FreeSlots = {} PROVE FALSE
    OBVIOUS
  <2>1. InUse = Slots
    BY DEF FreeSlots, InUse
  <2>2. Cardinality(InUse) = MAXCLIENT
    BY <2>1, PoolAssumption, FS_Interval DEF Slots
  <2>3. idle_count + busy_count = MAXCLIENT
    BY <1>0, <1>1, <2>2 DEF CountsMatch
  <2> QED BY <1>0, <2>3, PoolAssumption DEF AddOne, TypeOK
<1> DEFINE s == CHOOSE n \in FreeSlots : \A m \in FreeSlots : n <= m
<1>3. s \in FreeSlots
  BY <1>2, FreeSlotFact
<1>4. /\ state' = [state EXCEPT ![s] = "IDLE"]
      /\ used' = [used EXCEPT ![s] = TRUE]
      /\ child' = [child EXCEPT ![s] = "set_idle"]
  BY <1>2 DEF AddOne
<1>5. /\ idle_count + busy_count < MAXCLIENT
      /\ idle_count' = idle_count + 1 /\ busy_count' = busy_count /\ i' = i + 1
      /\ UNCHANGED <<slot, idle, busy, waiting, faults>>
  BY DEF AddOne
<1> HIDE DEF s
<1>6. s \in Slots /\ s \notin InUse
  BY <1>3 DEF FreeSlots
<1>7. InUse' = InUse \cup {s}
  BY <1>0, <1>4, <1>6 DEF InUse, TypeOK
<1>8. MayCount' = MayCount \cup {s} /\ MustCount' = MustCount \cup {s}
  BY <1>0, <1>4, <1>6 DEF InUse, MayCount, MustCount, TypeOK
<1>9. /\ Cardinality(InUse') = Cardinality(InUse) + 1 /\ Cardinality(InUse) \in Nat
      /\ Cardinality(MayCount') = Cardinality(MayCount) + 1 /\ Cardinality(MayCount) \in Nat
      /\ Cardinality(MustCount') = Cardinality(MustCount) + 1 /\ Cardinality(MustCount) \in Nat
  <2>1. s \in Slots \ InUse /\ s \in Slots \ MayCount /\ s \in Slots \ MustCount
    BY <1>6, SetsFact
  <2> QED BY <1>7, <1>8, <2>1, SetsFact, CardFact
<1>10. TypeOK'
  <2>1. used' \in [Slots -> BOOLEAN]
    BY <1>0, <1>4 DEF TypeOK
  <2>2. idle_count' \in 0 .. MAXCLIENT /\ i' \in Nat
    BY <1>0, <1>5, PoolAssumption DEF TypeOK
  <2>3. /\ state' \in [Slots -> {"IDLE", "BUSY"}]
        /\ child' \in [Slots -> {"none", "set_idle", "notify_idle", "accept", "set_busy",
                                 "notify_busy", "serve", "dead"}]
    BY <1>0, <1>4 DEF TypeOK
  <2> QED BY <1>0, <1>1, <1>5, <2>1, <2>2, <2>3 DEF TypeOK
<1>11. CountsMatch'
  BY <1>0, <1>1, <1>5, <1>9 DEF CountsMatch, TypeOK
<1>12. UpperBound'
  BY <1>0, <1>1, <1>5, <1>9 DEF UpperBound, TypeOK
<1>13. LowerBound'
  BY <1>0, <1>1, <1>5, <1>9 DEF LowerBound, TypeOK
<1>14. ScanSum' /\ SearchInv'
  BY <1>1 DEF ScanSum, SearchInv
<1> QED BY <1>10, <1>11, <1>12, <1>13, <1>14 DEF Inv

-----------------------------------------------------------------------------
\* Every step preserves the invariant.
LEMMA StepInv == Inv /\ [Next]_vars => Inv'
<1> SUFFICES ASSUME Inv, [Next]_vars PROVE Inv'
  OBVIOUS
<1>1. CASE Parent
  BY <1>1, WaitStep, ScanSlotStep, ScanEndStep, DelCallStep, DelSlotStep, DelNoneStep,
     AddFullStep, AddOneStep, ForkFailStep, AddEndStep DEF Parent, add_1_server
<1>2. ASSUME NEW s \in Slots, Child(s) \/ AcceptFail(s) PROVE Inv'
  BY <1>2, ChildStep
<1>3. CASE Connect
  <2>1. TypeOK'
    BY <1>3, PoolAssumption DEF Inv, TypeOK, Connect, pool, counts, locals
  <2>2. MayCount' = MayCount /\ MustCount' = MustCount
    BY <1>3 DEF Connect, pool, MayCount, MustCount, InUse
  <2> QED BY <1>3, <2>1, <2>2, ChildMoves DEF Connect, pool
<1>4. CASE UNCHANGED vars
  <2>1. TypeOK'
    BY <1>4 DEF Inv, TypeOK, vars, pool, counts, locals, network
  <2>2. MayCount' = MayCount /\ MustCount' = MustCount
    BY <1>4 DEF vars, pool, MayCount, MustCount, InUse
  <2> QED BY <1>4, <2>1, <2>2, ChildMoves DEF vars, pool
<1> QED BY <1>1, <1>2, <1>3, <1>4 DEF Next

LEMMA Invariance == Spec => []Inv
  BY InitInv, StepInv, PTL DEF Spec

\* Every variable keeps its type; slot numbers stay in serverpool[].
THEOREM TypeCorrect == Spec => []TypeOK
<1>1. Inv => TypeOK
  BY DEF Inv
<1> QED BY <1>1, Invariance, PTL

\* Outside scan_pool the two counts of the parent add up to the slots in use,
\* for every size of the table and every order of the children's steps, so
\* the unguarded search of add_1_server never leaves the table.
THEOREM CountsAddUp == Spec => []CountsMatch
<1>1. Inv => CountsMatch
  BY DEF Inv
<1> QED BY <1>1, Invariance, PTL

\* A parent that sleeps with no signal pending or about to come believes in no
\* idle server that is not there, and is exactly right unless it killed one
\* since its last scan.
THEOREM ParentInformed == Spec => []SleepsInformed
<1>1. Inv => SleepsInformed
  <2> SUFFICES ASSUME Inv, ppc = "suspend", ~pending, ~AboutToNotify
               PROVE  /\ idle_count <= Cardinality(IdleSlots)
                      /\ ~killed => idle_count = Cardinality(IdleSlots) /\ busy_count = Cardinality(BusySlots)
    BY DEF SleepsInformed
  <2>0. TypeOK /\ CountsMatch /\ UpperBound /\ LowerBound
    BY DEF Inv
  <2>1. MayCount = IdleSlots /\ MustCount = IdleSlots
    BY DEF MayCount, MustCount, IdleSlots, AboutToNotify, InUse
  <2>2. idle_count <= Cardinality(IdleSlots)
    BY <2>0, <2>1 DEF UpperBound
  <2>3. ~killed => Cardinality(IdleSlots) <= idle_count
    BY <2>0, <2>1 DEF LowerBound
  <2>4. BusySlots = InUse \ IdleSlots /\ InUse \cap IdleSlots = IdleSlots
    BY <2>0 DEF BusySlots, IdleSlots, InUse, TypeOK
  <2>5. IsFiniteSet(InUse)
    <3>1. IsFiniteSet(Slots)
      BY FS_Interval, PoolAssumption DEF Slots
    <3> QED BY <3>1, SetsFact, FS_Subset
  <2>6. Cardinality(BusySlots) = Cardinality(InUse) - Cardinality(IdleSlots)
    BY <2>4, <2>5, FS_Difference
  <2>7. Cardinality(InUse) \in Nat /\ Cardinality(IdleSlots) \in Nat
    BY <2>1, SetsFact, CardFact
  <2>8. idle_count + busy_count = Cardinality(InUse) /\ idle_count \in Nat /\ busy_count \in Nat
    BY <2>0, PoolAssumption DEF CountsMatch, TypeOK
  <2> QED BY <2>2, <2>3, <2>6, <2>7, <2>8
<1> QED BY <1>1, Invariance, PTL
=============================================================================
