--------------------------- MODULE StatPoolProofs ---------------------------
(***************************************************************************)
(* Proofs about StatPool, for any number of workers, any length of the     *)
(* queue and any tree.                                                     *)
(*                                                                         *)
(* That no directory is walked twice rests on three facts that support     *)
(* each other: a directory is in one place (PlaceInv), so no two workers   *)
(* read the same one; what they have still to read was not seen before     *)
(* (TodoInv); and what was seen belongs to a directory that is being read  *)
(* or has been dealt with (SeenInv).                                       *)
(***************************************************************************)
EXTENDS StatPool, FiniteSetTheorems, TLAPS

\* The workers on their way to the queue, for a task and for room.
Takers  == {w \in Workers : pc[w] = "dequeue" /\ w \notin cond_not_empty}
Putters == {w \in Workers : pc[w] = "enqueue" /\ w \notin cond_not_full}

\* The cells that hold directory d, the workers that have it as dir_name, and
\* those that are about to enqueue it.
CellsOf(d)    == {c \in Occupied : task_queue[c] = d}
WalkersOf(d)  == {w \in Workers : pc[w] \in {"open", "walk", "enqueue"} /\ dir[w] = d}
CarriersOf(d) == {w \in Workers : pc[w] = "enqueue" /\ sub[w] = d}

Reading(w) == pc[w] \in {"walk", "enqueue"}

\* A thread sleeps on the condition of the call it is in.
SleepInv ==
    /\ \A w \in cond_not_empty : pc[w] = "dequeue"
    /\ \A w \in cond_not_full : pc[w] = "enqueue"

RingInv == queue_rear = (queue_front + queue_count) % QUEUE_MAX

\* Before the first directory is enqueued nothing has happened.
StartInv ==
    mpc = "start" =>
      /\ queue_count = 0 /\ ~done_flag /\ seen = {} /\ ended = {}
      /\ \A w \in Workers : pc[w] = "dequeue"

\* The last worker leaves an empty queue behind.
EmptyInv == (\A w \in Workers : pc[w] = "exited") => queue_count = 0

\* The places of d are none, or exactly one.
Nowhere(d) == CellsOf(d) = {} /\ WalkersOf(d) = {} /\ CarriersOf(d) = {} /\ d \notin ended
Somewhere(d) ==
    \/ \E c \in Cells : CellsOf(d) = {c} /\ WalkersOf(d) = {} /\ CarriersOf(d) = {} /\ d \notin ended
    \/ \E w \in Workers : CellsOf(d) = {} /\ WalkersOf(d) = {w} /\ CarriersOf(d) = {} /\ d \notin ended
    \/ \E w \in Workers : CellsOf(d) = {} /\ WalkersOf(d) = {} /\ CarriersOf(d) = {w} /\ d \notin ended
    \/ CellsOf(d) = {} /\ WalkersOf(d) = {} /\ CarriersOf(d) = {} /\ d \in ended

PlaceInv ==
    mpc # "start" =>
      \A d \in Dirs : IF d \in seen \cup {Root} THEN Somewhere(d) ELSE Nowhere(d)

\* What a worker has still to read belongs to its directory and is new.
TodoInv ==
    \A w \in Workers :
      /\ ~Reading(w) => todo[w] = {}
      /\ Reading(w) => todo[w] \subseteq Entries[dir[w]] /\ todo[w] \cap seen = {}

\* What was seen belongs to a directory that has been dealt with, or to one
\* that a worker is reading and has got past it.
SeenInv ==
    \A d \in Dirs : \A e \in Entries[d] \cap seen :
      \/ d \in ended
      \/ \E w \in Workers : Reading(w) /\ dir[w] = d /\ e \notin todo[w]

CountInv ==
    /\ IsFiniteSet(seen)
    /\ file_count = Cardinality(seen \cap Files)
    /\ dir_count = Cardinality(seen \cap Dirs)

Inv ==
    /\ TypeOK /\ SleepInv /\ RingInv /\ StartInv /\ EmptyInv
    /\ NoLostWakeup
    /\ PlaceInv /\ TodoInv /\ SeenInv /\ CountInv

-----------------------------------------------------------------------------
\* The ring.

LEMMA ModFact ==
    ASSUME NEW N \in Nat \ {0}, NEW a \in Int
    PROVE  /\ 0 <= a /\ a < N => a % N = a
           /\ -N <= a /\ a < 0 => a % N = a + N
           /\ N <= a /\ a < N + N => a % N = a - N
<1>1. 0 <= a /\ a < N => a % N = a
  OBVIOUS
<1>2. -N <= a /\ a < 0 => a % N = a + N
  OBVIOUS
<1>3. N <= a /\ a < N + N => a % N = a - N
  OBVIOUS
<1> QED BY <1>1, <1>2, <1>3

\* How far cell c is behind the front of the ring.
LEMMA DistanceFact ==
    ASSUME NEW f \in Cells, NEW c \in Cells
    PROVE  (c - f) % QUEUE_MAX = IF c >= f THEN c - f ELSE c - f + QUEUE_MAX
<1>1. QUEUE_MAX \in Nat \ {0} /\ c \in Nat /\ f \in Nat /\ c < QUEUE_MAX /\ f < QUEUE_MAX
  BY StatAssumption DEF Cells
<1>2. CASE c >= f
  <2>1. c - f \in Int /\ 0 <= c - f /\ c - f < QUEUE_MAX
    BY <1>1, <1>2
  <2> QED BY <1>1, <1>2, <2>1, ModFact
<1>3. CASE ~(c >= f)
  <2>1. c - f \in Int /\ -QUEUE_MAX <= c - f /\ c - f < 0
    BY <1>1, <1>3
  <2> QED BY <1>1, <1>3, <2>1, ModFact
<1> QED BY <1>2, <1>3

\* An index that is moved on stays in the ring.
LEMMA AdvanceFact ==
    ASSUME NEW f \in Cells, NEW n \in 0 .. QUEUE_MAX
    PROVE  /\ (f + n) % QUEUE_MAX = IF f + n < QUEUE_MAX THEN f + n ELSE f + n - QUEUE_MAX
           /\ (f + n) % QUEUE_MAX \in Cells
<1>1. QUEUE_MAX \in Nat \ {0} /\ f \in Nat /\ n \in Nat /\ n <= QUEUE_MAX /\ f < QUEUE_MAX
  BY StatAssumption DEF Cells
<1>2. CASE f + n < QUEUE_MAX
  <2>1. f + n \in Int /\ 0 <= f + n
    BY <1>1
  <2>2. (f + n) % QUEUE_MAX = f + n
    BY <1>1, <1>2, <2>1, ModFact
  <2> QED BY <1>1, <1>2, <2>2 DEF Cells
<1>3. CASE ~(f + n < QUEUE_MAX)
  <2>1. f + n \in Int /\ QUEUE_MAX <= f + n /\ f + n < QUEUE_MAX + QUEUE_MAX
    BY <1>1, <1>3
  <2>2. \A a \in Int : QUEUE_MAX <= a /\ a < QUEUE_MAX + QUEUE_MAX => a % QUEUE_MAX = a - QUEUE_MAX
    BY <1>1, ModFact
  <2>3. (f + n) % QUEUE_MAX = (f + n) - QUEUE_MAX
    BY <2>1, <2>2, Zenon
  <2> QED BY <1>1, <1>3, <2>3 DEF Cells
<1> QED BY <1>2, <1>3

\* A put occupies one more cell, which was free.
LEMMA PutFact ==
    ASSUME TypeOK, RingInv, NEW d \in Dirs, Put(d)
    PROVE  /\ Occupied' = Occupied \cup {queue_rear} /\ queue_rear \notin Occupied
           /\ queue_rear \in Cells /\ queue_rear' \in Cells
           /\ RingInv'
           /\ queue_count' \in 0 .. QUEUE_MAX
           /\ task_queue' \in [Cells -> Dirs]
           /\ task_queue'[queue_rear] = d
           /\ \A c \in Occupied : task_queue'[c] = task_queue[c]
<1> USE StatAssumption
<1>1. /\ queue_front \in Cells /\ queue_rear \in Cells /\ queue_count \in 0 .. QUEUE_MAX
      /\ queue_count < QUEUE_MAX /\ queue_front' = queue_front
      /\ queue_count' = queue_count + 1 /\ queue_rear' = (queue_rear + 1) % QUEUE_MAX
      /\ task_queue' = [task_queue EXCEPT ![queue_rear] = d]
      /\ task_queue \in [Cells -> Dirs]
  BY DEF TypeOK, Put
<1>2. queue_count' \in 0 .. QUEUE_MAX
  BY <1>1
<1>3. queue_rear = IF queue_front + queue_count < QUEUE_MAX THEN queue_front + queue_count
                   ELSE queue_front + queue_count - QUEUE_MAX
  BY <1>1, AdvanceFact DEF RingInv
<1>4. /\ queue_rear' = (IF queue_rear + 1 < QUEUE_MAX THEN queue_rear + 1 ELSE queue_rear + 1 - QUEUE_MAX)
      /\ queue_rear' \in Cells
  <2>1. 1 \in 0 .. QUEUE_MAX
    OBVIOUS
  <2> QED BY <1>1, <2>1, AdvanceFact
<1>5. RingInv'
  <2>1. (queue_front + queue_count') % QUEUE_MAX
          = IF queue_front + queue_count' < QUEUE_MAX THEN queue_front + queue_count'
            ELSE queue_front + queue_count' - QUEUE_MAX
    BY <1>1, <1>2, AdvanceFact
  <2>2. queue_rear' = IF queue_front + queue_count' < QUEUE_MAX THEN queue_front + queue_count'
                      ELSE queue_front + queue_count' - QUEUE_MAX
    <3>1. /\ queue_front \in Nat /\ queue_front < QUEUE_MAX /\ queue_count \in Nat /\ QUEUE_MAX \in Nat
          /\ queue_count < QUEUE_MAX /\ queue_count' = queue_count + 1
      BY <1>1 DEF Cells
    <3> HIDE StatAssumption
    <3> QED BY <1>3, <1>4, <3>1
  <2> QED BY <1>1, <2>1, <2>2 DEF RingInv
<1>6. ASSUME NEW c \in Cells
      PROVE  /\ (c - queue_front) % QUEUE_MAX < queue_count + 1
                  <=> (c - queue_front) % QUEUE_MAX < queue_count \/ c = queue_rear
             /\ ~((queue_rear - queue_front) % QUEUE_MAX < queue_count)
  <2>1. (c - queue_front) % QUEUE_MAX = IF c >= queue_front THEN c - queue_front ELSE c - queue_front + QUEUE_MAX
    BY <1>1, DistanceFact
  <2>2. (queue_rear - queue_front) % QUEUE_MAX
           = IF queue_rear >= queue_front THEN queue_rear - queue_front ELSE queue_rear - queue_front + QUEUE_MAX
    BY <1>1, DistanceFact
  <2> QED BY <1>1, <1>3, <2>1, <2>2 DEF Cells
<1>7. Occupied' = Occupied \cup {queue_rear} /\ queue_rear \notin Occupied
  <2>1. Occupied' = {c \in Cells : (c - queue_front) % QUEUE_MAX < queue_count + 1}
    BY <1>1 DEF Occupied, Cells
  <2> QED BY <1>1, <1>6, <2>1 DEF Occupied
<1>8. task_queue' \in [Cells -> Dirs] /\ task_queue'[queue_rear] = d
      /\ \A c \in Cells \ {queue_rear} : task_queue'[c] = task_queue[c]
  BY <1>1
<1>9. Occupied \subseteq Cells
  BY DEF Occupied
<1> QED BY <1>1, <1>2, <1>4, <1>5, <1>7, <1>8, <1>9

\* A take frees the cell at the front.
LEMMA TakeFact ==
    ASSUME TypeOK, RingInv, queue_count > 0,
           queue_front' = (queue_front + 1) % QUEUE_MAX,
           queue_count' = queue_count - 1, queue_rear' = queue_rear
    PROVE  /\ Occupied' = Occupied \ {queue_front} /\ queue_front \in Occupied
           /\ queue_front' \in Cells /\ RingInv'
           /\ queue_count' \in 0 .. QUEUE_MAX
<1> USE StatAssumption
<1>1. /\ queue_front \in Cells /\ queue_rear \in Cells /\ queue_count \in 0 .. QUEUE_MAX
  BY DEF TypeOK
<1>2. queue_count' \in 0 .. QUEUE_MAX
  BY <1>1
<1>3. queue_rear = IF queue_front + queue_count < QUEUE_MAX THEN queue_front + queue_count
                   ELSE queue_front + queue_count - QUEUE_MAX
  BY <1>1, AdvanceFact DEF RingInv
<1>4. /\ queue_front' = (IF queue_front + 1 < QUEUE_MAX THEN queue_front + 1 ELSE queue_front + 1 - QUEUE_MAX)
      /\ queue_front' \in Cells
  <2>1. 1 \in 0 .. QUEUE_MAX
    OBVIOUS
  <2> QED BY <1>1, <2>1, AdvanceFact
<1>5. RingInv'
  <2>1. (queue_front' + queue_count') % QUEUE_MAX
          = IF queue_front' + queue_count' < QUEUE_MAX THEN queue_front' + queue_count'
            ELSE queue_front' + queue_count' - QUEUE_MAX
    BY <1>2, <1>4, AdvanceFact
  <2> QED BY <1>1, <1>3, <1>4, <2>1 DEF RingInv, Cells
<1>6. ASSUME NEW c \in Cells
      PROVE  /\ (c - queue_front') % QUEUE_MAX < queue_count - 1
                  <=> (c - queue_front) % QUEUE_MAX < queue_count /\ c # queue_front
             /\ (queue_front - queue_front) % QUEUE_MAX < queue_count
  <2>1. (c - queue_front) % QUEUE_MAX = IF c >= queue_front THEN c - queue_front ELSE c - queue_front + QUEUE_MAX
    BY <1>1, DistanceFact
  <2>2. (c - queue_front') % QUEUE_MAX = IF c >= queue_front' THEN c - queue_front' ELSE c - queue_front' + QUEUE_MAX
    BY <1>4, DistanceFact
  <2>3. (queue_front - queue_front) % QUEUE_MAX
          = IF queue_front >= queue_front THEN queue_front - queue_front ELSE queue_front - queue_front + QUEUE_MAX
    BY <1>1, DistanceFact
  <2> QED BY <1>1, <1>4, <2>1, <2>2, <2>3 DEF Cells
<1>7. Occupied' = Occupied \ {queue_front} /\ queue_front \in Occupied
  <2>1. Occupied' = {c \in Cells : (c - queue_front') % QUEUE_MAX < queue_count - 1}
    BY DEF Occupied, Cells
  <2> QED BY <1>1, <1>6, <2>1 DEF Occupied
<1> QED BY <1>2, <1>4, <1>5, <1>7

\* An empty queue occupies no cell.
LEMMA EmptyFact ==
    ASSUME TypeOK, queue_count = 0
    PROVE  Occupied = {}
<1> SUFFICES ASSUME NEW c \in Cells PROVE ~((c - queue_front) % QUEUE_MAX < 0)
  BY DEF Occupied
<1>1. (c - queue_front) % QUEUE_MAX = IF c >= queue_front THEN c - queue_front ELSE c - queue_front + QUEUE_MAX
  BY DistanceFact DEF TypeOK
<1> QED BY <1>1, StatAssumption DEF TypeOK, Cells

-----------------------------------------------------------------------------
\* What the steps leave alone.

LEMMA WorkerSets ==
    ASSUME NEW S \in SUBSET Workers
    PROVE  /\ IsFiniteSet(S) /\ Cardinality(S) \in Nat
           /\ \A T \in SUBSET S : Cardinality(T) <= Cardinality(S) /\ Cardinality(T) \in Nat
           /\ \A w \in S : Cardinality(S \ {w}) = Cardinality(S) - 1
           /\ \A w \in Workers \ S : Cardinality(S \cup {w}) = Cardinality(S) + 1
<1>1. IsFiniteSet(S)
  BY StatAssumption, FS_Subset
<1>2. \A T \in SUBSET S : IsFiniteSet(T) /\ Cardinality(T) <= Cardinality(S)
  BY <1>1, FS_Subset
<1>3. Cardinality(S) \in Nat /\ \A T \in SUBSET S : Cardinality(T) \in Nat
  BY <1>1, <1>2, FS_CardinalityType
<1>4. \A w \in S : Cardinality(S \ {w}) = Cardinality(S) - 1
  BY <1>1, FS_RemoveElement
<1>5. \A w \in Workers \ S : Cardinality(S \cup {w}) = Cardinality(S) + 1
  BY <1>1, FS_AddElement
<1> QED BY <1>1, <1>2, <1>3, <1>4, <1>5

\* While the queue stays as it is, more workers on their way do no harm.
LEMMA WakeupsKept ==
    ASSUME TypeOK, NoLostWakeup, queue_count' = queue_count,
           cond_not_empty' # {} => cond_not_empty # {} /\ done_flag' = done_flag,
           cond_not_full' # {} => cond_not_full # {},
           cond_not_empty' # {} => Takers \subseteq Takers',
           cond_not_full' # {} => Putters \subseteq Putters'
    PROVE  NoLostWakeup'
<1>1. Takers' \in SUBSET Workers /\ Putters' \in SUBSET Workers
  BY DEF Takers, Putters
<1>2. cond_not_empty' # {} => queue_count <= Cardinality(Takers')
  <2> SUFFICES ASSUME cond_not_empty' # {} PROVE queue_count <= Cardinality(Takers')
    OBVIOUS
  <2>1. queue_count <= Cardinality(Takers)
    BY DEF NoLostWakeup, Takers
  <2>2. Takers \in SUBSET Takers'
    OBVIOUS
  <2>3. Cardinality(Takers) <= Cardinality(Takers') /\ Cardinality(Takers) \in Nat /\ Cardinality(Takers') \in Nat
    BY <1>1, <2>2, WorkerSets
  <2> QED BY <2>1, <2>3, StatAssumption DEF TypeOK
<1>3. cond_not_full' # {} => QUEUE_MAX - queue_count <= Cardinality(Putters')
  <2> SUFFICES ASSUME cond_not_full' # {} PROVE QUEUE_MAX - queue_count <= Cardinality(Putters')
    OBVIOUS
  <2>1. QUEUE_MAX - queue_count <= Cardinality(Putters)
    BY DEF NoLostWakeup, Putters
  <2>2. Putters \in SUBSET Putters'
    OBVIOUS
  <2>3. Cardinality(Putters) <= Cardinality(Putters') /\ Cardinality(Putters) \in Nat /\ Cardinality(Putters') \in Nat
    BY <1>1, <2>2, WorkerSets
  <2> QED BY <2>1, <2>3, StatAssumption DEF TypeOK
<1> QED BY <1>2, <1>3 DEF NoLostWakeup, Takers, Putters

\* A step that moves no directory keeps each in its place.
LEMMA PlacesKept ==
    ASSUME PlaceInv, mpc' = mpc \/ mpc # "start",
           UNCHANGED <<queue, ended>>, seen' \cap Dirs = seen \cap Dirs,
           \A d \in Dirs : WalkersOf(d)' = WalkersOf(d) /\ CarriersOf(d)' = CarriersOf(d)
    PROVE  PlaceInv'
<1>1. \A d \in Dirs : CellsOf(d)' = CellsOf(d)
  BY DEF CellsOf, Occupied, queue
<1>2. ASSUME NEW d \in Dirs
      PROVE  (Somewhere(d) => Somewhere(d)') /\ (Nowhere(d) => Nowhere(d)')
  BY <1>1 DEF Somewhere, Nowhere
<1>3. \A d \in Dirs : d \in seen' <=> d \in seen
  OBVIOUS
<1> QED BY <1>2, <1>3 DEF PlaceInv

\* A step that reads nothing keeps what is known of reading.
LEMMA ReadingKept ==
    ASSUME TodoInv, SeenInv, CountInv, UNCHANGED <<todo, seen, counters>>, ended \subseteq ended',
           \A w \in Workers : (Reading(w)' <=> Reading(w)) /\ (Reading(w) => dir'[w] = dir[w])
    PROVE  TodoInv' /\ SeenInv' /\ CountInv'
<1>1. TodoInv'
  BY DEF TodoInv
<1>2. SeenInv'
  BY DEF SeenInv
<1>3. CountInv'
  BY DEF CountInv, counters
<1> QED BY <1>1, <1>2, <1>3

LEMMA InitInv == Init => Inv
<1> SUFFICES ASSUME Init PROVE Inv
  OBVIOUS
<1> USE StatAssumption DEF Init
<1>1. TypeOK
  <2>1. 0 \in Cells /\ 0 \in 0 .. QUEUE_MAX
    BY DEF Cells
  <2>2. done_flag \in BOOLEAN
    OBVIOUS
  <2>3. task_queue \in [Cells -> Dirs] /\ dir \in [Workers -> Dirs] /\ sub \in [Workers -> Dirs]
        /\ todo \in [Workers -> SUBSET (Dirs \cup Files)]
        /\ pc \in [Workers -> {"dequeue", "open", "walk", "enqueue", "exited"}]
    OBVIOUS
  <2> QED BY <2>1, <2>2, <2>3 DEF TypeOK
<1>2. SleepInv /\ StartInv /\ EmptyInv /\ NoLostWakeup /\ PlaceInv
  BY DEF SleepInv, StartInv, EmptyInv, NoLostWakeup, PlaceInv
<1>3. RingInv
  <2>1. 0 \in Int /\ QUEUE_MAX \in Nat \ {0} /\ 0 < QUEUE_MAX
    OBVIOUS
  <2>2. 0 % QUEUE_MAX = 0
    BY <2>1, ModFact
  <2> QED BY <2>2 DEF RingInv
<1>4. TodoInv /\ SeenInv
  BY DEF TodoInv, SeenInv, Reading
<1>5. CountInv
  <2>1. seen \cap Files = {} /\ seen \cap Dirs = {}
    OBVIOUS
  <2> QED BY <2>1, FS_EmptySet DEF CountInv
<1> QED BY <1>1, <1>2, <1>3, <1>4, <1>5 DEF Inv

\* A worker that has got to anything but the wait for the first task shows
\* that the main thread has started.
LEMMA NotStart ==
    ASSUME StartInv, NEW w \in Workers, pc[w] # "dequeue"
    PROVE  mpc # "start"
  BY DEF StartInv

-----------------------------------------------------------------------------
\* The conditions.

\* pthread_cond_signal after a put: one sleeper less for one task more.
LEMMA PutWakes ==
    ASSUME TypeOK, SleepInv, NoLostWakeup, NEW d \in Dirs, Put(d), done_flag' = done_flag,
           \A w \in Workers : pc'[w] = "dequeue" <=> pc[w] = "dequeue"
    PROVE  /\ cond_not_empty' \subseteq cond_not_empty
           /\ cond_not_empty' # {} => ~done_flag' /\ queue_count' <= Cardinality(Takers')
<1>1. CASE cond_not_empty = {}
  BY <1>1 DEF Put, Signalled
<1>2. CASE cond_not_empty # {}
  <2>1. PICK v \in cond_not_empty : cond_not_empty' = cond_not_empty \ {v}
    BY <1>2 DEF Put, Signalled
  <2>2. v \in Workers /\ pc[v] = "dequeue" /\ cond_not_empty \subseteq Workers
    BY DEF SleepInv, TypeOK
  <2>3. Takers' = Takers \cup {v} /\ v \notin Takers /\ Takers \in SUBSET Workers
    BY <2>1, <2>2 DEF Takers
  <2>4. Cardinality(Takers') = Cardinality(Takers) + 1 /\ Cardinality(Takers) \in Nat
    BY <2>2, <2>3, WorkerSets
  <2>5. ~done_flag /\ queue_count <= Cardinality(Takers) /\ queue_count \in Nat
    BY <1>2, StatAssumption DEF NoLostWakeup, Takers, TypeOK
  <2>6. queue_count' = queue_count + 1
    BY DEF Put
  <2> QED BY <2>1, <2>4, <2>5, <2>6
<1> QED BY <1>1, <1>2

LEMMA DequeueWaitStep ==
    ASSUME Inv, NEW w \in Workers, DequeueWait(w)
    PROVE  Inv'
<1> USE DEF Inv, DequeueWait, queue, counters, locals
<1>1. TypeOK' /\ SleepInv' /\ RingInv' /\ StartInv' /\ EmptyInv'
  BY DEF TypeOK, SleepInv, RingInv, StartInv, EmptyInv
<1>2. NoLostWakeup'
  <2>1. Putters' = Putters /\ Takers' \in SUBSET Workers
    BY DEF Putters, Takers
  <2>2. Cardinality(Takers') \in Nat
    BY <2>1, WorkerSets
  <2> QED BY <2>1, <2>2 DEF NoLostWakeup, Takers, Putters, TypeOK
<1>3. PlaceInv'
  BY PlacesKept DEF WalkersOf, CarriersOf
<1>4. TodoInv' /\ SeenInv' /\ CountInv'
  BY ReadingKept DEF Reading
<1> QED BY <1>1, <1>2, <1>3, <1>4

LEMMA EnqueueWaitStep ==
    ASSUME Inv, NEW w \in Workers, EnqueueWait(w)
    PROVE  Inv'
<1> USE DEF Inv, EnqueueWait, queue, counters, locals
<1>1. TypeOK' /\ SleepInv' /\ RingInv' /\ StartInv' /\ EmptyInv'
  BY DEF TypeOK, SleepInv, RingInv, StartInv, EmptyInv
<1>2. NoLostWakeup'
  <2>1. Takers' = Takers /\ Putters' \in SUBSET Workers
    BY DEF Putters, Takers
  <2>2. Cardinality(Putters') \in Nat /\ QUEUE_MAX - queue_count <= 0
    BY <2>1, WorkerSets, StatAssumption DEF TypeOK
  <2>3. QUEUE_MAX - queue_count <= Cardinality(Putters')
    BY <2>2, StatAssumption DEF TypeOK
  <2> QED BY <2>1, <2>3 DEF NoLostWakeup, Takers, Putters, TypeOK
<1>3. PlaceInv'
  BY PlacesKept DEF WalkersOf, CarriersOf
<1>4. TodoInv' /\ SeenInv' /\ CountInv'
  BY ReadingKept DEF Reading
<1> QED BY <1>1, <1>2, <1>3, <1>4

LEMMA SpuriousStep ==
    ASSUME Inv, NEW w \in Workers, SpuriousWakeup(w)
    PROVE  Inv'
<1> USE DEF Inv, SpuriousWakeup, queue, counters, locals
<1>1. TypeOK' /\ SleepInv' /\ RingInv' /\ StartInv' /\ EmptyInv'
  BY DEF TypeOK, SleepInv, RingInv, StartInv, EmptyInv
<1>2. NoLostWakeup'
  BY WakeupsKept DEF Takers, Putters
<1>3. PlaceInv'
  BY PlacesKept DEF WalkersOf, CarriersOf
<1>4. TodoInv' /\ SeenInv' /\ CountInv'
  BY ReadingKept DEF Reading
<1> QED BY <1>1, <1>2, <1>3, <1>4

-----------------------------------------------------------------------------
\* The main thread.

\* The root is in the queue, and nothing else is anywhere.
LEMMA MainStartStep ==
    ASSUME Inv, MainStart
    PROVE  Inv'
<1> USE DEF MainStart, counters, locals
<1>0. /\ TypeOK /\ SleepInv /\ RingInv /\ StartInv /\ NoLostWakeup
      /\ TodoInv /\ SeenInv /\ CountInv /\ Root \in Dirs
  BY StatAssumption DEF Inv
<1>1. /\ queue_count = 0 /\ ~done_flag /\ seen = {} /\ ended = {}
      /\ \A w \in Workers : pc[w] = "dequeue"
      /\ UNCHANGED <<done_flag, cond_not_full, file_count, dir_count, pc, dir, todo, sub, seen, ended>>
      /\ mpc' = "poll" /\ Put(Root)
  BY <1>0 DEF StartInv
<1>2. Occupied' = {queue_rear} /\ task_queue'[queue_rear] = Root /\ queue_rear \in Cells
  <2>1. Occupied = {}
    BY <1>0, <1>1, EmptyFact
  <2> QED BY <1>0, <1>1, <2>1, PutFact
<1>3. TypeOK'
  <2>1. /\ queue_rear' \in Cells /\ queue_front' \in Cells /\ queue_count' \in 0 .. QUEUE_MAX
        /\ task_queue' \in [Cells -> Dirs]
    BY <1>0, <1>1, PutFact DEF Put, TypeOK
  <2>2. cond_not_empty' \subseteq Workers
    BY <1>0, <1>1, PutWakes DEF TypeOK
  <2> QED BY <1>0, <1>1, <2>1, <2>2 DEF TypeOK
<1>4. SleepInv' /\ NoLostWakeup'
  <2>1. cond_not_empty' \subseteq cond_not_empty
        /\ (cond_not_empty' # {} => ~done_flag' /\ queue_count' <= Cardinality(Takers'))
    BY <1>0, <1>1, PutWakes
  <2>2. cond_not_full' = {}
    BY <1>0, <1>1 DEF SleepInv, TypeOK
  <2> QED BY <1>0, <1>1, <2>1, <2>2 DEF SleepInv, NoLostWakeup, Takers
<1>5. RingInv' /\ StartInv'
  BY <1>0, <1>1, PutFact DEF StartInv
<1>6. EmptyInv'
  BY <1>1, StatAssumption DEF EmptyInv
<1>7. PlaceInv'
  <2> SUFFICES ASSUME NEW d \in Dirs
               PROVE  IF d = Root THEN Somewhere(d)' ELSE Nowhere(d)'
    BY <1>1 DEF PlaceInv
  <2>1. CellsOf(d)' = (IF d = Root THEN {queue_rear} ELSE {})
    BY <1>2 DEF CellsOf
  <2>2. WalkersOf(d)' = {} /\ CarriersOf(d)' = {} /\ d \notin ended'
    BY <1>1 DEF WalkersOf, CarriersOf
  <2> QED BY <1>2, <2>1, <2>2 DEF Somewhere, Nowhere, Cells
<1>8. TodoInv' /\ SeenInv' /\ CountInv'
  BY <1>0, <1>1, ReadingKept DEF Reading
<1> QED BY <1>3, <1>4, <1>5, <1>6, <1>7, <1>8 DEF Inv

\* The polls and the join change the main thread only; set_done wakes every
\* worker that sleeps for a task.
LEMMA MainStep ==
    ASSUME Inv, MainFindsEmpty \/ MainLooksAgain \/ set_done \/ MainJoin
    PROVE  Inv'
<1> USE DEF queue, conds, counters, locals
<1>0. /\ TypeOK /\ SleepInv /\ RingInv /\ StartInv /\ EmptyInv /\ NoLostWakeup
      /\ PlaceInv /\ TodoInv /\ SeenInv /\ CountInv
  BY DEF Inv
<1>1. /\ UNCHANGED <<task_queue, queue_front, queue_rear, queue_count, cond_not_full, file_count, dir_count,
                     pc, dir, todo, sub, seen, ended>>
      /\ mpc # "start" /\ mpc' \in {"poll", "again", "set_done", "join", "finished"}
      /\ \/ cond_not_empty' = cond_not_empty /\ done_flag' = done_flag
         \/ cond_not_empty' = {} /\ done_flag' = TRUE
  BY DEF MainFindsEmpty, MainLooksAgain, set_done, MainJoin
<1>2. TypeOK'
  <2>1. done_flag' \in BOOLEAN
    BY <1>0, <1>1 DEF TypeOK
  <2> QED BY <1>0, <1>1, <2>1 DEF TypeOK
<1>3. SleepInv' /\ RingInv' /\ StartInv' /\ EmptyInv'
  BY <1>0, <1>1 DEF SleepInv, RingInv, StartInv, EmptyInv
<1>4. NoLostWakeup'
  BY <1>0, <1>1 DEF NoLostWakeup
<1>5. PlaceInv'
  BY <1>0, <1>1, PlacesKept DEF WalkersOf, CarriersOf
<1>6. TodoInv' /\ SeenInv' /\ CountInv'
  BY <1>0, <1>1, ReadingKept DEF Reading
<1> QED BY <1>2, <1>3, <1>4, <1>5, <1>6 DEF Inv

-----------------------------------------------------------------------------
\* The queue.

\* A take: the directory moves from the front cell to the worker, and a worker
\* that sleeps for room is told.
LEMMA DequeueTakeStep ==
    ASSUME Inv, NEW w \in Workers, DequeueTake(w)
    PROVE  Inv'
<1> USE DEF DequeueTake, Goto, counters
<1>0. /\ TypeOK /\ SleepInv /\ RingInv /\ StartInv /\ EmptyInv /\ NoLostWakeup
      /\ PlaceInv /\ TodoInv /\ SeenInv /\ CountInv
  BY DEF Inv
<1> DEFINE d0 == task_queue[queue_front]
<1>1. /\ pc[w] = "dequeue" /\ w \notin cond_not_empty /\ queue_count > 0
      /\ dir' = [dir EXCEPT ![w] = d0] /\ pc' = [pc EXCEPT ![w] = "open"]
      /\ queue_count' = queue_count - 1 /\ cond_not_full' \in Signalled(cond_not_full)
      /\ UNCHANGED <<task_queue, done_flag, cond_not_empty, file_count, dir_count, todo, sub, mpc, seen, ended>>
      /\ mpc # "start"
  BY <1>0 DEF StartInv, TypeOK
<1>2. /\ Occupied' = Occupied \ {queue_front} /\ queue_front \in Occupied
      /\ queue_front' \in Cells /\ RingInv' /\ queue_count' \in 0 .. QUEUE_MAX /\ d0 \in Dirs
  BY <1>0, TakeFact DEF TypeOK
<1> HIDE DEF d0
<1>3. cond_not_full' \subseteq cond_not_full
  BY <1>1 DEF Signalled
<1>4. TypeOK'
  BY <1>0, <1>1, <1>2, <1>3 DEF TypeOK
<1>5. SleepInv' /\ StartInv'
  BY <1>0, <1>1, <1>3 DEF SleepInv, StartInv, TypeOK
<1>6. EmptyInv'
  BY <1>0, <1>1 DEF EmptyInv, TypeOK
<1>7. NoLostWakeup'
  <2>1. Takers' = Takers \ {w} /\ w \in Takers /\ Takers \in SUBSET Workers
    BY <1>0, <1>1 DEF Takers, TypeOK
  <2>2. Cardinality(Takers') = Cardinality(Takers) - 1 /\ Cardinality(Takers) \in Nat
    BY <2>1, WorkerSets
  <2>3. cond_not_empty' # {} => ~done_flag' /\ queue_count' <= Cardinality(Takers')
    BY <1>0, <1>1, <2>2, StatAssumption DEF NoLostWakeup, Takers, TypeOK
  <2>4. cond_not_full' # {} => QUEUE_MAX - queue_count' <= Cardinality(Putters')
    <3> SUFFICES ASSUME cond_not_full' # {} PROVE QUEUE_MAX - queue_count' <= Cardinality(Putters')
      OBVIOUS
    <3>1. cond_not_full # {}
      BY <1>3
    <3>2. PICK v \in cond_not_full : cond_not_full' = cond_not_full \ {v}
      BY <1>1, <3>1 DEF Signalled
    <3>3. v \in Workers /\ pc[v] = "enqueue" /\ cond_not_full \subseteq Workers
      BY <1>0 DEF SleepInv, TypeOK
    <3>4. Putters' = Putters \cup {v} /\ v \notin Putters /\ Putters \in SUBSET Workers
      BY <1>0, <1>1, <3>2, <3>3 DEF Putters, TypeOK
    <3>5. Cardinality(Putters') = Cardinality(Putters) + 1 /\ Cardinality(Putters) \in Nat
      BY <3>3, <3>4, WorkerSets
    <3>6. QUEUE_MAX - queue_count <= Cardinality(Putters)
      BY <1>0, <3>1 DEF NoLostWakeup, Putters
    <3> QED BY <1>0, <1>1, <3>5, <3>6, StatAssumption DEF TypeOK
  <2> QED BY <2>3, <2>4 DEF NoLostWakeup, Takers, Putters
<1>8. PlaceInv'
  <2> SUFFICES ASSUME NEW d \in Dirs
               PROVE  IF d \in seen \cup {Root} THEN Somewhere(d)' ELSE Nowhere(d)'
    BY <1>1 DEF PlaceInv
  <2>1. IF d \in seen \cup {Root} THEN Somewhere(d) ELSE Nowhere(d)
    BY <1>0, <1>1 DEF PlaceInv
  <2>2. CarriersOf(d)' = CarriersOf(d) /\ ended' = ended
    BY <1>0, <1>1 DEF CarriersOf, TypeOK
  <2>3. CASE d = d0
    <3>1. CellsOf(d)' = CellsOf(d) \ {queue_front} /\ queue_front \in CellsOf(d)
      BY <1>1, <1>2, <2>3 DEF CellsOf, d0
    <3>2. WalkersOf(d)' = WalkersOf(d) \cup {w}
      BY <1>0, <1>1, <2>3 DEF WalkersOf, TypeOK
    <3>3. CellsOf(d) = {queue_front} /\ WalkersOf(d) = {} /\ CarriersOf(d) = {} /\ d \notin ended
          /\ d \in seen \cup {Root}
      BY <2>1, <3>1 DEF Somewhere, Nowhere
    <3> QED BY <2>2, <3>1, <3>2, <3>3 DEF Somewhere
  <2>4. CASE d # d0
    <3>1. CellsOf(d)' = CellsOf(d)
      BY <1>1, <1>2, <2>4 DEF CellsOf, d0
    <3>2. WalkersOf(d)' = WalkersOf(d)
      BY <1>0, <1>1, <2>4 DEF WalkersOf, TypeOK
    <3> QED BY <2>1, <2>2, <3>1, <3>2 DEF Somewhere, Nowhere, Cells
  <2> QED BY <2>3, <2>4
<1>9. TodoInv' /\ SeenInv' /\ CountInv'
  <2>1. \A v \in Workers : (Reading(v)' <=> Reading(v)) /\ (Reading(v) => dir'[v] = dir[v])
    BY <1>0, <1>1 DEF Reading, TypeOK
  <2> QED BY <1>0, <1>1, <2>1, ReadingKept
<1> QED BY <1>2, <1>4, <1>5, <1>6, <1>7, <1>8, <1>9 DEF Inv

\* NULL is returned only when no worker sleeps for a task any more.
LEMMA DequeueNullStep ==
    ASSUME Inv, NEW w \in Workers, DequeueNull(w)
    PROVE  Inv'
<1> USE DEF DequeueNull, Goto, counters, queue, conds, locals
<1>0. /\ TypeOK /\ SleepInv /\ RingInv /\ StartInv /\ EmptyInv /\ NoLostWakeup
      /\ PlaceInv /\ TodoInv /\ SeenInv /\ CountInv
  BY DEF Inv
<1>1. mpc # "start" /\ cond_not_empty = {}
  BY <1>0 DEF StartInv, NoLostWakeup
<1>2. TypeOK' /\ SleepInv' /\ RingInv' /\ StartInv'
  BY <1>0, <1>1 DEF TypeOK, SleepInv, RingInv, StartInv
<1>3. EmptyInv'
  BY DEF EmptyInv
<1>4. NoLostWakeup'
  <2>1. Putters' = Putters
    BY <1>0 DEF Putters, TypeOK
  <2> QED BY <1>0, <1>1, <2>1, WakeupsKept
<1>5. PlaceInv'
  <2>1. \A d \in Dirs : WalkersOf(d)' = WalkersOf(d) /\ CarriersOf(d)' = CarriersOf(d)
    BY <1>0 DEF WalkersOf, CarriersOf, TypeOK
  <2> QED BY <1>0, <2>1, PlacesKept
<1>6. TodoInv' /\ SeenInv' /\ CountInv'
  <2>1. \A v \in Workers : Reading(v)' <=> Reading(v)
    BY <1>0 DEF Reading, TypeOK
  <2> QED BY <1>0, <2>1, ReadingKept
<1> QED BY <1>2, <1>3, <1>4, <1>5, <1>6 DEF Inv

\* A put: the directory moves from the worker to the rear cell.
LEMMA EnqueuePutStep ==
    ASSUME Inv, NEW w \in Workers, EnqueuePut(w)
    PROVE  Inv'
<1> USE DEF EnqueuePut, Goto, counters, locals
<1>0. /\ TypeOK /\ SleepInv /\ RingInv /\ StartInv /\ EmptyInv /\ NoLostWakeup
      /\ PlaceInv /\ TodoInv /\ SeenInv /\ CountInv
  BY DEF Inv
<1> DEFINE d0 == sub[w]
<1>1. /\ pc[w] = "enqueue" /\ w \notin cond_not_full /\ pc' = [pc EXCEPT ![w] = "walk"]
      /\ Put(d0) /\ d0 \in Dirs
      /\ UNCHANGED <<done_flag, cond_not_full, file_count, dir_count, dir, todo, sub, mpc, seen, ended>>
  BY <1>0 DEF TypeOK
<1>2. mpc # "start"
  BY <1>0, <1>1, NotStart
<1> HIDE DEF d0
<1>3. /\ Occupied' = Occupied \cup {queue_rear} /\ queue_rear \notin Occupied
      /\ queue_rear \in Cells /\ queue_rear' \in Cells
      /\ RingInv' /\ queue_count' \in 0 .. QUEUE_MAX
      /\ task_queue' \in [Cells -> Dirs] /\ task_queue'[queue_rear] = d0
      /\ \A c \in Occupied : task_queue'[c] = task_queue[c]
  BY <1>0, <1>1, PutFact
<1>4. \A v \in Workers : pc'[v] = "dequeue" <=> pc[v] = "dequeue"
  BY <1>0, <1>1 DEF TypeOK
<1>5. /\ cond_not_empty' \subseteq cond_not_empty
      /\ cond_not_empty' # {} => ~done_flag' /\ queue_count' <= Cardinality(Takers')
  BY <1>0, <1>1, <1>4, PutWakes
<1>6. TypeOK'
  <2>1. queue_front' = queue_front
    BY <1>1 DEF Put
  <2> QED BY <1>0, <1>1, <1>3, <1>5, <2>1 DEF TypeOK
<1>7. SleepInv' /\ StartInv'
  BY <1>0, <1>1, <1>2, <1>5 DEF SleepInv, StartInv, TypeOK
<1>8. EmptyInv'
  BY <1>0, <1>1 DEF EmptyInv, TypeOK
<1>9. NoLostWakeup'
  <2>1. Putters' = Putters \ {w} /\ w \in Putters /\ Putters \in SUBSET Workers
    BY <1>0, <1>1 DEF Putters, TypeOK
  <2>2. Cardinality(Putters') = Cardinality(Putters) - 1 /\ Cardinality(Putters) \in Nat
    BY <2>1, WorkerSets
  <2>3. cond_not_full' # {} => QUEUE_MAX - queue_count' <= Cardinality(Putters')
    BY <1>0, <1>1, <2>2, StatAssumption DEF NoLostWakeup, Putters, TypeOK, Put
  <2> QED BY <1>5, <2>3 DEF NoLostWakeup, Takers, Putters
<1>10. PlaceInv'
  <2> SUFFICES ASSUME NEW d \in Dirs
               PROVE  IF d \in seen \cup {Root} THEN Somewhere(d)' ELSE Nowhere(d)'
    BY <1>1 DEF PlaceInv
  <2>1. IF d \in seen \cup {Root} THEN Somewhere(d) ELSE Nowhere(d)
    BY <1>0, <1>2 DEF PlaceInv
  <2>2. WalkersOf(d)' = WalkersOf(d) /\ ended' = ended
    BY <1>0, <1>1 DEF WalkersOf, TypeOK
  <2>3. CASE d = d0
    <3>1. CarriersOf(d)' = CarriersOf(d) \ {w} /\ w \in CarriersOf(d)
      BY <1>0, <1>1, <2>3 DEF CarriersOf, TypeOK, d0
    <3>2. CellsOf(d)' = CellsOf(d) \cup {queue_rear}
      BY <1>3, <2>3 DEF CellsOf
    <3>3. CellsOf(d) = {} /\ WalkersOf(d) = {} /\ CarriersOf(d) = {w} /\ d \notin ended
          /\ d \in seen \cup {Root}
      BY <2>1, <3>1 DEF Somewhere, Nowhere
    <3> QED BY <1>3, <2>2, <3>1, <3>2, <3>3 DEF Somewhere, Cells
  <2>4. CASE d # d0
    <3>1. CarriersOf(d)' = CarriersOf(d)
      BY <1>0, <1>1, <2>4 DEF CarriersOf, TypeOK, d0
    <3>2. CellsOf(d)' = CellsOf(d)
      BY <1>3, <2>4 DEF CellsOf
    <3> QED BY <2>1, <2>2, <3>1, <3>2 DEF Somewhere, Nowhere, Cells
  <2> QED BY <2>3, <2>4
<1>11. TodoInv' /\ SeenInv' /\ CountInv'
  <2>1. \A v \in Workers : Reading(v)' <=> Reading(v)
    BY <1>0, <1>1 DEF Reading, TypeOK
  <2> QED BY <1>0, <1>1, <2>1, ReadingKept
<1> QED BY <1>3, <1>6, <1>7, <1>8, <1>9, <1>10, <1>11 DEF Inv

\* Of a directory that is dealt with: the worker w was its only place.
LEMMA EndedPlaces ==
    ASSUME PlaceInv, mpc # "start", mpc' = mpc, NEW w \in Workers, NEW d0 \in Dirs,
           UNCHANGED <<queue, seen>>, ended' = ended \cup {d0},
           \A d \in Dirs : \/ /\ WalkersOf(d)' = WalkersOf(d)
                              /\ CarriersOf(d)' = CarriersOf(d)
                              /\ d # d0
                           \/ /\ WalkersOf(d) = WalkersOf(d)' \cup {w} /\ w \notin WalkersOf(d)'
                              /\ CarriersOf(d)' = CarriersOf(d)
                              /\ d = d0
                           \/ /\ CarriersOf(d) = CarriersOf(d)' \cup {w} /\ w \notin CarriersOf(d)'
                              /\ WalkersOf(d)' = WalkersOf(d)
                              /\ d = d0
    PROVE  PlaceInv'
<1> SUFFICES ASSUME NEW d \in Dirs
             PROVE  IF d \in seen \cup {Root} THEN Somewhere(d)' ELSE Nowhere(d)'
  BY DEF PlaceInv
<1>1. IF d \in seen \cup {Root} THEN Somewhere(d) ELSE Nowhere(d)
  BY DEF PlaceInv
<1>2. CellsOf(d)' = CellsOf(d)
  BY DEF CellsOf, Occupied, queue
<1>3. CASE d = d0
  <2>1. WalkersOf(d) # {} \/ CarriersOf(d) # {}
    BY <1>3
  <2>2. d \in seen \cup {Root} /\ Somewhere(d)
    BY <1>1, <2>1 DEF Nowhere
  <2>3. CellsOf(d)' = {} /\ WalkersOf(d)' = {} /\ CarriersOf(d)' = {}
    BY <1>2, <1>3, <2>1, <2>2 DEF Somewhere
  <2> QED BY <1>3, <2>2, <2>3 DEF Somewhere
<1>4. CASE d # d0
  BY <1>1, <1>2, <1>4 DEF Somewhere, Nowhere, Cells
<1> QED BY <1>3, <1>4

\* A directory that finds no room after done_flag is dropped.
LEMMA EnqueueDropStep ==
    ASSUME Inv, NEW w \in Workers, EnqueueDrop(w)
    PROVE  Inv'
<1> USE DEF EnqueueDrop, Goto, counters, queue, conds, locals
<1>0. /\ TypeOK /\ SleepInv /\ RingInv /\ StartInv /\ EmptyInv /\ NoLostWakeup
      /\ PlaceInv /\ TodoInv /\ SeenInv /\ CountInv
  BY DEF Inv
<1>1. mpc # "start" /\ sub[w] \in Dirs
  BY <1>0, NotStart DEF TypeOK
<1>2. TypeOK' /\ SleepInv' /\ RingInv' /\ StartInv'
  BY <1>0, <1>1 DEF TypeOK, SleepInv, RingInv, StartInv
<1>3. EmptyInv'
  BY <1>0 DEF EmptyInv, TypeOK
<1>4. NoLostWakeup'
  <2>1. cond_not_empty = {}
    BY <1>0 DEF NoLostWakeup
  <2>2. QUEUE_MAX - queue_count <= 0 /\ QUEUE_MAX - queue_count \in Int
    BY <1>0, StatAssumption DEF TypeOK
  <2>3. Putters' \in SUBSET Workers
    BY DEF Putters
  <2>4. Cardinality(Putters') \in Nat
    BY <2>3, WorkerSets
  <2>5. QUEUE_MAX - queue_count' <= Cardinality(Putters')
    BY <2>2, <2>4
  <2> QED BY <2>1, <2>5 DEF NoLostWakeup, Putters
<1>5. PlaceInv'
  <2>1. ASSUME NEW d \in Dirs
        PROVE  /\ WalkersOf(d)' = WalkersOf(d)
               /\ d # sub[w] => CarriersOf(d)' = CarriersOf(d)
               /\ d = sub[w] => CarriersOf(d) = CarriersOf(d)' \cup {w} /\ w \notin CarriersOf(d)'
    BY <1>0 DEF WalkersOf, CarriersOf, TypeOK
  <2> QED BY <1>0, <1>1, <2>1, EndedPlaces
<1>6. TodoInv' /\ SeenInv' /\ CountInv'
  <2>1. \A v \in Workers : Reading(v)' <=> Reading(v)
    BY <1>0 DEF Reading, TypeOK
  <2> QED BY <1>0, <2>1, ReadingKept
<1> QED BY <1>2, <1>3, <1>4, <1>5, <1>6 DEF Inv

-----------------------------------------------------------------------------
\* The walk.

\* Two workers never have the same directory, and one that a worker has was
\* found and is not dealt with yet.
LEMMA OneWalker ==
    ASSUME PlaceInv, mpc # "start", TypeOK,
           NEW w \in Workers, pc[w] \in {"open", "walk", "enqueue"}
    PROVE  /\ dir[w] \in Dirs /\ dir[w] \notin ended
           /\ \A v \in Workers : pc[v] \in {"open", "walk", "enqueue"} /\ dir[v] = dir[w] => v = w
<1>1. dir[w] \in Dirs /\ w \in WalkersOf(dir[w])
  BY DEF TypeOK, WalkersOf
<1>2. Somewhere(dir[w]) \/ Nowhere(dir[w])
  BY <1>1 DEF PlaceInv
<1>3. WalkersOf(dir[w]) = {w} /\ dir[w] \notin ended
  BY <1>1, <1>2 DEF Somewhere, Nowhere
<1>4. \A v \in Workers : pc[v] \in {"open", "walk", "enqueue"} /\ dir[v] = dir[w] => v \in WalkersOf(dir[w])
  BY DEF WalkersOf
<1> QED BY <1>1, <1>3, <1>4

LEMMA OpenDirStep ==
    ASSUME Inv, NEW w \in Workers, OpenDir(w)
    PROVE  Inv'
<1> USE DEF OpenDir, Goto, counters, queue, conds
<1>0. /\ TypeOK /\ SleepInv /\ RingInv /\ StartInv /\ EmptyInv /\ NoLostWakeup
      /\ PlaceInv /\ TodoInv /\ SeenInv /\ CountInv
  BY DEF Inv
<1>1. mpc # "start" /\ dir[w] \in Dirs
  BY <1>0, NotStart DEF TypeOK
<1>2. TypeOK'
  <2>1. Entries[dir[w]] \subseteq Dirs \cup Files
    BY <1>1, StatAssumption
  <2> QED BY <1>0, <2>1 DEF TypeOK
<1>3. SleepInv' /\ RingInv' /\ StartInv' /\ EmptyInv'
  BY <1>0, <1>1 DEF TypeOK, SleepInv, RingInv, StartInv, EmptyInv
<1>4. NoLostWakeup'
  <2>1. Putters' = Putters /\ Takers' = Takers
    BY <1>0 DEF Putters, Takers, TypeOK
  <2> QED BY <1>0, <2>1, WakeupsKept
<1>5. PlaceInv'
  <2>1. \A d \in Dirs : WalkersOf(d)' = WalkersOf(d) /\ CarriersOf(d)' = CarriersOf(d)
    BY <1>0 DEF WalkersOf, CarriersOf, TypeOK
  <2> QED BY <1>0, <2>1, PlacesKept
<1>6. Entries[dir[w]] \cap seen = {}
  <2> SUFFICES ASSUME NEW e \in Entries[dir[w]] \cap seen PROVE FALSE
    OBVIOUS
  <2>1. dir[w] \in ended \/ \E v \in Workers : Reading(v) /\ dir[v] = dir[w]
    BY <1>0, <1>1 DEF SeenInv
  <2> QED BY <1>0, <1>1, <2>1, OneWalker DEF Reading
<1>7. \A v \in Workers : /\ Reading(v)' <=> (Reading(v) \/ v = w)
                         /\ todo'[v] = IF v = w THEN Entries[dir[w]] ELSE todo[v]
  BY <1>0 DEF Reading, TypeOK
<1>8. TodoInv'
  BY <1>0, <1>6, <1>7 DEF TodoInv
<1>9. SeenInv'
  <2>1. ~Reading(w)
    BY DEF Reading
  <2> QED BY <1>0, <1>7, <2>1 DEF SeenInv
<1>10. CountInv'
  BY <1>0 DEF CountInv
<1> QED BY <1>2, <1>3, <1>4, <1>5, <1>8, <1>9, <1>10 DEF Inv

\* A directory that cannot be opened, and one that is read to its end.
LEMMA EndStep ==
    ASSUME Inv, NEW w \in Workers, OpenFail(w) \/ CloseDir(w)
    PROVE  Inv'
<1> USE DEF counters, queue, conds, locals
<1>0. /\ TypeOK /\ SleepInv /\ RingInv /\ StartInv /\ EmptyInv /\ NoLostWakeup
      /\ PlaceInv /\ TodoInv /\ SeenInv /\ CountInv
  BY DEF Inv
<1>1. /\ pc[w] \in {"open", "walk"} /\ pc' = [pc EXCEPT ![w] = "dequeue"]
      /\ ended' = ended \cup {dir[w]} /\ todo[w] = {}
      /\ UNCHANGED <<task_queue, queue_front, queue_rear, queue_count, done_flag, cond_not_empty, cond_not_full,
                     file_count, dir_count, dir, todo, sub, mpc, seen>>
  BY <1>0 DEF OpenFail, CloseDir, Goto, TodoInv, Reading
<1>2. mpc # "start" /\ dir[w] \in Dirs
  BY <1>0, <1>1, NotStart DEF TypeOK
<1>3. TypeOK' /\ SleepInv' /\ RingInv' /\ StartInv' /\ EmptyInv'
  <2>1. TypeOK'
    BY <1>0, <1>1, <1>2 DEF TypeOK
  <2>2. SleepInv' /\ RingInv' /\ StartInv'
    BY <1>0, <1>1, <1>2 DEF TypeOK, SleepInv, RingInv, StartInv
  <2>3. EmptyInv'
    BY <1>0, <1>1 DEF EmptyInv, TypeOK
  <2> QED BY <2>1, <2>2, <2>3
<1>4. NoLostWakeup'
  <2>1. Putters' = Putters /\ Takers \subseteq Takers'
    BY <1>0, <1>1 DEF Putters, Takers, TypeOK
  <2> QED BY <1>0, <1>1, <2>1, WakeupsKept
<1>5. PlaceInv'
  <2>1. ASSUME NEW d \in Dirs
        PROVE  /\ CarriersOf(d)' = CarriersOf(d)
               /\ d # dir[w] => WalkersOf(d)' = WalkersOf(d)
               /\ d = dir[w] => WalkersOf(d) = WalkersOf(d)' \cup {w} /\ w \notin WalkersOf(d)'
    BY <1>0, <1>1 DEF WalkersOf, CarriersOf, TypeOK
  <2> QED BY <1>0, <1>1, <1>2, <2>1, EndedPlaces
<1>6. \A v \in Workers : Reading(v)' <=> (Reading(v) /\ v # w)
  BY <1>0, <1>1 DEF Reading, TypeOK
<1>7. TodoInv'
  BY <1>0, <1>1, <1>6 DEF TodoInv
<1>8. SeenInv'
  <2> SUFFICES ASSUME NEW d \in Dirs, NEW e \in Entries[d] \cap seen, d \notin ended'
               PROVE  \E v \in Workers : Reading(v)' /\ dir[v] = d /\ e \notin todo[v]
    BY <1>1 DEF SeenInv
  <2>1. PICK v \in Workers : Reading(v) /\ dir[v] = d /\ e \notin todo[v]
    BY <1>0, <1>1 DEF SeenInv
  <2>2. v # w
    BY <1>1, <2>1
  <2> QED BY <1>6, <2>1, <2>2
<1>9. CountInv'
  BY <1>0, <1>1 DEF CountInv
<1> QED BY <1>3, <1>4, <1>5, <1>7, <1>8, <1>9 DEF Inv

\* An entry e that a worker reads was not seen before, and nobody else has it
\* to read.
LEMMA NewEntry ==
    ASSUME Inv, NEW w \in Workers, pc[w] = "walk", NEW e \in todo[w]
    PROVE  /\ e \in Entries[dir[w]] /\ e \notin seen /\ e # Root /\ e \in Dirs \cup Files
           /\ \A v \in Workers \ {w} : e \notin todo[v]
           /\ \A d \in Dirs : e \in Entries[d] => d = dir[w]
           /\ mpc # "start"
<1>0. TypeOK /\ StartInv /\ PlaceInv /\ TodoInv
  BY DEF Inv
<1>1. mpc # "start"
  BY <1>0, NotStart
<1>2. e \in Entries[dir[w]] /\ e \notin seen /\ dir[w] \in Dirs
  BY <1>0 DEF TodoInv, Reading, TypeOK
<1>3. e # Root /\ e \in Dirs \cup Files
  BY <1>2, StatAssumption
<1>4. \A d \in Dirs : e \in Entries[d] => d = dir[w]
  BY <1>2, StatAssumption
<1>5. ASSUME NEW v \in Workers \ {w}, e \in todo[v] PROVE FALSE
  <2>1. Reading(v) /\ e \in Entries[dir[v]] /\ dir[v] \in Dirs
    BY <1>0, <1>5 DEF TodoInv, TypeOK
  <2>2. dir[v] = dir[w]
    BY <1>4, <2>1
  <2> QED BY <1>0, <1>1, <2>1, <2>2, OneWalker DEF Reading
<1> QED BY <1>1, <1>2, <1>3, <1>4, <1>5

LEMMA SkipStep ==
    ASSUME Inv, NEW w \in Workers, NEW e \in Dirs \cup Files, SkipEntry(w, e)
    PROVE  Inv'
<1> USE DEF SkipEntry, counters, queue, conds
<1>0. /\ TypeOK /\ SleepInv /\ RingInv /\ StartInv /\ EmptyInv /\ NoLostWakeup
      /\ PlaceInv /\ TodoInv /\ SeenInv /\ CountInv
  BY DEF Inv
<1>1. TypeOK' /\ SleepInv' /\ RingInv' /\ StartInv' /\ EmptyInv'
  BY <1>0 DEF TypeOK, SleepInv, RingInv, StartInv, EmptyInv
<1>2. NoLostWakeup'
  BY <1>0 DEF NoLostWakeup
<1>3. PlaceInv'
  BY <1>0, PlacesKept DEF WalkersOf, CarriersOf
<1>4. \A v \in Workers : (Reading(v)' <=> Reading(v)) /\ todo'[v] \subseteq todo[v]
  BY <1>0 DEF Reading, TypeOK
<1>5. TodoInv' /\ SeenInv' /\ CountInv'
  BY <1>0, <1>4 DEF TodoInv, SeenInv, CountInv
<1> QED BY <1>1, <1>2, <1>3, <1>5 DEF Inv

\* What reading entry e, counted and never seen before, does to the sums and
\* to what is still to read.
LEMMA CountedEntry ==
    ASSUME Inv, NEW w \in Workers, pc[w] = "walk", NEW e \in todo[w],
           todo' = [todo EXCEPT ![w] = @ \ {e}], seen' = seen \cup {e},
           UNCHANGED <<dir, ended>>,
           \A v \in Workers : Reading(v)' <=> Reading(v)
    PROVE  /\ TodoInv' /\ SeenInv' /\ IsFiniteSet(seen')
           /\ e \in Files => /\ Cardinality(seen' \cap Files) = Cardinality(seen \cap Files) + 1
                             /\ seen' \cap Dirs = seen \cap Dirs
           /\ e \in Dirs => /\ Cardinality(seen' \cap Dirs) = Cardinality(seen \cap Dirs) + 1
                            /\ seen' \cap Files = seen \cap Files
<1>0. TypeOK /\ TodoInv /\ SeenInv /\ CountInv
  BY DEF Inv
<1>1. /\ e \in Entries[dir[w]] /\ e \notin seen
      /\ \A v \in Workers \ {w} : e \notin todo[v]
      /\ \A d \in Dirs : e \in Entries[d] => d = dir[w]
  BY NewEntry
<1>2. \A v \in Workers : todo'[v] = IF v = w THEN todo[w] \ {e} ELSE todo[v]
  BY <1>0 DEF TypeOK
<1>3. Reading(w)
  BY DEF Reading
<1>4. TodoInv'
  BY <1>0, <1>1, <1>2 DEF TodoInv
<1>5. SeenInv'
  <2> SUFFICES ASSUME NEW d \in Dirs, NEW x \in Entries[d] \cap seen'
               PROVE  d \in ended \/ \E v \in Workers : Reading(v) /\ dir[v] = d /\ x \notin todo'[v]
    BY DEF SeenInv
  <2>1. CASE x = e
    BY <1>1, <1>2, <1>3, <2>1
  <2>2. CASE x # e
    BY <1>0, <1>2, <2>2 DEF SeenInv
  <2> QED BY <2>1, <2>2
<1>6. IsFiniteSet(seen) /\ IsFiniteSet(seen')
  BY <1>0, FS_AddElement DEF CountInv
<1>7. ASSUME NEW S, e \in S
      PROVE  Cardinality(seen' \cap S) = Cardinality(seen \cap S) + 1
  <2>1. seen' \cap S = (seen \cap S) \cup {e} /\ e \notin seen \cap S
    BY <1>1, <1>7
  <2>2. IsFiniteSet(seen \cap S)
    BY <1>6, FS_Intersection
  <2> QED BY <2>1, <2>2, FS_AddElement
<1>8. /\ e \in Files => seen' \cap Dirs = seen \cap Dirs
      /\ e \in Dirs => seen' \cap Files = seen \cap Files
  BY StatAssumption
<1> QED BY <1>4, <1>5, <1>6, <1>7, <1>8

LEMMA CountFileStep ==
    ASSUME Inv, NEW w \in Workers, NEW f \in Dirs \cup Files, CountFile(w, f)
    PROVE  Inv'
<1> USE DEF CountFile, queue, conds
<1>0. /\ TypeOK /\ SleepInv /\ RingInv /\ StartInv /\ EmptyInv /\ NoLostWakeup
      /\ PlaceInv /\ CountInv
  BY DEF Inv
<1>1. /\ pc[w] = "walk" /\ f \in todo[w] /\ f \in Files /\ mpc # "start"
  BY <1>0, NotStart
<1>2. TypeOK' /\ SleepInv' /\ RingInv' /\ StartInv' /\ EmptyInv'
  BY <1>0, <1>1 DEF TypeOK, SleepInv, RingInv, StartInv, EmptyInv
<1>3. NoLostWakeup'
  BY <1>0 DEF NoLostWakeup
<1>4. \A v \in Workers : Reading(v)' <=> Reading(v)
  BY DEF Reading
<1>5. /\ TodoInv' /\ SeenInv' /\ IsFiniteSet(seen')
      /\ Cardinality(seen' \cap Files) = Cardinality(seen \cap Files) + 1
      /\ seen' \cap Dirs = seen \cap Dirs
  BY <1>1, <1>4, CountedEntry
<1>6. PlaceInv'
  BY <1>0, <1>5, PlacesKept DEF WalkersOf, CarriersOf
<1>7. CountInv'
  BY <1>0, <1>5 DEF CountInv
<1> QED BY <1>2, <1>3, <1>5, <1>6, <1>7 DEF Inv

\* A new directory gets its place with the worker that found it.
LEMMA FoundDirStep ==
    ASSUME Inv, NEW w \in Workers, NEW e \in Dirs \cup Files, FoundDir(w, e)
    PROVE  Inv'
<1> USE DEF FoundDir, Goto, queue, conds
<1>0. /\ TypeOK /\ SleepInv /\ RingInv /\ StartInv /\ EmptyInv /\ NoLostWakeup
      /\ PlaceInv /\ CountInv
  BY DEF Inv
<1>1. /\ pc[w] = "walk" /\ e \in todo[w] /\ e \in Dirs
      /\ pc' = [pc EXCEPT ![w] = "enqueue"] /\ sub' = [sub EXCEPT ![w] = e]
      /\ seen' = seen \cup {e}
      /\ UNCHANGED <<task_queue, queue_front, queue_rear, queue_count, done_flag, cond_not_empty,
                     cond_not_full, file_count, dir, mpc, ended>>
  OBVIOUS
<1>2. e \notin seen /\ e # Root /\ mpc # "start"
  BY <1>1, NewEntry
<1>3. TypeOK'
  BY <1>0, <1>1 DEF TypeOK
<1>4. SleepInv' /\ RingInv' /\ StartInv'
  BY <1>0, <1>1, <1>2 DEF TypeOK, SleepInv, RingInv, StartInv
<1>5. EmptyInv'
  BY <1>0, <1>1 DEF EmptyInv, TypeOK
<1>6. NoLostWakeup'
  <2>1. Takers' = Takers /\ Putters \subseteq Putters'
    BY <1>0, <1>1 DEF Putters, Takers, TypeOK
  <2> QED BY <1>0, <1>1, <2>1, WakeupsKept
<1>7. \A v \in Workers : Reading(v)' <=> Reading(v)
  BY <1>0, <1>1 DEF Reading, TypeOK
<1>8. /\ TodoInv' /\ SeenInv' /\ IsFiniteSet(seen')
      /\ Cardinality(seen' \cap Dirs) = Cardinality(seen \cap Dirs) + 1
      /\ seen' \cap Files = seen \cap Files
  BY <1>1, <1>7, CountedEntry
<1>9. CountInv'
  BY <1>0, <1>8 DEF CountInv
<1>10. PlaceInv'
  <2> SUFFICES ASSUME NEW d \in Dirs
               PROVE  IF d \in seen' \cup {Root} THEN Somewhere(d)' ELSE Nowhere(d)'
    BY DEF PlaceInv
  <2>1. IF d \in seen \cup {Root} THEN Somewhere(d) ELSE Nowhere(d)
    BY <1>0, <1>2 DEF PlaceInv
  <2>2. CellsOf(d)' = CellsOf(d) /\ WalkersOf(d)' = WalkersOf(d) /\ ended' = ended
    BY <1>0, <1>1 DEF CellsOf, Occupied, WalkersOf, TypeOK
  <2>3. CASE d = e
    <3>1. CarriersOf(d)' = CarriersOf(d) \cup {w}
      BY <1>0, <1>1, <2>3 DEF CarriersOf, TypeOK
    <3>2. Nowhere(d)
      BY <1>2, <2>1, <2>3
    <3> QED BY <1>1, <2>2, <2>3, <3>1, <3>2 DEF Somewhere, Nowhere
  <2>4. CASE d # e
    <3>1. CarriersOf(d)' = CarriersOf(d)
      BY <1>0, <1>1, <2>4 DEF CarriersOf, TypeOK
    <3> QED BY <1>1, <2>1, <2>2, <2>4, <3>1 DEF Somewhere, Nowhere, Cells
  <2> QED BY <2>3, <2>4
<1> QED BY <1>3, <1>4, <1>5, <1>6, <1>8, <1>9, <1>10 DEF Inv

-----------------------------------------------------------------------------
\* Every step preserves the invariant.
LEMMA StepInv == Inv /\ [Next]_vars => Inv'
<1> SUFFICES ASSUME Inv, [Next]_vars PROVE Inv'
  OBVIOUS
<1>1. CASE Main
  BY <1>1, MainStartStep, MainStep DEF Main
<1>2. ASSUME NEW w \in Workers, Worker(w) \/ SpuriousWakeup(w) PROVE Inv'
  <2>1. CASE Walk(w)
    BY <2>1, OpenDirStep, EndStep, SkipStep, CountFileStep, FoundDirStep DEF Walk
  <2> QED BY <1>2, <2>1, DequeueWaitStep, DequeueTakeStep, DequeueNullStep, EnqueueWaitStep,
             EnqueuePutStep, EnqueueDropStep, SpuriousStep DEF Worker
<1>3. CASE UNCHANGED vars
  <2> USE <1>3 DEF Inv, vars, queue, conds, counters, locals
  <2>1. TypeOK' /\ SleepInv' /\ RingInv' /\ StartInv' /\ EmptyInv' /\ NoLostWakeup'
    BY DEF TypeOK, SleepInv, RingInv, StartInv, EmptyInv, NoLostWakeup
  <2>2. PlaceInv'
    BY PlacesKept DEF WalkersOf, CarriersOf
  <2>3. TodoInv' /\ SeenInv' /\ CountInv'
    BY ReadingKept DEF Reading
  <2> QED BY <2>1, <2>2, <2>3
<1> QED BY <1>1, <1>2, <1>3 DEF Next

\* TotalsExact speaks of the end of the program only and needs one fact more:
\* the main thread joins every worker.
JoinInv == mpc = "finished" => \A w \in Workers : pc[w] = "exited"

LEMMA JoinStep == Inv /\ JoinInv /\ [Next]_vars => JoinInv'
<1> SUFFICES ASSUME Inv, JoinInv, [Next]_vars, mpc' = "finished"
             PROVE  \A w \in Workers : pc'[w] = "exited"
  BY DEF JoinInv
<1>0. TypeOK
  BY DEF Inv
<1>1. CASE Main
  BY <1>1 DEF Main, MainStart, MainFindsEmpty, MainLooksAgain, set_done, MainJoin
<1>2. ASSUME NEW w \in Workers, Worker(w) \/ SpuriousWakeup(w)
      PROVE  \A v \in Workers : pc'[v] = "exited"
  <2>1. mpc' = mpc /\ (pc[w] # "exited" \/ pc' = pc)
    BY <1>2 DEF Worker, Walk, DequeueWait, DequeueTake, DequeueNull, EnqueueWait, EnqueuePut, EnqueueDrop,
                OpenDir, OpenFail, CloseDir, SkipEntry, CountFile, FoundDir, SpuriousWakeup
  <2> QED BY <1>0, <2>1 DEF JoinInv
<1>3. CASE UNCHANGED vars
  BY <1>3 DEF vars, JoinInv
<1> QED BY <1>1, <1>2, <1>3 DEF Next

LEMMA Invariance == Spec => [](Inv /\ JoinInv)
<1>1. Init => JoinInv
  BY DEF Init, JoinInv
<1> QED BY <1>1, InitInv, StepInv, JoinStep, PTL DEF Spec

\* Every variable keeps its type; the indices stay inside the ring.
THEOREM TypeCorrect == Spec => []TypeOK
<1>1. Inv => TypeOK
  BY DEF Inv
<1> QED BY <1>1, Invariance, PTL

\* One pthread_cond_signal per put and per take is enough, for any number of
\* workers that both fill and empty the queue: every task has a worker on its
\* way while others sleep for one, and so has every free cell.
THEOREM WakeupsArrive == Spec => []NoLostWakeup
<1>1. Inv => NoLostWakeup
  BY DEF Inv
<1> QED BY <1>1, Invariance, PTL

\* A directory that is somewhere is in one place, one that is nowhere in none.
LEMMA PlacesFact ==
    ASSUME NEW d \in Dirs
    PROVE  /\ Somewhere(d) => Cardinality(Places(d)) = 1
           /\ Nowhere(d) => Cardinality(Places(d)) = 0
<1>1. Places(d) = {<<"queue", c>> : c \in CellsOf(d)} \cup {<<"walk", w>> : w \in WalkersOf(d)}
                    \cup {<<"enqueue", w>> : w \in CarriersOf(d)} \cup {<<"ended", 0>> : x \in ended \cap {d}}
  BY DEF Places, CellsOf, WalkersOf, CarriersOf
<1>2. ASSUME Nowhere(d) PROVE Cardinality(Places(d)) = 0
  <2>1. Places(d) = {}
    BY <1>1, <1>2 DEF Nowhere
  <2> QED BY <2>1, FS_EmptySet
<1>3. ASSUME Somewhere(d) PROVE Cardinality(Places(d)) = 1
  <2>1. ASSUME NEW c \in Cells, CellsOf(d) = {c}, WalkersOf(d) = {}, CarriersOf(d) = {}, d \notin ended
        PROVE  Places(d) = {<<"queue", c>>}
    BY <1>1, <2>1
  <2>2. ASSUME NEW w \in Workers, CellsOf(d) = {}, WalkersOf(d) = {w}, CarriersOf(d) = {}, d \notin ended
        PROVE  Places(d) = {<<"walk", w>>}
    BY <1>1, <2>2
  <2>3. ASSUME NEW w \in Workers, CellsOf(d) = {}, WalkersOf(d) = {}, CarriersOf(d) = {w}, d \notin ended
        PROVE  Places(d) = {<<"enqueue", w>>}
    BY <1>1, <2>3
  <2>4. ASSUME CellsOf(d) = {}, WalkersOf(d) = {}, CarriersOf(d) = {}, d \in ended
        PROVE  Places(d) = {<<"ended", 0>>}
    BY <1>1, <2>4
  <2>5. \E p : Places(d) = {p}
    BY <1>3, <2>1, <2>2, <2>3, <2>4 DEF Somewhere
  <2> QED BY <2>5, FS_Singleton
<1> QED BY <1>2, <1>3

\* For every tree, every queue and any number of workers no directory is walked
\* twice or forgotten, and the totals printed at the end are exact.
THEOREM EveryDirectoryOnce == Spec => []WalkExact
<1>1. Inv => OnePlace
  BY PlacesFact DEF Inv, PlaceInv, OnePlace
<1>2. Inv /\ JoinInv => TotalsExact
  <2> SUFFICES ASSUME Inv, JoinInv, mpc = "finished"
               PROVE  /\ file_count = Cardinality(seen \cap Files)
                      /\ dir_count = Cardinality(seen \cap Dirs)
                      /\ seen \cap Dirs \subseteq ended
    BY DEF TotalsExact
  <2>0. TypeOK /\ EmptyInv /\ PlaceInv /\ CountInv
    BY DEF Inv
  <2>1. \A w \in Workers : pc[w] = "exited"
    BY DEF JoinInv
  <2>2. Occupied = {}
    BY <2>0, <2>1, EmptyFact DEF EmptyInv
  <2>3. ASSUME NEW d \in seen \cap Dirs PROVE d \in ended
    <3>1. Somewhere(d)
      BY <2>0 DEF PlaceInv
    <3>2. CellsOf(d) = {} /\ WalkersOf(d) = {} /\ CarriersOf(d) = {}
      BY <2>1, <2>2 DEF CellsOf, WalkersOf, CarriersOf
    <3> QED BY <3>1, <3>2 DEF Somewhere
  <2> QED BY <2>0, <2>3 DEF CountInv
<1> QED BY <1>1, <1>2, Invariance, PTL DEF WalkExact
=============================================================================
