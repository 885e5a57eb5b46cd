----------------------------- MODULE ServerPool -----------------------------
(***************************************************************************)
(* The dynamic pre-forked server pool of                                   *)
(* src/IPC/socket/stream/pool_dynamic/server.c.                            *)
(*                                                                         *)
(* The parent sleeps in sigsuspend; every child writes its state into the  *)
(* shared serverpool[] and then sends SIG_NOTIFY.  Standard signals do not *)
(* queue: `pending' is one bit.  The parent reads serverpool[] one slot at *)
(* a time while the children go on, so its counts are no snapshot.         *)
(*                                                                         *)
(* A child is known by its slot: kill(SIGTERM) ends it before it executes  *)
(* another instruction, so a slot is never shared by two live children.    *)
(* A definition marked "Variant" is a plausible mistake in the code that   *)
(* follows it; no specification uses it.                                   *)
(***************************************************************************)
EXTENDS Integers, FiniteSets

CONSTANTS MAXCLIENT, MINSPARESERVER, MAXSPARESERVER,
          MaxWaiting,   \* bound: connections waiting to be accepted
          MaxFaults     \* bound: children that die of an accept() error

ASSUME PoolAssumption ==
    /\ MAXCLIENT \in Nat \ {0}
    /\ MINSPARESERVER \in Nat /\ MAXSPARESERVER \in Nat
    /\ MaxWaiting \in Nat /\ MaxFaults \in Nat

VARIABLES
  used,                    \* serverpool[s].pid # -1
  state,                   \* serverpool[s].state
  idle_count, busy_count,
  child,                   \* where the child of slot s is, "none" or "dead"
  ppc,                     \* where the parent is
  i, slot, idle, busy,     \* the loop variables of main, scan and del, the sums of scan_pool
  pending,                 \* SIG_NOTIFY is pending for the parent
  waiting,                 \* connections in the listen queue
  faults,                  \* children that died by themselves so far
  killed                   \* history: a child was killed since the last scan began

pool     == <<used, state>>
counts   == <<idle_count, busy_count>>
locals   == <<i, slot, idle, busy>>
network  == <<waiting, faults>>
vars     == <<pool, counts, child, ppc, locals, pending, network, killed>>

Slots == 0 .. MAXCLIENT - 1

InUse == {s \in Slots : used[s]}

FreeSlots == Slots \ InUse

\* The table is shared zeroed memory; main sets every pid to -1.
Init ==
    /\ used = [s \in Slots |-> FALSE]
    /\ state = [s \in Slots |-> "IDLE"]
    /\ idle_count = 0 /\ busy_count = 0
    /\ child = [s \in Slots |-> "none"]
    /\ ppc = "start"
    /\ i = 0 /\ slot = 0 /\ idle = 0 /\ busy = 0
    /\ pending = FALSE
    /\ waiting = 0 /\ faults = 0
    /\ killed = FALSE

-----------------------------------------------------------------------------
\* The parent.

\* sigsuspend: the mask lets SIG_NOTIFY in; it is blocked everywhere else.
Wait ==
    /\ ppc = "suspend"
    /\ pending
    /\ pending' = FALSE
    /\ ppc' = "scan"
    /\ slot' = 0 /\ idle' = 0 /\ busy' = 0
    /\ killed' = FALSE
    /\ UNCHANGED <<pool, counts, child, i, network>>

\* One round of the loop of scan_pool; kill(pid, 0) finds dead children.
ScanSlot ==
    /\ ppc = "scan"
    /\ slot < MAXCLIENT
    /\ used' = [used EXCEPT ![slot] = @ /\ child[slot] # "dead"]
    /\ idle' = IF used'[slot] /\ state[slot] = "IDLE" THEN idle + 1 ELSE idle
    /\ busy' = IF used'[slot] /\ state[slot] = "BUSY" THEN busy + 1 ELSE busy
    /\ slot' = slot + 1
    /\ UNCHANGED <<state, counts, child, ppc, i, pending, network, killed>>

\* The end of scan_pool and the decision of main.
ScanEnd ==
    /\ ppc = "scan"
    /\ slot = MAXCLIENT
    /\ idle_count' = idle
    /\ busy_count' = busy
    /\ ppc' = CASE idle > MAXSPARESERVER -> "del"
                [] idle < MINSPARESERVER -> "add"
                [] OTHER -> "suspend"
    /\ i' = 0
    /\ UNCHANGED <<pool, child, slot, idle, busy, pending, network, killed>>

\* for(i = 0; i < idle_count - MAXSPARESERVER; i++) del_1_server();
\* Inside the loop idle_count > 0, so the early return of del_1_server is not
\* taken.
DelCall ==
    /\ ppc = "del"
    /\ IF i < idle_count - MAXSPARESERVER
         THEN ppc' = "search" /\ slot' = 0
         ELSE ppc' = "suspend" /\ UNCHANGED slot
    /\ UNCHANGED <<pool, counts, child, i, idle, busy, pending, network, killed>>

\* One round of the loop of del_1_server: a slot that is not idle any more is
\* passed over, the first idle one is killed.
DelSlot ==
    /\ ppc = "search"
    /\ slot < MAXCLIENT
    /\ IF used[slot] /\ state[slot] = "IDLE"
         THEN /\ child' = [child EXCEPT ![slot] = "none"]
              /\ used' = [used EXCEPT ![slot] = FALSE]
              /\ idle_count' = idle_count - 1
              /\ ppc' = "del"
              /\ i' = i + 1
              /\ killed' = TRUE
              /\ UNCHANGED slot
         ELSE /\ slot' = slot + 1
              /\ UNCHANGED <<child, used, idle_count, ppc, i, killed>>
    /\ UNCHANGED <<state, busy_count, idle, busy, pending, network>>

\* No slot was idle: nothing is killed, and the call counts all the same.
DelNone ==
    /\ ppc = "search"
    /\ slot = MAXCLIENT
    /\ ppc' = "del"
    /\ i' = i + 1
    /\ UNCHANGED <<pool, counts, child, slot, idle, busy, pending, network, killed>>

\* add_1_server found no room: -1, and main goes on with its loop.
AddFull ==
    /\ idle_count + busy_count >= MAXCLIENT
    /\ i' = i + 1
    /\ UNCHANGED <<pool, counts, child, ppc, slot, idle, busy, pending, network, killed>>

\* Variant: idle servers alone count against the limit.
AddOneIdleOnly ==
    /\ idle_count < MAXCLIENT
    /\ LET s == IF FreeSlots = {} THEN MAXCLIENT
                ELSE CHOOSE n \in FreeSlots : \A m \in FreeSlots : n <= m
       IN /\ state' = [state EXCEPT ![s] = "IDLE"]
          /\ used' = [used EXCEPT ![s] = TRUE]
          /\ child' = [child EXCEPT ![s] = "set_idle"]
    /\ idle_count' = idle_count + 1
    /\ i' = i + 1
    /\ UNCHANGED <<busy_count, ppc, slot, idle, busy, pending, network, killed>>

\* The first free slot gets a child.  The loop that looks for it may run off
\* the table: slot MAXCLIENT is the memory behind it.
AddOne ==
    /\ idle_count + busy_count < MAXCLIENT
    /\ LET s == IF FreeSlots = {} THEN MAXCLIENT
                ELSE CHOOSE n \in FreeSlots : \A m \in FreeSlots : n <= m
       IN /\ state' = [state EXCEPT ![s] = "IDLE"]
          /\ used' = [used EXCEPT ![s] = TRUE]
          /\ child' = [child EXCEPT ![s] = "set_idle"]
    /\ idle_count' = idle_count + 1
    /\ i' = i + 1
    /\ UNCHANGED <<busy_count, ppc, slot, idle, busy, pending, network, killed>>

\* fork() fails: the parent exits, the children it has live on.
ForkFail ==
    /\ idle_count + busy_count < MAXCLIENT
    /\ faults < MaxFaults
    /\ faults' = faults + 1
    /\ ppc' = "exited"
    /\ UNCHANGED <<pool, counts, child, locals, pending, waiting, killed>>

\* The rounds of the two loops of main around add_1_server: at the start, and
\* while i < MINSPARESERVER - idle_count, where idle_count grows as i does.
Adding ==
    \/ ppc = "start" /\ i < MINSPARESERVER
    \/ ppc = "add" /\ i < MINSPARESERVER - idle_count

add_1_server == Adding /\ (AddFull \/ AddOne \/ ForkFail)

AddEnd ==
    /\ ppc \in {"start", "add"} /\ ~Adding
    /\ ppc' = "suspend"
    /\ UNCHANGED <<pool, counts, child, locals, pending, network, killed>>

-----------------------------------------------------------------------------
\* A child: the loop of server_job.

SetIdle(s) ==
    /\ child[s] = "set_idle"
    /\ state' = [state EXCEPT ![s] = "IDLE"]
    /\ child' = [child EXCEPT ![s] = "notify_idle"]
    /\ UNCHANGED <<used, counts, ppc, locals, pending, network, killed>>

NotifyIdle(s) ==
    /\ child[s] = "notify_idle"
    /\ pending' = TRUE
    /\ child' = [child EXCEPT ![s] = "accept"]
    /\ UNCHANGED <<pool, counts, ppc, locals, network, killed>>

Accept(s) ==
    /\ child[s] = "accept"
    /\ waiting > 0
    /\ waiting' = waiting - 1
    /\ child' = [child EXCEPT ![s] = "set_busy"]
    /\ UNCHANGED <<pool, counts, ppc, locals, pending, faults, killed>>

\* accept() fails and the child exits without a word to the parent.  EINTR and
\* EAGAIN, which the code passes over, cannot occur: the socket blocks, and no
\* signal with a handler is unblocked in a child.
AcceptFail(s) ==
    /\ child[s] = "accept"
    /\ faults < MaxFaults
    /\ faults' = faults + 1
    /\ child' = [child EXCEPT ![s] = "dead"]
    /\ UNCHANGED <<pool, counts, ppc, locals, pending, waiting, killed>>

SetBusy(s) ==
    /\ child[s] = "set_busy"
    /\ state' = [state EXCEPT ![s] = "BUSY"]
    /\ child' = [child EXCEPT ![s] = "notify_busy"]
    /\ UNCHANGED <<used, counts, ppc, locals, pending, network, killed>>

\* Variant: a child that gets busy does not notify.
NotifyBusySilent(s) ==
    /\ child[s] = "notify_busy"
    /\ child' = [child EXCEPT ![s] = "serve"]
    /\ UNCHANGED <<pool, counts, ppc, locals, pending, network, killed>>

NotifyBusy(s) ==
    /\ child[s] = "notify_busy"
    /\ pending' = TRUE
    /\ child' = [child EXCEPT ![s] = "serve"]
    /\ UNCHANGED <<pool, counts, ppc, locals, network, killed>>

\* Variant: the child ends after one client.
ServeOnce(s) ==
    /\ child[s] = "serve"
    /\ child' = [child EXCEPT ![s] = "dead"]
    /\ UNCHANGED <<pool, counts, ppc, locals, pending, network, killed>>

\* send the time stamp, sleep, close.
Serve(s) ==
    /\ child[s] = "serve"
    /\ child' = [child EXCEPT ![s] = "set_idle"]
    /\ UNCHANGED <<pool, counts, ppc, locals, pending, network, killed>>

-----------------------------------------------------------------------------
\* A client connects (client.c); the listen queue is longer than the bound.
Connect ==
    /\ waiting < MaxWaiting
    /\ waiting' = waiting + 1
    /\ UNCHANGED <<pool, counts, child, ppc, locals, pending, faults, killed>>

Parent == Wait \/ ScanSlot \/ ScanEnd \/ DelCall \/ DelSlot \/ DelNone \/ add_1_server \/ AddEnd

Child(s) == SetIdle(s) \/ NotifyIdle(s) \/ Accept(s) \/ SetBusy(s) \/ NotifyBusy(s) \/ Serve(s)

Next ==
    \/ Parent
    \/ \E s \in Slots : Child(s) \/ AcceptFail(s)
    \/ Connect

Spec == Init /\ [][Next]_vars

\* Every process that can run is scheduled; clients may stay away.
FairSpec == Spec /\ WF_vars(Parent) /\ \A s \in Slots : WF_vars(Child(s))

-----------------------------------------------------------------------------
\* The types of the variables.
TypeOK ==
    /\ used \in [Slots -> BOOLEAN]
    /\ state \in [Slots -> {"IDLE", "BUSY"}]
    /\ idle_count \in 0 .. MAXCLIENT /\ busy_count \in 0 .. MAXCLIENT
    /\ child \in [Slots -> {"none", "set_idle", "notify_idle", "accept", "set_busy",
                            "notify_busy", "serve", "dead"}]
    /\ ppc \in {"start", "suspend", "scan", "del", "search", "add", "exited"}
    /\ i \in Nat /\ slot \in 0 .. MAXCLIENT
    /\ idle \in 0 .. MAXCLIENT /\ busy \in 0 .. MAXCLIENT
    /\ pending \in BOOLEAN
    /\ waiting \in 0 .. MaxWaiting /\ faults \in 0 .. MaxFaults
    /\ killed \in BOOLEAN

\* Outside scan_pool the two counts add up to the slots in use, although the
\* children change sides while the parent counts.  add_1_server relies on it:
\* its search for a free slot has no other protection against running off
\* the end of serverpool[].
CountsMatch ==
    ppc # "scan" => idle_count + busy_count = Cardinality(InUse)

IdleSlots == {s \in InUse : state[s] = "IDLE"}
BusySlots == {s \in InUse : state[s] = "BUSY"}

\* A parent that sleeps with no signal pending never believes in more idle
\* servers than there are, but for those that are just about to notify it:
\* no state change is lost although signals coalesce and the scan is no
\* snapshot.  Its counts are exact unless it killed a child since it last
\* counted: the child may have been counted as busy, have become idle and been
\* killed before it could notify, and then idle_count is too low.
AboutToNotify == \E s \in Slots : child[s] \in {"notify_idle", "notify_busy"}
SleepsInformed ==
    ppc = "suspend" /\ ~pending /\ ~AboutToNotify =>
      /\ idle_count <= Cardinality(IdleSlots)
      /\ ~killed => idle_count = Cardinality(IdleSlots) /\ busy_count = Cardinality(BusySlots)

\* While fewer children die than the pool keeps spare, a waiting connection is
\* accepted, however the parent resizes the pool.
ClientsServed ==
    (waiting > 0) ~> (ppc = "exited" \/ \E s \in Slots : child[s] = "set_busy")
=============================================================================
