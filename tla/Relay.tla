-------------------------------- MODULE Relay --------------------------------
(***************************************************************************)
(* The relays of src/proIO between two descriptors fd1 and fd2: two state  *)
(* machines, 12 and 21, driven by one loop.  The programs differ in how    *)
(* the loop waits:                                                         *)
(*   busy    non-blocked/relay.c, relay_file.c   no wait at all            *)
(*   select  select/relay.c                      select()                  *)
(*   poll    epoll/relay.c                       poll()                    *)
(*   epoll   poll/relay.c                        epoll_wait(), one event   *)
(* (the last two directories have each other's program).                   *)
(* A definition marked "Variant" is a plausible mistake in the code that   *)
(* follows it; no specification uses it.                                   *)
(***************************************************************************)
EXTENDS RelFsm

VARIABLES
  wait,              \* which of the programs this is
  pc,                \* "loop", "drive12", "drive21", "done"
  fsm12, fsm21,      \* the links
  revents            \* the events reported: "in1", "out1", "in2", "out2"

vars == <<wait, pc, fsm12, fsm21, revents>>

Waiting(l) == l.state \in {"R", "W"}        \* state < STATE_AUTO

Ending(l) == l.state \in {"EX", "T"}        \* state > STATE_AUTO

\* relay() up to its loop: both descriptors are made non-blocking.  revents is
\* uninitialised, and not looked at before the first wait.
Init ==
    /\ wait \in {"busy", "select", "poll", "epoll"}
    /\ pc = "loop"
    /\ fsm12 = NewLink /\ fsm21 = NewLink
    /\ revents = {}

-----------------------------------------------------------------------------
\* The loop.

\* The events the loop asks for, and those of them that are there.
Events ==
         {e \in {"in1"}  : fsm12.state = "R"}
    \cup {e \in {"out2"} : fsm12.state = "W"}
    \cup {e \in {"in2"}  : fsm21.state = "R"}
    \cup {e \in {"out1"} : fsm21.state = "W"}

Happened ==
    {e \in Events : CASE e = "in1"  -> Readable(fsm12)
                      [] e = "out2" -> Writable(fsm12)
                      [] e = "in2"  -> Readable(fsm21)
                      [] e = "out1" -> Writable(fsm21)}

\* Variant: the loop ends with the first machine.
InLoopBoth == pc = "loop" /\ fsm12.state # "T" /\ fsm21.state # "T"

\* The loop goes on while a machine is not in STATE_T.
InLoop == pc = "loop" /\ ~(fsm12.state = "T" /\ fsm21.state = "T")

BusyNext ==
    /\ wait = "busy" /\ InLoop
    /\ pc' = "drive12"
    /\ UNCHANGED <<wait, fsm12, fsm21, revents>>

\* select() and poll() report all events; they are not called when neither
\* machine waits.  Then the sets of select are empty, and revents is stale.
SelectWait ==
    /\ wait = "select" /\ InLoop
    /\ (Waiting(fsm12) \/ Waiting(fsm21)) => Happened # {}
    /\ revents' = IF Waiting(fsm12) \/ Waiting(fsm21) THEN Happened ELSE {}
    /\ pc' = "drive12"
    /\ UNCHANGED <<wait, fsm12, fsm21>>

PollWait ==
    /\ wait = "poll" /\ InLoop
    /\ (Waiting(fsm12) \/ Waiting(fsm21)) => Happened # {}
    /\ revents' = IF Waiting(fsm12) \/ Waiting(fsm21) THEN Happened ELSE revents
    /\ pc' = "drive12"
    /\ UNCHANGED <<wait, fsm12, fsm21>>

\* Variant: the events asked for are taken for the events reported.
EpollWaitAsked ==
    /\ wait = "epoll" /\ InLoop
    /\ revents' = Events \cap {"in2", "out2"}
    /\ pc' = "drive12"
    /\ UNCHANGED <<wait, fsm12, fsm21>>

\* epoll_wait(epfd, &ev, 1, -1) reports one descriptor, and ev is also what the
\* loop built its request in: without a wait it holds the request for fd2.
EpollWait ==
    /\ wait = "epoll" /\ InLoop
    /\ IF Waiting(fsm12) \/ Waiting(fsm21)
         THEN \E fd \in {{"in1", "out1"}, {"in2", "out2"}} :
                /\ Happened \cap fd # {}
                /\ revents' = Happened \cap fd
         ELSE revents' = Events \cap {"in2", "out2"}
    /\ pc' = "drive12"
    /\ UNCHANGED <<wait, fsm12, fsm21>>

\* The tests before the two calls of fsm_driver.
Selected12 ==
    \/ wait = "busy"
    \/ revents \cap {"in1", "out2"} # {}
    \/ Ending(fsm12)

\* select/relay.c has fsm21.state < STATE_AUTO where the others have >.
Selected21 ==
    \/ wait = "busy"
    \/ revents \cap {"in2", "out1"} # {}
    \/ IF wait = "select" THEN Waiting(fsm21) ELSE Ending(fsm21)

Drive12 ==
    /\ pc = "drive12"
    /\ fsm12' \in IF Selected12 THEN fsm_driver(fsm12) ELSE {fsm12}
    /\ pc' = "drive21"
    /\ UNCHANGED <<wait, fsm21, revents>>

Drive21 ==
    /\ pc = "drive21"
    /\ fsm21' \in IF Selected21 THEN fsm_driver(fsm21) ELSE {fsm21}
    /\ pc' = "loop"
    /\ UNCHANGED <<wait, fsm12, revents>>

\* Both machines are in STATE_T: the flags of the descriptors are restored.
Finish ==
    /\ pc = "loop" /\ ~InLoop
    /\ pc' = "done"
    /\ UNCHANGED <<wait, fsm12, fsm21, revents>>

-----------------------------------------------------------------------------
\* The terminals.

Ends ==
    /\ \/ fsm12' \in EndStep(fsm12, "12") /\ UNCHANGED fsm21
       \/ fsm21' \in EndStep(fsm21, "21") /\ UNCHANGED fsm12
    /\ UNCHANGED <<wait, pc, revents>>

Drain12 == fsm12' \in Drain(fsm12) /\ UNCHANGED <<wait, pc, fsm21, revents>>
Drain21 == fsm21' \in Drain(fsm21) /\ UNCHANGED <<wait, pc, fsm12, revents>>

Wait == BusyNext \/ SelectWait \/ PollWait \/ EpollWait

relay == Wait \/ Drive12 \/ Drive21 \/ Finish

Next == relay \/ Ends \/ Drain12 \/ Drain21

Spec == Init /\ [][Next]_vars

\* The process is scheduled, and the terminals show what they are sent.
FairSpec == Spec /\ WF_vars(relay) /\ WF_vars(Drain12) /\ WF_vars(Drain21)

-----------------------------------------------------------------------------
\* The types of the variables.
TypeOK ==
    /\ wait \in {"busy", "select", "poll", "epoll"}
    /\ pc \in {"loop", "drive12", "drive21", "done"}
    /\ fsm12 \in Link /\ fsm21 \in Link
    /\ revents \subseteq {"in1", "out1", "in2", "out2"}

\* Each terminal gets the other's bytes in order, none lost and none twice,
\* across short reads, partial writes and EAGAIN; what was read before the end
\* of input is delivered before the machine stops.
InOrder == LinkInOrder(fsm12) /\ LinkInOrder(fsm21)

\* What a read or a write of machine l would meet now.
WouldBlock(l) ==
    \/ l.state = "R" /\ ~Readable(l)
    \/ l.state = "W" /\ ~Writable(l)

\* A relay that waits for events calls fsm_driver only when the call makes
\* progress: what poll or epoll reported for one descriptor is never taken for
\* the other machine or for its next state.  (fsm21 of the select relay is
\* driven whenever it waits, ready or not.)
NoFutileCall ==
    /\ pc = "drive12" /\ wait # "busy" /\ Selected12 => ~WouldBlock(fsm12)
    /\ pc = "drive21" /\ wait \in {"poll", "epoll"} /\ Selected21 => ~WouldBlock(fsm21)

\* Bytes that were read are delivered, unless the destination fails, whatever
\* the other direction does, its end included.
Delivers ==
    /\ (fsm12.state = "W") ~> (fsm12.dst = "err" \/ fsm12.taken = Len(fsm12.out))
    /\ (fsm21.state = "W") ~> (fsm21.dst = "err" \/ fsm21.taken = Len(fsm21.out))

\* When both terminals have ended, relay() returns.  The one exception is the
\* select relay after an error in machine 21: nothing drives STATE_EX there.
RelayReturns ==
    (fsm12.src # "open" /\ fsm21.src # "open")
      ~> (pc = "done" \/ (wait = "select" /\ fsm21.state = "EX"))
=============================================================================
