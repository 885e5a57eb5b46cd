---------------------------- MODULE TokenBucket ----------------------------
(***************************************************************************)
(* What the three mytbf libraries of the repository promise a client: a    *)
(* bucket gains cps tokens at every clock tick, never holds more than      *)
(* burst, and hands out at most what it holds.  Every operation is one     *)
(* atomic step; how the libraries get there with locks, condition          *)
(* variables or signals is not visible here.                               *)
(***************************************************************************)
EXTENDS Integers

CONSTANTS Buckets,     \* the identities a bucket can have
          Params,      \* the <<cps, burst>> pairs mytbf_init is called with
          NULL         \* a bucket that does not exist

VARIABLE bucket        \* bucket[b]: NULL, or its cps, burst and level

Bucket == [cps : Nat, burst : Nat, level : Nat]

\* token += n; if (token > burst) token = burst;
Fill(r, n) == IF r.level + n > r.burst THEN r.burst ELSE r.level + n

Init == bucket = [b \in Buckets |-> NULL]

Create(b) ==
    /\ bucket[b] = NULL
    /\ \E p \in Params :
         bucket' = [bucket EXCEPT ![b] = [cps |-> p[1], burst |-> p[2], level |-> 0]]

Refill(b) ==
    /\ bucket[b] # NULL
    /\ bucket' = [bucket EXCEPT ![b].level = Fill(bucket[b], bucket[b].cps)]

\* Hand out n tokens: some of those that are there.
Take(b) ==
    /\ bucket[b] # NULL
    /\ \E n \in 1 .. bucket[b].level :
         bucket' = [bucket EXCEPT ![b].level = @ - n]

\* Take back n tokens that were handed out: a client never had more than burst.
Give(b) ==
    /\ bucket[b] # NULL
    /\ \E n \in 1 .. bucket[b].burst :
         bucket' = [bucket EXCEPT ![b].level = Fill(bucket[b], n)]

Destroy(b) ==
    /\ bucket[b] # NULL
    /\ bucket' = [bucket EXCEPT ![b] = NULL]

BucketStep(b) ==
    \/ Create(b)
    \/ Refill(b)
    \/ Take(b)
    \/ Give(b)
    \/ Destroy(b)

Next == \E b \in Buckets : BucketStep(b)

Spec == Init /\ [][Next]_bucket
=============================================================================
