------------------------------ MODULE MCMyTbf ------------------------------
(***************************************************************************)
(* TLC instances of MyTbf.                                                 *)
(***************************************************************************)
EXTENDS MyTbf, TLC

\* cps larger than burst, and a bucket that fills in two ticks.
MCParams == {<<2, 1>>, <<1, 2>>}

\* -1 is refused, 1 leaves tokens behind, 3 asks for more than any bucket has.
MCSizes == {-1, 1, 3}

\* Threads and blocks are interchangeable; sound for the safety run only.
MCSymmetry == Permutations(Threads) \cup Permutations(Buckets)
=============================================================================
