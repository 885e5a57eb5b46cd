------------------------------ MODULE MCMyPipe ------------------------------
(***************************************************************************)
(* TLC instances of MyPipe.                                                *)
(***************************************************************************)
EXTENDS MyPipe

\* A read or a write of one byte, and of more than the pipe holds.
MCCounts == {1, 3}
=============================================================================
