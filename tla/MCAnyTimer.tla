----------------------------- MODULE MCAnyTimer -----------------------------
(***************************************************************************)
(* TLC instances of AnyTimer.                                              *)
(***************************************************************************)
EXTENDS AnyTimer

\* A refused delay, the delay that never fires, and two that do.
MCSecs == {-1, 0, 1, 2}
=============================================================================
