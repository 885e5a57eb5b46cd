----------------------------- MODULE MCExchange -----------------------------
(***************************************************************************)
(* Exchange, with values for each of its three parts: files of two packets *)
(* and files that cannot be opened; lines shorter than a read, and as long *)
(* as one.                                                                 *)
(***************************************************************************)
EXTENDS Exchange

MCTyped == { <<>>, <<2, 2>>, <<2, 0, 1, Exit>>, <<1, 0>> }
MCFileSizes == {-1, 2}
=============================================================================
