----------------------------- MODULE MCRelay -----------------------------
(* Two bytes one way and one byte back.                                    *)
EXTENDS Relay, TLC

MCTotal == "12" :> 2 @@ "21" :> 1
==========================================================================
