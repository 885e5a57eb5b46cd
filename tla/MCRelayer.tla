---------------------------- MODULE MCRelayer ----------------------------
(* One byte from fd1 to fd2, and nothing but the end of input back.        *)
EXTENDS Relayer, TLC

MCTotal == "12" :> 1 @@ "21" :> 0
==========================================================================
