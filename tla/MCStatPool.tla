---------------------------- MODULE MCStatPool ----------------------------
(* A tree of six directories for StatPool: the root has four               *)
(* subdirectories, one of which has a subdirectory and a file.             *)
EXTENDS StatPool, TLC

CONSTANTS a, b, c, d, e, f

MCDirs == {Root, a, b, c, d, e}
MCFiles == {f}
MCEntries == (Root :> {a, b, c, d}) @@ (a :> {e, f}) @@ [x \in {b, c, d, e} |-> {}]
===========================================================================
