-------------------------- MODULE MCConfigPersist --------------------------
(***************************************************************************)
(* An instance of ConfigPersist for TLC.  The text of wb is rounded to     *)
(* wa's, that of wz is not JSON, and the check callbacks refuse what wr    *)
(* reads as.                                                               *)
(***************************************************************************)
EXTENDS ConfigPersist, TLC

CONSTANTS wa, wb, wz, wr, gain, name, link1

MCFromOsc == (wa :> 0) @@ (wb :> 1) @@ (wz :> 2) @@ (wr :> 3)
MCToOsc == (0 :> wa) @@ (1 :> wb) @@ (2 :> wz) @@ (3 :> wr)
MCInternal == 0..3
MCValid == 0..2
MCDefault == (gain :> 0) @@ (name :> 1)
MCReread == (wa :> wa) @@ (wb :> wa) @@ (wz :> wz) @@ (wr :> wr)
=============================================================================
