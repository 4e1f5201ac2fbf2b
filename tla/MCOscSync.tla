----------------------------- MODULE MCOscSync -----------------------------
(***************************************************************************)
(* Instances of OscSync for TLC.  The conversion is neither injective (the *)
(* wire values a and b both read as 1) nor onto the valid values (c reads  *)
(* as 2, which the check callbacks refuse).                                *)
(***************************************************************************)
EXTENDS OscSync, TLC

CONSTANTS a, b, c, g1, g2, k1, k2

MCWire == {a, b, c}
MCInternal == 0..2
MCFromOsc == (a :> 1) @@ (b :> 1) @@ (c :> 2)
MCToOsc == (0 :> c) @@ (1 :> a) @@ (2 :> c)
MCValid == {0, 1}
=============================================================================
