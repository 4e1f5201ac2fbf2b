---------------------------- MODULE MCGuiConfig ----------------------------
(* An instance of GuiConfig for TLC: 12 stands for a frequency whose last      *)
(* digit is not written.                                                       *)
EXTENDS GuiConfig

CONSTANTS v1, v2, v3

MCWritten(x) == IF x = 12 THEN 10 ELSE x
=============================================================================
