--------------------------- MODULE MCChannelStrip ---------------------------
(* Instances of ChannelStrip for TLC. *)
EXTENDS ChannelStrip

CONSTANTS n1, n2, t1
=============================================================================
