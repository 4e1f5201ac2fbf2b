----------------------- MODULE MCJackPortAutoConnect -----------------------
(* Instances of JackPortAutoConnect for TLC. *)
EXTENDS JackPortAutoConnect, TLC

CONSTANTS oa, ob, ia, id1, id2, id3, id4, id5

Symmetry == Permutations(Id)
=============================================================================
