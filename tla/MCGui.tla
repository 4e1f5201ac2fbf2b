-------------------------------- MODULE MCGui --------------------------------
(***************************************************************************)
(* Four parts of the GUI in one instance for TLC: each behaviour is one of *)
(* the list of strips, of the window of a strip, of the files of an        *)
(* equalizer or of the bytes of a connection, which `part' names; the      *)
(* variables of the others keep their initial values.                      *)
(***************************************************************************)
EXTENDS StripList, GuiInstances

CONSTANTS g1, g2

VARIABLE part

\* No configuration file, or two strips that were dragged.
MCSavedKeys == {<<>>, <<1, 0>>}

\* Lists with a duplicate, in another order than the keys' own, and none.
MCControllerKeys == {<<>>, <<2, 0>>, <<1, 1, 1>>}

\* Lines of files: a corner frequency, a bandwidth, a number of two chunks, no gain.
Line(index, word, fc, gain, width, q) ==
    <<[index |-> index, enabled |-> TRUE, word |-> word, fc |-> fc, gain |-> gain,
       width |-> width, q |-> q]>>
MCLines == {Line(0, "PK", 10000, 1, "Q", 1), Line(1, "LS", 10000, 1, "BW", 3),
            Line(2, "PEQ", 1234560, 100, "Q", 0), Line(2, "LP", 500, 100, "Q", 0)}

\* A number made of the bytes that SLIP escapes, a string that fills a word exactly,
\* an argument without a value and one that is skipped, a comma in the address.
MCMessage ==
    {[address |-> <<47, 97>>, arguments |-> <<[type |-> "i", bytes |-> <<192, 0, 219, 220>>]>>],
     [address |-> <<47, 97, 44, 98>>,
      arguments |-> <<[type |-> "s", bytes |-> <<98, 99, 100, 101>>], [type |-> "T", bytes |-> <<>>],
                      [type |-> "h", bytes |-> <<0, 0, 0, 0, 0, 0, 0, 1>>]>>]}

allVars == <<part, vars, windowVars, equalizerVars, wireVars>>

GuiInit ==
    /\ part \in {"strips", "window", "equalizers", "wire"}
    /\ Init /\ Window!Init /\ Equalizers!Init /\ Wire!Init
    /\ part # "strips" => strips = Empty
    /\ part # "window" => ~windows /\ ~server.exists
    /\ part # "wire" => ~serial

GuiNext ==
    \/ part = "strips" /\ Next /\ UNCHANGED <<part, windowVars, equalizerVars, wireVars>>
    \/ part = "window" /\ Window!Next /\ UNCHANGED <<part, vars, equalizerVars, wireVars>>
    \/ part = "equalizers" /\ Equalizers!Next /\ UNCHANGED <<part, vars, windowVars, wireVars>>
    \/ part = "wire" /\ Wire!Next /\ UNCHANGED <<part, vars, windowVars, equalizerVars>>

GuiSpec == GuiInit /\ [][GuiNext]_allVars

Symmetry == Permutations(Gui)

=============================================================================
