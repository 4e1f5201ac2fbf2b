---------------------------- MODULE OscVariable ----------------------------
(***************************************************************************)
(* One OSC variable of the server: a value of type T (Internal) reachable  *)
(* under an OSC address.  Clients speak in wire values (Wire): FromOsc and *)
(* ToOsc are the type conversion of OscNode::getArgumentAs together with   *)
(* the optional converters of setOscConverters (the decibel conversion of  *)
(* the volumes, for example).  Neither is assumed to be injective nor the  *)
(* inverse of the other: floats are rounded and integers truncated.        *)
(*                                                                         *)
(* The module has no state.  Each operator maps a variable to an outcome:  *)
(*   var      the variable afterwards                                      *)
(*   notified notifyOsc ran: ToOsc of the new value goes to every client   *)
(*   changed  the change callbacks ran (they request a config save)        *)
(***************************************************************************)

CONSTANTS
    Wire,       \* values as they appear in OSC messages
    Internal,   \* values of the C++ type T
    FromOsc,    \* [Wire -> Internal]
    ToOsc,      \* [Internal -> Wire]
    Valid       \* the values every check callback accepts

ASSUME OscVariableAssumption ==
    /\ FromOsc \in [Wire -> Internal]
    /\ ToOsc \in [Internal -> Wire]
    /\ Valid \subseteq Internal

OscVar == [value : Internal, isDefault : BOOLEAN]

\* A variable as the program starts with it: its default, checked or not, or a
\* value of the configuration file, which set() has accepted.
IsInitial(x) == x.isDefault \/ x.value \in Valid

\* Mutant: the server does not confirm the values it accepts.
ConfirmsNothing == FALSE

\* main.cpp builds the server's OscRoot with notifyAtInit = true.
IsOscValueAuthority == TRUE

Outcome(var, notified, changed) ==
    [var |-> var, notified |-> notified, changed |-> changed]

\* Mutant: a refused value is dropped without an answer.
SetRefusingSilently(x, v, checked, fromOsc) ==
    IF (x.value = v /\ ~x.isDefault) \/ ~checked THEN Outcome(x, FALSE, FALSE)
    ELSE Outcome([value |-> v, isDefault |-> FALSE], TRUE, TRUE)

(***************************************************************************)
(* set(): a value equal to a non-default one is ignored; a value that a    *)
(* check callback refuses leaves the variable alone, and the refusal is    *)
(* answered with the current value when the request came from OSC.         *)
(* `checked' says whether the check callbacks accept v in this state.      *)
(***************************************************************************)
Set(x, v, checked, fromOsc) ==
    IF x.value = v /\ ~x.isDefault THEN Outcome(x, FALSE, FALSE)
    ELSE IF checked
    THEN Outcome([value |-> v, isDefault |-> FALSE], ~fromOsc \/ IsOscValueAuthority, TRUE)
    ELSE Outcome(x, fromOsc, FALSE)

\* setFromOsc(), reached from execute() and from toggle/increment/decrement.
SetFromOsc(x, w, checked) == Set(x, FromOsc[w], checked, TRUE)

\* forceDefault(): the value changes like with set() but is not persisted.
ForceDefault(x, v, checked) ==
    LET r == Set([value |-> x.value, isDefault |-> FALSE], v, checked, FALSE)
    IN  Outcome([value |-> r.var.value, isDefault |-> TRUE], r.notified, r.changed)

\* setDefault(): the same, for a variable nobody has set yet.
SetDefault(x, v, checked) ==
    IF x.isDefault THEN ForceDefault(x, v, checked) ELSE Outcome(x, FALSE, FALSE)
=============================================================================
