------------------------------ MODULE GuiConfig ------------------------------
(***************************************************************************)
(* "Save configuration" and "Load configuration" of the GUI's menu         *)
(* (damc_gui/MainWindow.cpp, damc_gui/OscStatePersist.cpp): the values of  *)
(* the variables the server has announced are written to a JSON file, and  *)
(* a file's values are given to the nodes that wait for a configuration    *)
(* (OscRoot::loadNodeConfig).                                              *)
(***************************************************************************)
EXTENDS Naturals, FiniteSets

CONSTANTS
    Variable,    \* variables of the GUI
    Unmapped,    \* those without widgets: lists of devices, sample rates
    ReadOnly,    \* those with a read-only widget
    Value,       \* their values
    Quoted,      \* texts with a quote or a backslash, which are not escaped
    Written(_),  \* what is read back of a number written with six digits
    NoFile, NotJson,
    MaxChanges   \* bound: changes of values and of the file

VARIABLES
    value,    \* the value of each variable
    known,    \* those the server has announced (~defaultValue)
    waiting,  \* nodesPendingConfig
    file,     \* the values in the file, NoFile or NotJson
    last,     \* history: what the last action did
    changes   \* number of changes

configVars == <<value, known, waiting, file, last, changes>>

TypeOK ==
    /\ value \in [Variable -> Value]
    /\ known \subseteq Variable /\ waiting \subseteq Variable
    /\ file \in {NoFile, NotJson} \cup UNION {[V -> Value] : V \in SUBSET Variable}
    /\ last \in {"nothing", "saved", "loaded", "failed"}
    /\ changes \in 0..MaxChanges

(* An OscVariable or an OscFlatArray waits for a configuration from its     *)
(* construction on (addPendingConfigNode); an OscWidgetMapper never does.   *)
Registered == Unmapped

Init ==
    /\ \E initial \in Value \ Quoted : value = [v \in Variable |-> initial]
    /\ known = {} /\ waiting = Registered
    /\ file = NoFile /\ last = "nothing" /\ changes = 0

Change == changes < MaxChanges /\ changes' = changes + 1

(* OscWidgetMapper::execute: a value of the server. *)
Announce(v, x) ==
    /\ Change
    /\ value' = [value EXCEPT ![v] = x]
    /\ known' = known \cup {v}
    /\ last' = "nothing"
    /\ UNCHANGED <<waiting, file>>

(* The user edits a widget, which is shown once its variable is announced.  *)
UserSet(v, x) ==
    /\ Change /\ v \in known \ (ReadOnly \cup Unmapped) /\ x # value[v]
    /\ value' = [value EXCEPT ![v] = x]
    /\ last' = "nothing"
    /\ UNCHANGED <<known, waiting, file>>

Persisted == known \ ReadOnly

(* The text is parsed before the file is opened: it is not JSON when no     *)
(* variable is in it or a text is not escaped.                              *)
IsJson == Persisted # {} /\ \A v \in Persisted : value[v] \notin Quoted

Save(opened) ==
    \/ /\ IsJson /\ opened
       /\ file' = [v \in Persisted |-> Written(value[v])]
       /\ last' = "saved"
       /\ UNCHANGED <<value, known, waiting, changes>>
    \/ /\ ~(IsJson /\ opened)
       /\ last' = "failed"
       /\ UNCHANGED <<value, known, waiting, file, changes>>

(* Another file, or the disk filled up while an earlier one was written,    *)
(* which the save does not check.                                           *)
OtherFile ==
    /\ Change
    /\ file' \in {NoFile, NotJson}
    /\ last' = "nothing"
    /\ UNCHANGED <<value, known, waiting>>

(* loadState and loadNodeConfig: each waiting node takes its value and no   *)
(* longer waits.                                                            *)
Load ==
    \/ /\ file \in {NoFile, NotJson}
       /\ last' = "failed"
       /\ UNCHANGED <<value, known, waiting, file, changes>>
    \/ /\ file \notin {NoFile, NotJson}
       /\ value' = [v \in Variable |->
                      IF v \in waiting \cap DOMAIN file THEN file[v] ELSE value[v]]
       /\ known' = known \cup (waiting \cap DOMAIN file)
       /\ waiting' = {} /\ last' = "loaded"
       /\ UNCHANGED <<file, changes>>

Next ==
    \/ \E v \in Variable, x \in Value : Announce(v, x) \/ UserSet(v, x)
    \/ \E opened \in BOOLEAN : Save(opened)
    \/ OtherFile \/ Load

Spec == Init /\ [][Next]_configVars

(* "Load configuration" (MainWindow.cpp:48), "Updating OSC variables"       *)
(* (OscStatePersist.cpp:137): once a file is loaded the variables it names  *)
(* have its values.                                                         *)
LoadRestores == last = "loaded" => \A v \in DOMAIN file : value[v] = file[v]
=============================================================================
