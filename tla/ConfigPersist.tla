--------------------------- MODULE ConfigPersist ---------------------------
(***************************************************************************)
(* The configuration file.  Every change of a persistent variable, or of   *)
(* the JACK connections to remember, requests a save; the slow timer of    *)
(* the main thread makes it within a second.  A save turns the variables   *)
(* that are not at their default into text, checks that the text is JSON,  *)
(* and only then empties the file and writes it.  The server loads the     *)
(* file when it starts; a file it cannot read counts for nothing.          *)
(*                                                                         *)
(* JACK's thread assigns a variable too (a strip's display name), at any   *)
(* time, and only afterwards runs its change callbacks.                    *)
(*                                                                         *)
(* What a variable's text reads back as is given by Reread: numbers are    *)
(* written with six decimals.  Some texts are not JSON: strings are not    *)
(* escaped, and the decibels of a volume of zero are written "-inf".       *)
(***************************************************************************)
EXTENDS OscVariable, Naturals, FiniteSets

CONSTANTS
    Var,        \* the persistent variables
    Shared,     \* those that JACK's thread assigns
    Default,    \* [Var -> Internal]: the values they are constructed with
    Reread,     \* [Wire -> Wire]
    Unparsable, \* the wire values whose text is not JSON
    Link,       \* connections of JACK ports
    MaxEdits,   \* bound: changes of a run of the server
    MaxStarts   \* bound: starts of the server

ASSUME ConfigPersistAssumption ==
    /\ Shared \subseteq Var
    /\ Default \in [Var -> Internal]
    /\ Reread \in [Wire -> Wire]
    /\ Unparsable \subseteq Wire
    /\ MaxEdits \in Nat
    /\ MaxStarts \in Nat

\* The variables with check callbacks have no converters: what was accepted once
\* is accepted again when it is read back.
ASSUME RereadAssumption == \A v \in Valid : FromOsc[Reread[ToOsc[v]]] \in Valid

VARIABLES
    x,        \* x[v]: the variable v
    links,    \* outputPortConnections
    jackUp,   \* the monitoring client could be opened
    needSave, \* oscNeedSaveConfig
    pc,       \* the main thread: off, idle, or a step of saveConfig
    text,     \* jsonData of the save under way
    late,     \* JACK's thread has assigned a variable and not called it back yet
    failed,   \* history: the latest save failed
    file,     \* damc_config.json
    kept,     \* history: the latest file that was completely written, until a crash ruins it
    edits,    \* changes since the start
    starts    \* starts so far

vars == <<x, links, jackUp, needSave, pc, text, late, failed, file, kept, edits, starts>>

\* Files and texts: the wire values of some variables, and connections.
Content(settings, conns) == [settings |-> settings, links |-> conns]

\* What a file that is missing or not JSON amounts to.
Nothing == Content(<<>>, {})

TypeOK ==
    /\ x \in [Var -> OscVar]
    /\ links \subseteq Link
    /\ {jackUp, needSave, late, failed} \subseteq BOOLEAN
    /\ pc \in {"off", "idle", "serialise", "open", "write"}
    /\ \A c \in {text, file, kept} : DOMAIN c.settings \subseteq Var /\ c.links \subseteq Link
    /\ edits \in 0..MaxEdits
    /\ starts \in 0..MaxStarts

Constructed == [v \in Var |-> [value |-> Default[v], isDefault |-> TRUE]]

Init ==
    /\ x = Constructed
    /\ links = {}
    /\ jackUp = FALSE
    /\ needSave = FALSE
    /\ pc = "off"
    /\ text = Nothing
    /\ late = FALSE
    /\ failed = FALSE
    /\ file = Nothing
    /\ kept = Nothing
    /\ edits = 0
    /\ starts = 0

Edit == edits < MaxEdits /\ edits' = edits + 1

-----------------------------------------------------------------------------
(* Start and end of the server. *)

\* Mutant: convertFromOsc is not applied.
LoadedUnconverted(v) ==
    IF v \in DOMAIN file.settings
    THEN Set(Constructed[v], Reread[file.settings[v]], TRUE, TRUE)
    ELSE Outcome(Constructed[v], FALSE, FALSE)

\* loadNodeConfig() of variable v.
Loaded(v) ==
    IF v \in DOMAIN file.settings
    THEN LET w == Reread[file.settings[v]]
         IN  SetFromOsc(Constructed[v], w, FromOsc[w] \in Valid)
    ELSE Outcome(Constructed[v], FALSE, FALSE)

\* Without a client in JACK the connections of the file are not taken over.  With
\* one, those that JACK has now are added.
Start ==
    /\ pc = "off"
    /\ starts < MaxStarts
    /\ starts' = starts + 1
    /\ x' = [v \in Var |-> Loaded(v).var]
    /\ jackUp' \in BOOLEAN
    /\ IF jackUp' THEN \E present \in SUBSET Link : links' = file.links \cup present ELSE links' = {}
    /\ needSave' = ((\E v \in Var : Loaded(v).changed) \/ (jackUp' /\ links' # file.links))
    /\ pc' = "idle"
    /\ failed' = FALSE
    /\ edits' = 0
    /\ UNCHANGED <<text, late, file, kept>>

\* stop() by a key, exit(0) by a signal: both from the event loop.
Exit ==
    /\ pc = "idle"
    /\ pc' = "off"
    /\ late' = FALSE
    /\ UNCHANGED <<x, links, jackUp, needSave, text, failed, file, kept, edits, starts>>

\* The process is killed, or the machine fails.
Crash ==
    /\ pc \notin {"off", "idle"}
    /\ pc' = "off"
    /\ late' = FALSE
    /\ kept' = IF pc = "write" THEN Nothing ELSE kept
    /\ UNCHANGED <<x, links, jackUp, needSave, text, failed, file, edits, starts>>

-----------------------------------------------------------------------------
(* Changes. *)

\* Mutant: the value a default is forced to requests no save.
ApplySilently(v, r) ==
    /\ x' = [x EXCEPT ![v] = r.var]
    /\ needSave' = (needSave \/ (r.changed /\ ~r.var.isDefault))

\* The main thread gives v the outcome r of one of OscVariable's operators; the
\* change callbacks end in onOscValueChanged.
Apply(v, r) ==
    /\ x' = [x EXCEPT ![v] = r.var]
    /\ needSave' = (needSave \/ r.changed)

Change(v) ==
    /\ Edit
    /\ pc = "idle"
    /\ \/ \E w \in Wire : Apply(v, SetFromOsc(x[v], w, FromOsc[w] \in Valid))
       \/ \E i \in Internal :
             \/ Apply(v, Set(x[v], i, i \in Valid, FALSE))
             \/ Apply(v, SetDefault(x[v], i, i \in Valid))
             \/ Apply(v, ForceDefault(x[v], i, i \in Valid))
    /\ UNCHANGED <<links, jackUp, pc, text, late, failed, file, kept, starts>>

\* onJackPropertyChangeCallback() on JACK's thread, until the value is assigned.
JackThreadSet(v) ==
    /\ Edit
    /\ pc # "off"
    /\ ~late
    /\ \E i \in Internal :
          \E r \in {Set(x[v], i, i \in Valid, FALSE), ForceDefault(x[v], i, i \in Valid)} :
             x' = [x EXCEPT ![v] = r.var] /\ late' = r.changed
    /\ UNCHANGED <<links, jackUp, needSave, pc, text, failed, file, kept, starts>>

\* Mutant: the change of a variable by JACK's thread requests no save.
JackThreadNotifyNobody ==
    /\ late
    /\ late' = FALSE
    /\ UNCHANGED <<x, links, jackUp, needSave, pc, text, failed, file, kept, edits, starts>>

JackThreadNotify ==
    /\ late
    /\ late' = FALSE
    /\ needSave' = TRUE
    /\ UNCHANGED <<x, links, jackUp, pc, text, failed, file, kept, edits, starts>>

\* savePortConnection(), on the main thread.
LinkChange(l) ==
    /\ Edit
    /\ pc = "idle"
    /\ jackUp
    /\ links' \in {links \cup {l}, links \ {l}}
    /\ needSave' = (needSave \/ links' # links)
    /\ UNCHANGED <<x, jackUp, pc, text, late, failed, file, kept, starts>>

-----------------------------------------------------------------------------
(* saveConfig(), on the main thread. *)

SlowTimer ==
    /\ pc = "idle"
    /\ needSave
    /\ needSave' = FALSE
    /\ pc' = "serialise"
    /\ UNCHANGED <<x, links, jackUp, text, late, failed, file, kept, edits, starts>>

\* getAsString(): the variables that have been set.
TextOf ==
    Content([v \in {u \in Var : ~x[u].isDefault} |-> ToOsc[x[v].value]], links)

Parses(c) == \A v \in DOMAIN c.settings : c.settings[v] \notin Unparsable

\* Mutant: the file is opened first.
SerialiseIntoOpenFile ==
    /\ pc = "serialise"
    /\ text' = TextOf
    /\ file' = Nothing
    /\ IF Parses(TextOf) THEN pc' = "write" /\ UNCHANGED failed ELSE pc' = "idle" /\ failed' = TRUE
    /\ UNCHANGED <<x, links, jackUp, needSave, late, kept, edits, starts>>

\* A text that is not JSON throws, and the save is given up.
Serialise ==
    /\ pc = "serialise"
    /\ text' = TextOf
    /\ IF Parses(TextOf) THEN pc' = "open" /\ UNCHANGED failed ELSE pc' = "idle" /\ failed' = TRUE
    /\ UNCHANGED <<x, links, jackUp, needSave, late, file, kept, edits, starts>>

\* fopen() empties the file, or fails.
OpenFile ==
    /\ pc = "open"
    /\ \/ file' = Nothing /\ pc' = "write" /\ UNCHANGED failed
       \/ pc' = "idle" /\ failed' = TRUE /\ UNCHANGED file
    /\ UNCHANGED <<x, links, jackUp, needSave, text, late, kept, edits, starts>>

\* The disk is assumed to take the whole text: the result of fwrite() is ignored.
WriteFile ==
    /\ pc = "write"
    /\ file' = text
    /\ kept' = text
    /\ pc' = "idle"
    /\ failed' = FALSE
    /\ UNCHANGED <<x, links, jackUp, needSave, text, late, edits, starts>>

-----------------------------------------------------------------------------
SaveStep == SlowTimer \/ Serialise \/ OpenFile \/ WriteFile

Next ==
    \/ Start \/ Exit \/ Crash
    \/ \E v \in Var : Change(v)
    \/ \E v \in Shared : JackThreadSet(v)
    \/ JackThreadNotify
    \/ \E l \in Link : LinkChange(l)
    \/ SaveStep

Spec == Init /\ [][Next]_vars

\* The timers of the main loop go off and JACK's thread runs; nobody is obliged
\* to start the server or to change anything.
FairSpec == Spec /\ WF_vars(SaveStep) /\ WF_vars(JackThreadNotify)

-----------------------------------------------------------------------------
\* A start from c would find each setting, and no other value than the present one
\* for a variable that went back to its default.
HasSettings(c) ==
    \A v \in Var :
        /\ ~x[v].isDefault => v \in DOMAIN c.settings
        /\ v \in DOMAIN c.settings => c.settings[v] = ToOsc[x[v].value]

HasLinks(c) == jackUp => c.links = links

\* With no save requested or under way the file is up to date, unless the latest
\* save failed: no way to change a setting goes without a request, and a change
\* that JACK's thread makes during a save is saved by the next one.
UpToDate == pc = "idle" /\ ~needSave /\ ~late /\ ~failed => HasSettings(file) /\ HasLinks(file)

\* A save that fails leaves the former file as it is: only a server that dies
\* between emptying and writing the file loses what it held.
FormerFileKept == pc # "write" => file = kept

\* While the server goes on running, the file catches up with the last change
\* or the save of it fails.
EventuallySaved ==
    <>[](pc # "off") => <>[](failed \/ (HasSettings(file) /\ HasLinks(file)))

-----------------------------------------------------------------------------
(* The inductive strengthening of UpToDate and FormerFileKept. *)

\* What is set, and what is or will be in the file, the check callbacks accepted.
Accepted ==
    /\ \A v \in Var : ~x[v].isDefault => x[v].value \in Valid
    /\ \A c \in {text, file} : \A v \in DOMAIN c.settings : \E i \in Valid : c.settings[v] = ToOsc[i]

\* What is about to be written is up to date, or another save will follow.
TextUpToDate ==
    pc \in {"open", "write"} /\ ~needSave /\ ~late => HasSettings(text) /\ HasLinks(text)

\* A file is only written after it was emptied.
EmptiedFirst == pc = "write" => file = Nothing

IInv == TypeOK /\ Accepted /\ UpToDate /\ TextUpToDate /\ EmptiedFirst /\ FormerFileKept
=============================================================================
