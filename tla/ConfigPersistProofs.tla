------------------------ MODULE ConfigPersistProofs ------------------------
(***************************************************************************)
(* Proofs about ConfigPersist, for every set of variables, every pair of   *)
(* conversions, every rounding of texts and any number of changes, starts, *)
(* failures and crashes.                                                   *)
(***************************************************************************)
EXTENDS ConfigPersist, TLAPS

(***************************************************************************)
(* Facts about the operators.                                              *)
(***************************************************************************)

\* What an operation of OscVariable on y may do: without a callback neither the
\* value changes nor does the variable become one to persist; a value to persist
\* has passed the check callbacks.
Sound(y, r) ==
    /\ r.var \in OscVar
    /\ r.changed \in BOOLEAN
    /\ ~r.changed => r.var.value = y.value /\ (~r.var.isDefault => ~y.isDefault)
    /\ ~r.var.isDefault => r.var.value \in Valid

\* set() makes a sound outcome of a variable that has an accepted value.
LEMMA SetFacts ==
    ASSUME NEW y \in OscVar, NEW i \in Internal, NEW fromOsc \in BOOLEAN,
           ~y.isDefault => y.value \in Valid
    PROVE  Sound(y, Set(y, i, i \in Valid, fromOsc))
BY DEF Sound, Set, Outcome, OscVar, IsOscValueAuthority

\* forceDefault() makes a sound outcome of any variable.
LEMMA ForceDefaultFacts ==
    ASSUME NEW y \in OscVar, NEW i \in Internal
    PROVE  Sound(y, ForceDefault(y, i, i \in Valid))
BY DEF Sound, ForceDefault, Set, Outcome, OscVar, IsOscValueAuthority

\* setDefault() makes a sound outcome of a variable that has an accepted value.
LEMMA SetDefaultFacts ==
    ASSUME NEW y \in OscVar, NEW i \in Internal,
           ~y.isDefault => y.value \in Valid
    PROVE  Sound(y, SetDefault(y, i, i \in Valid))
BY ForceDefaultFacts DEF SetDefault, Sound, Outcome, OscVar

\* The empty file has no settings.
LEMMA NothingFacts == DOMAIN Nothing.settings = {} /\ Nothing.links = {}
BY DEF Nothing, Content

\* Every setting of the file is read back, and doing so runs the callbacks.
LEMMA LoadedFacts ==
    ASSUME IInv, NEW v \in Var
    PROVE  /\ Loaded(v).var \in OscVar
           /\ Loaded(v).changed <=> v \in DOMAIN file.settings
           /\ Loaded(v).var.isDefault <=> v \notin DOMAIN file.settings
           /\ ~Loaded(v).var.isDefault => Loaded(v).var.value \in Valid
<1> USE OscVariableAssumption, ConfigPersistAssumption
<1>1. Constructed[v] = [value |-> Default[v], isDefault |-> TRUE]
  BY DEF Constructed
<1>2. CASE v \in DOMAIN file.settings
  <2>1. PICK i \in Valid : file.settings[v] = ToOsc[i]
    BY <1>2 DEF IInv, Accepted
  <2> DEFINE w == Reread[file.settings[v]]
  <2>2. w \in Wire /\ FromOsc[w] \in Valid
    BY <2>1, RereadAssumption
  <2>3. Loaded(v) = Set(Constructed[v], FromOsc[w], FromOsc[w] \in Valid, TRUE)
    BY <1>2 DEF Loaded, SetFromOsc
  <2> HIDE DEF w
  <2>4. /\ Loaded(v).var = [value |-> FromOsc[w], isDefault |-> FALSE]
        /\ Loaded(v).changed = TRUE
    BY <1>1, <2>2, <2>3 DEF Set, Outcome
  <2>5. Loaded(v).var \in OscVar
    BY <2>2, <2>4 DEF OscVar
  <2> QED
    BY <1>2, <2>2, <2>4, <2>5
<1>3. CASE v \notin DOMAIN file.settings
  <2>1. Loaded(v).var = Constructed[v] /\ Loaded(v).changed = FALSE
    BY <1>3 DEF Loaded, Outcome
  <2>2. Constructed[v] \in OscVar
    BY <1>1 DEF OscVar
  <2> QED
    BY <1>1, <1>3, <2>1, <2>2
<1> QED
  BY <1>2, <1>3

\* The text of the variables as they are.
LEMMA TextFacts ==
    ASSUME IInv
    PROVE  /\ DOMAIN TextOf.settings = {v \in Var : ~x[v].isDefault}
           /\ \A v \in DOMAIN TextOf.settings :
                /\ TextOf.settings[v] = ToOsc[x[v].value]
                /\ x[v].value \in Valid
           /\ TextOf.links = links
           /\ HasSettings(TextOf) /\ HasLinks(TextOf)
<1>1. /\ DOMAIN TextOf.settings = {v \in Var : ~x[v].isDefault}
      /\ \A v \in DOMAIN TextOf.settings : TextOf.settings[v] = ToOsc[x[v].value]
      /\ TextOf.links = links
  BY DEF TextOf, Content
<1>2. \A v \in DOMAIN TextOf.settings : x[v].value \in Valid
  BY <1>1 DEF IInv, Accepted
<1> HIDE DEF TextOf
<1> QED
  BY <1>1, <1>2 DEF HasSettings, HasLinks

\* A variable that is given a sound outcome keeps its type and an accepted value;
\* without a callback, what a file should say of it stays the same.
LEMMA AssignFacts ==
    ASSUME IInv, NEW v \in Var, NEW r, Sound(x[v], r), x' = [x EXCEPT ![v] = r.var]
    PROVE  /\ x' \in [Var -> OscVar]
           /\ \A u \in Var : ~x'[u].isDefault => x'[u].value \in Valid
           /\ ~r.changed => \A u \in Var :
                x'[u].value = x[u].value /\ (~x'[u].isDefault => ~x[u].isDefault)
<1>1. x \in [Var -> OscVar] /\ \A u \in Var : ~x[u].isDefault => x[u].value \in Valid
  BY DEF IInv, TypeOK, Accepted
<1> QED
  BY <1>1 DEF Sound

\* A file or text that is up to date stays so when x, links and jackUp change in
\* nothing it depends on.
LEMMA ContentFrame ==
    ASSUME links' = links, jackUp' = jackUp,
           \A u \in Var : x'[u].value = x[u].value /\ (~x'[u].isDefault => ~x[u].isDefault)
    PROVE  /\ file' = file /\ HasSettings(file) /\ HasLinks(file) => (HasSettings(file) /\ HasLinks(file))'
           /\ text' = text /\ HasSettings(text) /\ HasLinks(text) => (HasSettings(text) /\ HasLinks(text))'
BY DEF HasSettings, HasLinks

-----------------------------------------------------------------------------
(***************************************************************************)
(* The inductive invariant.                                                *)
(***************************************************************************)

\* The invariant holds before the server's first start.
LEMMA InvInit == Init => IInv
<1> SUFFICES ASSUME Init
             PROVE  IInv
  OBVIOUS
<1> USE ConfigPersistAssumption
<1>1. x \in [Var -> OscVar] /\ \A v \in Var : x[v].isDefault
  BY DEF Init, Constructed, OscVar
<1>2. TypeOK
  <2>1. edits \in 0..MaxEdits /\ starts \in 0..MaxStarts
    BY DEF Init
  <2> QED
    BY <1>1, <2>1, NothingFacts DEF Init, TypeOK
<1>3. Accepted
  BY <1>1, NothingFacts DEF Init, Accepted
<1> QED
  BY <1>2, <1>3 DEF Init, IInv, UpToDate, TextUpToDate, EmptiedFirst, FormerFileKept

\* Start, which loads the file, keeps the invariant.
LEMMA InvStart == IInv /\ Start => IInv'
<1> SUFFICES ASSUME IInv, Start
             PROVE  IInv'
  OBVIOUS
<1> USE ConfigPersistAssumption
<1>1. x' = [v \in Var |-> Loaded(v).var] /\ UNCHANGED <<text, late, file, kept>>
      /\ pc = "off" /\ pc' = "idle" /\ starts' = starts + 1 /\ starts < MaxStarts
      /\ edits' = 0 /\ failed' = FALSE /\ jackUp' \in BOOLEAN
  BY DEF Start
<1>2. links' \subseteq Link
  BY DEF Start, IInv, TypeOK
<1>3. /\ x' \in [Var -> OscVar]
      /\ \A v \in Var : x'[v].isDefault <=> v \notin DOMAIN file.settings
      /\ \A v \in Var : ~x'[v].isDefault => x'[v].value \in Valid
  BY <1>1, LoadedFacts
<1>4. needSave' \in BOOLEAN
  BY DEF Start
<1>5. ~needSave' => /\ \A v \in Var : v \notin DOMAIN file.settings
                    /\ jackUp' => links' = file.links
  BY LoadedFacts DEF Start
<1>6. TypeOK'
  <2>1. edits' \in 0..MaxEdits /\ starts' \in 0..MaxStarts
    BY <1>1 DEF IInv, TypeOK
  <2>2. {jackUp, needSave, late, failed}' \subseteq BOOLEAN
    BY <1>1, <1>4 DEF IInv, TypeOK
  <2> QED
    BY <1>1, <1>2, <1>3, <2>1, <2>2 DEF IInv, TypeOK
<1>7. Accepted'
  BY <1>1, <1>3 DEF IInv, Accepted
<1>8. UpToDate'
  BY <1>1, <1>3, <1>5 DEF UpToDate, HasSettings, HasLinks
<1>9. TextUpToDate' /\ EmptiedFirst'
  BY <1>1 DEF TextUpToDate, EmptiedFirst
<1>10. FormerFileKept'
  BY <1>1 DEF IInv, FormerFileKept
<1> QED
  BY <1>6, <1>7, <1>8, <1>9, <1>10 DEF IInv

\* The end of the server, orderly or not, keeps the invariant.
LEMMA InvStop == IInv /\ (Exit \/ Crash) => IInv'
<1> SUFFICES ASSUME IInv, Exit \/ Crash
             PROVE  IInv'
  OBVIOUS
<1>1. /\ UNCHANGED <<x, links, jackUp, needSave, text, failed, file, edits, starts>>
      /\ pc' = "off" /\ late' = FALSE
  BY DEF Exit, Crash
<1>2. kept' = IF pc = "write" THEN Nothing ELSE kept
  BY DEF Exit, Crash
<1>3. TypeOK'
  BY <1>1, <1>2, NothingFacts DEF IInv, TypeOK
<1>4. Accepted'
  BY <1>1 DEF IInv, Accepted
<1>5. UpToDate' /\ TextUpToDate' /\ EmptiedFirst'
  BY <1>1 DEF UpToDate, TextUpToDate, EmptiedFirst
<1>6. FormerFileKept'
  BY <1>1, <1>2 DEF IInv, FormerFileKept, EmptiedFirst
<1> QED
  BY <1>3, <1>4, <1>5, <1>6 DEF IInv

\* The main thread gives a variable a new outcome.
LEMMA InvApply ==
    ASSUME IInv, NEW v \in Var, NEW r, Sound(x[v], r), Apply(v, r),
           pc = "idle", edits' \in 0..MaxEdits,
           UNCHANGED <<links, jackUp, pc, text, late, failed, file, kept, starts>>
    PROVE  IInv'
<1>1. x' = [x EXCEPT ![v] = r.var] /\ needSave' = (needSave \/ r.changed)
  BY DEF Apply
<1>2. TypeOK'
  BY <1>1, AssignFacts DEF IInv, TypeOK, Sound
<1>3. Accepted'
  BY <1>1, AssignFacts DEF IInv, Accepted
<1>4. UpToDate'
  <2>1. CASE needSave'
    BY <2>1 DEF UpToDate
  <2>2. CASE ~needSave'
    BY <1>1, <2>2, AssignFacts, ContentFrame DEF IInv, UpToDate
  <2> QED
    BY <2>1, <2>2
<1>5. TextUpToDate' /\ EmptiedFirst' /\ FormerFileKept'
  BY DEF IInv, TextUpToDate, EmptiedFirst, FormerFileKept
<1> QED
  BY <1>2, <1>3, <1>4, <1>5 DEF IInv

\* Change keeps the invariant.
LEMMA InvChange == ASSUME IInv, NEW v \in Var, Change(v) PROVE IInv'
<1>1. x[v] \in OscVar /\ (~x[v].isDefault => x[v].value \in Valid)
  BY DEF IInv, TypeOK, Accepted
<1>2. PICK r : Sound(x[v], r) /\ Apply(v, r)
  <2>1. CASE \E w \in Wire : Apply(v, SetFromOsc(x[v], w, FromOsc[w] \in Valid))
    <3>1. PICK w \in Wire : Apply(v, SetFromOsc(x[v], w, FromOsc[w] \in Valid))
      BY <2>1
    <3>2. FromOsc[w] \in Internal
      BY OscVariableAssumption
    <3> QED
      BY <1>1, <3>1, <3>2, SetFacts DEF SetFromOsc
  <2>2. CASE \E i \in Internal :
                \/ Apply(v, Set(x[v], i, i \in Valid, FALSE))
                \/ Apply(v, SetDefault(x[v], i, i \in Valid))
                \/ Apply(v, ForceDefault(x[v], i, i \in Valid))
    BY <1>1, <2>2, SetFacts, SetDefaultFacts, ForceDefaultFacts
  <2> QED
    BY <2>1, <2>2 DEF Change
<1>3. edits' \in 0..MaxEdits
  BY ConfigPersistAssumption DEF Change, Edit, IInv, TypeOK
<1> QED
  BY <1>2, <1>3, InvApply DEF Change

\* JackThreadSet keeps the invariant.
LEMMA InvJackThreadSet == ASSUME IInv, NEW v \in Shared, JackThreadSet(v) PROVE IInv'
<1> USE ConfigPersistAssumption
<1>1. v \in Var /\ x[v] \in OscVar /\ (~x[v].isDefault => x[v].value \in Valid)
  BY DEF IInv, TypeOK, Accepted
<1>2. PICK r : Sound(x[v], r) /\ x' = [x EXCEPT ![v] = r.var] /\ late' = r.changed
  BY <1>1, SetFacts, ForceDefaultFacts DEF JackThreadSet
<1>3. /\ UNCHANGED <<links, jackUp, needSave, pc, text, failed, file, kept, starts>>
      /\ ~late
  BY DEF JackThreadSet
<1>4. edits' \in 0..MaxEdits
  BY DEF JackThreadSet, Edit, IInv, TypeOK
<1>5. TypeOK'
  BY <1>1, <1>2, <1>3, <1>4, AssignFacts DEF IInv, TypeOK, Sound
<1>6. Accepted'
  BY <1>1, <1>2, <1>3, AssignFacts DEF IInv, Accepted
<1>7. UpToDate' /\ TextUpToDate'
  <2>1. CASE late'
    BY <2>1 DEF UpToDate, TextUpToDate
  <2>2. CASE ~late'
    BY <1>1, <1>2, <1>3, <2>2, AssignFacts, ContentFrame DEF IInv, UpToDate, TextUpToDate
  <2> QED
    BY <2>1, <2>2
<1>8. EmptiedFirst' /\ FormerFileKept'
  BY <1>3 DEF IInv, EmptiedFirst, FormerFileKept
<1> QED
  BY <1>5, <1>6, <1>7, <1>8 DEF IInv

\* JackThreadNotify keeps the invariant.
LEMMA InvJackThreadNotify == IInv /\ JackThreadNotify => IInv'
<1> SUFFICES ASSUME IInv, JackThreadNotify
             PROVE  IInv'
  OBVIOUS
<1>1. TypeOK'
  BY DEF JackThreadNotify, IInv, TypeOK
<1>2. Accepted'
  BY DEF JackThreadNotify, IInv, Accepted
<1>3. UpToDate' /\ TextUpToDate'
  BY DEF JackThreadNotify, UpToDate, TextUpToDate
<1>4. EmptiedFirst' /\ FormerFileKept'
  BY DEF JackThreadNotify, IInv, EmptiedFirst, FormerFileKept
<1> QED
  BY <1>1, <1>2, <1>3, <1>4 DEF IInv

\* LinkChange keeps the invariant.
LEMMA InvLinkChange == ASSUME IInv, NEW l \in Link, LinkChange(l) PROVE IInv'
<1>1. edits' \in 0..MaxEdits
  BY ConfigPersistAssumption DEF LinkChange, Edit, IInv, TypeOK
<1>2. TypeOK'
  BY <1>1 DEF LinkChange, IInv, TypeOK
<1>3. Accepted'
  BY DEF LinkChange, IInv, Accepted
<1>4. UpToDate'
  BY DEF LinkChange, IInv, UpToDate, HasSettings, HasLinks
<1>5. TextUpToDate' /\ EmptiedFirst' /\ FormerFileKept'
  BY DEF LinkChange, IInv, TextUpToDate, EmptiedFirst, FormerFileKept
<1> QED
  BY <1>2, <1>3, <1>4, <1>5 DEF IInv

\* SlowTimer keeps the invariant.
LEMMA InvSlowTimer == IInv /\ SlowTimer => IInv'
<1> SUFFICES ASSUME IInv, SlowTimer
             PROVE  IInv'
  OBVIOUS
<1>1. TypeOK' /\ Accepted'
  BY DEF SlowTimer, IInv, TypeOK, Accepted
<1>2. UpToDate' /\ TextUpToDate' /\ EmptiedFirst' /\ FormerFileKept'
  BY DEF SlowTimer, IInv, UpToDate, TextUpToDate, EmptiedFirst, FormerFileKept
<1> QED
  BY <1>1, <1>2 DEF IInv

\* The text is that of the variables as they are, and of accepted values.
LEMMA InvSerialise == IInv /\ Serialise => IInv'
<1> SUFFICES ASSUME IInv, Serialise
             PROVE  IInv'
  OBVIOUS
<1>1. /\ text' = TextOf
      /\ UNCHANGED <<x, links, jackUp, needSave, late, file, kept, edits, starts>>
      /\ \/ pc' = "open" /\ failed' = failed
         \/ pc' = "idle" /\ failed' = TRUE
      /\ pc = "serialise"
  BY DEF Serialise
<1>2. DOMAIN TextOf.settings \subseteq Var /\ TextOf.links \subseteq Link
  BY TextFacts DEF IInv, TypeOK
<1>3. TypeOK'
  BY <1>1, <1>2 DEF IInv, TypeOK
<1>4. Accepted'
  BY <1>1, TextFacts DEF IInv, Accepted
<1>5. TextUpToDate'
  <2>1. HasSettings(text)' /\ HasLinks(text)'
    BY <1>1, TextFacts DEF HasSettings, HasLinks
  <2> QED
    BY <2>1 DEF TextUpToDate
<1>6. UpToDate' /\ EmptiedFirst' /\ FormerFileKept'
  BY <1>1 DEF IInv, UpToDate, EmptiedFirst, FormerFileKept
<1> QED
  BY <1>3, <1>4, <1>5, <1>6 DEF IInv

\* OpenFile keeps the invariant.
LEMMA InvOpenFile == IInv /\ OpenFile => IInv'
<1> SUFFICES ASSUME IInv, OpenFile
             PROVE  IInv'
  OBVIOUS
<1>1. TypeOK'
  BY NothingFacts DEF OpenFile, IInv, TypeOK
<1>2. Accepted'
  BY NothingFacts DEF OpenFile, IInv, Accepted
<1>3. UpToDate'
  BY DEF OpenFile, UpToDate
<1>4. TextUpToDate'
  BY ContentFrame DEF OpenFile, IInv, TextUpToDate
<1>5. EmptiedFirst' /\ FormerFileKept'
  BY DEF OpenFile, IInv, EmptiedFirst, FormerFileKept
<1> QED
  BY <1>1, <1>2, <1>3, <1>4, <1>5 DEF IInv

\* WriteFile keeps the invariant.
LEMMA InvWriteFile == IInv /\ WriteFile => IInv'
<1> SUFFICES ASSUME IInv, WriteFile
             PROVE  IInv'
  OBVIOUS
<1>1. TypeOK'
  BY DEF WriteFile, IInv, TypeOK
<1>2. Accepted'
  BY DEF WriteFile, IInv, Accepted
<1>3. UpToDate'
  BY DEF WriteFile, IInv, UpToDate, TextUpToDate, HasSettings, HasLinks
<1>4. TextUpToDate' /\ EmptiedFirst' /\ FormerFileKept'
  BY DEF WriteFile, TextUpToDate, EmptiedFirst, FormerFileKept
<1> QED
  BY <1>1, <1>2, <1>3, <1>4 DEF IInv

\* So does a step that changes nothing.
LEMMA InvStutter == IInv /\ UNCHANGED vars => IInv'
<1> SUFFICES ASSUME IInv, UNCHANGED vars
             PROVE  IInv'
  OBVIOUS
<1>1. TypeOK' /\ Accepted'
  BY DEF vars, IInv, TypeOK, Accepted
<1>2. UpToDate' /\ TextUpToDate'
  BY ContentFrame DEF vars, IInv, UpToDate, TextUpToDate
<1>3. EmptiedFirst' /\ FormerFileKept'
  BY DEF vars, IInv, EmptiedFirst, FormerFileKept
<1> QED
  BY <1>1, <1>2, <1>3 DEF IInv

\* IInv is inductive: it holds initially and every step preserves it, the steps
\* of JACK's thread between those of a save included.
THEOREM Inductive == Spec => []IInv
<1>1. IInv /\ [Next]_vars => IInv'
  BY InvStart, InvStop, InvChange, InvJackThreadSet, InvJackThreadNotify, InvLinkChange,
     InvSlowTimer, InvSerialise, InvOpenFile, InvWriteFile, InvStutter DEF Next, SaveStep
<1> QED
  BY InvInit, <1>1, PTL DEF Spec

\* Whatever is set, loaded, saved, refused or lost, the variables, the texts and
\* the file keep their types.
THEOREM TypeCorrect == Spec => []TypeOK
<1>1. IInv => TypeOK
  BY DEF IInv
<1> QED
  BY <1>1, Inductive, PTL

\* With no save requested, under way or failed, damc_config.json holds the
\* settings and the connections of the server.
THEOREM FileUpToDate == Spec => []UpToDate
<1>1. IInv => UpToDate
  BY DEF IInv
<1> QED
  BY <1>1, Inductive, PTL

\* Outside the two calls that empty and write it, the file is the latest one that
\* was completely written, however many saves have failed.
THEOREM FileKept == Spec => []FormerFileKept
<1>1. IInv => FormerFileKept
  BY DEF IInv
<1> QED
  BY <1>1, Inductive, PTL
=============================================================================
