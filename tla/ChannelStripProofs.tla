------------------------- MODULE ChannelStripProofs -------------------------
(***************************************************************************)
(* Proofs about ChannelStrip, for every set of names and types and every   *)
(* number of edits.                                                        *)
(***************************************************************************)
EXTENDS ChannelStrip, SequenceTheorems, TLAPS

(***************************************************************************)
(* Types.                                                                  *)
(***************************************************************************)

\* The operations of the display name return a variable.
LEMMA DisplayFacts ==
  ASSUME NEW d \in DisplayName!OscVar, NEW n \in Name, NEW fromOsc \in BOOLEAN
  PROVE  /\ DisplayName!Set(d, n, TRUE, fromOsc).var \in DisplayName!OscVar
         /\ DisplayName!Set(d, n, TRUE, fromOsc).changed \in BOOLEAN
         /\ DisplayName!SetFromOsc(d, n, TRUE).var \in DisplayName!OscVar
         /\ DisplayName!SetFromOsc(d, n, TRUE).changed \in BOOLEAN
         /\ DisplayName!ForceDefault(d, n, TRUE).var \in DisplayName!OscVar
         /\ DisplayName!ForceDefault(d, n, TRUE).changed \in BOOLEAN
BY DEF DisplayName!OscVar, DisplayName!Set, DisplayName!SetFromOsc, DisplayName!ForceDefault,
       DisplayName!Outcome

\* TypeOK in two parts: the flags, and the variables that are not flags.
FlagsOK ==
    /\ enableAudio \in BOOLEAN /\ enable \in BOOLEAN /\ requested \in BOOLEAN
    /\ uuid \in BOOLEAN /\ notified \in BOOLEAN /\ playing \in BOOLEAN /\ audio \in BOOLEAN

StripOK ==
    /\ type \in Type \cup {NoType} /\ endpoint \in Type \cup {NoType}
    /\ name \in Name
    /\ client \in {"closed", "open", "active"}
    /\ pc \in {"idle", "start", "name", "property", "activate", "close", "stop"}
    /\ edits \in 0..MaxEdits

NamesOK ==
    /\ writing \in Name
    /\ display \in DisplayName!OscVar
    /\ prop \in Name \cup {NoName, Foreign}
    /\ changes \in Seq({"changed", "deleted"})
    /\ jack \in {Idle, Reset} \cup {Assign(n) : n \in Name}

\* The type invariant in its parts.
LEMMA TypeParts == TypeOK <=> FlagsOK /\ StripOK /\ NamesOK
<1>1. {enableAudio, enable, requested, uuid, notified, playing, audio} \subseteq BOOLEAN <=> FlagsOK
  BY Zenon DEF FlagsOK
<1> QED
  BY <1>1 DEF TypeOK, StripOK, NamesOK

\* The invariant holds at the start.
LEMMA InitIInv == Init => IInv
<1> SUFFICES ASSUME Init
             PROVE  IInv
  OBVIOUS
<1>1. FlagsOK
  BY Zenon DEF Init, FlagsOK
<1>2. StripOK
  BY ChannelStripAssumption DEF Init, StripOK
<1>3. NamesOK
  <2>1. <<>> \in Seq({"changed", "deleted"})
    OBVIOUS
  <2> QED
    BY <2>1, ChannelStripAssumption DEF Init, NamesOK
<1> QED
  BY <1>1, <1>2, <1>3, TypeParts DEF Init, IInv, ClientInv, HandlerInv, ClientOnlyIfEnabled

\* What the notification thread has read is something it can assign.
LEMMA JackFacts ==
  ASSUME NamesOK
  PROVE  /\ jack # Idle /\ jack # Reset => jack.name \in Name
         /\ Idle \in {Idle, Reset} \cup {Assign(n) : n \in Name}
         /\ Reset \in {Idle, Reset} \cup {Assign(n) : n \in Name}
         /\ prop \in Name => Assign(prop) \in {Idle, Reset} \cup {Assign(n) : n \in Name}
BY DEF NamesOK, Assign

\* The flags stay flags.  Those an action computes are flags because the
\* operations of the display name return one.
LEMMA FlagsStep ==
  ASSUME TypeOK, [Next]_vars
  PROVE  FlagsOK'
<1> USE TypeParts DEF FlagsOK
<1>a. display \in DisplayName!OscVar /\ name \in Name
  BY DEF StripOK, NamesOK
<1>1. CASE Activate
  BY <1>1, Zenon DEF Activate, names
<1>2. ASSUME NEW enabled \in BOOLEAN, SetEnable(enabled)
      PROVE  FlagsOK'
  BY <1>2, Zenon DEF SetEnable, names
<1>3. ASSUME NEW t \in Type \cup {NoType}, SetType(t)
      PROVE  FlagsOK'
  BY <1>3, Zenon DEF SetType, names
<1>4. ASSUME NEW n \in ClientNames, SetName(n)
      PROVE  FlagsOK'
  BY <1>4, Zenon DEF SetName, names
<1>5. ASSUME NEW n \in Name, SetDisplay(n)
      PROVE  FlagsOK'
  <2>1. DisplayName!SetFromOsc(display, n, TRUE).changed \in BOOLEAN
    BY <1>a, DisplayFacts
  <2> QED
    BY <1>5, <2>1, Zenon DEF SetDisplay, strip
<1>6. CASE StartFails \/ Open \/ FastTimer
  BY <1>6, Zenon DEF StartFails, Open, FastTimer, strip, names
<1>7. CASE ReadName
  <2>1. DisplayName!ForceDefault(display, name, TRUE).changed \in BOOLEAN
    BY <1>a, DisplayFacts
  <2>2. requested' \in BOOLEAN
    BY <1>7, <2>1, Zenon DEF ReadName
  <2> QED
    BY <1>7, <2>2, Zenon DEF ReadName, strip
<1>8. CASE WriteProperty \/ ActivateClient \/ Close \/ StopEndpoint
  BY <1>8, Zenon DEF WriteProperty, ActivateClient, Close, StopEndpoint, strip, names
<1>9. CASE AudioEnter \/ AudioLeave
  BY <1>9, Zenon DEF AudioEnter, AudioLeave, strip, names
<1>10. ASSUME NEW n \in Name \cup {Foreign}, OtherSetsProperty(n)
       PROVE  FlagsOK'
  BY <1>10, Zenon DEF OtherSetsProperty, strip
<1>11. CASE OtherDeletesProperty
  BY <1>11, Zenon DEF OtherDeletesProperty, strip
<1>12. CASE JackRead
  BY <1>12, Zenon DEF JackRead, strip
<1>13. CASE JackAssign
  <2>1. /\ DisplayName!ForceDefault(display, name, TRUE).changed \in BOOLEAN
        /\ jack # Reset => DisplayName!Set(display, jack.name, TRUE, FALSE).changed \in BOOLEAN
    BY <1>a, <1>13, DisplayFacts, JackFacts DEF JackAssign
  <2>2. requested' \in BOOLEAN
    BY <1>13, <2>1, Zenon DEF JackAssign
  <2> QED
    BY <1>13, <2>2, Zenon DEF JackAssign, strip
<1>14. CASE UNCHANGED vars
  BY <1>14, Zenon DEF vars, strip, names
<1> QED
  BY <1>1, <1>2, <1>3, <1>4, <1>5, <1>6, <1>7, <1>8, <1>9, <1>10, <1>11, <1>12, <1>13, <1>14
  DEF Next

\* Types, names and places stay what they are.
LEMMA StripStep ==
  ASSUME TypeOK, [Next]_vars
  PROVE  StripOK'
<1> USE TypeParts, ChannelStripAssumption DEF StripOK, strip, names, Edit
<1>1. CASE Activate
  BY <1>1 DEF Activate, StateUpdate
<1>2. ASSUME NEW enabled \in BOOLEAN, SetEnable(enabled)
      PROVE  StripOK'
  BY <1>2 DEF SetEnable, StateUpdate
<1>3. ASSUME NEW t \in Type \cup {NoType}, SetType(t)
      PROVE  StripOK'
  BY <1>3 DEF SetType
<1>4. ASSUME NEW n \in ClientNames, SetName(n)
      PROVE  StripOK'
  BY <1>4 DEF SetName
<1>5. ASSUME NEW n \in Name, SetDisplay(n)
      PROVE  StripOK'
  BY <1>5 DEF SetDisplay
<1>6. CASE StartFails \/ Open \/ FastTimer
  BY <1>6 DEF StartFails, Open, FastTimer
<1>7. CASE ReadName \/ WriteProperty
  BY <1>7 DEF ReadName, WriteProperty, AfterName
<1>8. CASE ActivateClient \/ Close \/ StopEndpoint
  BY <1>8 DEF ActivateClient, Close, StopEndpoint
<1>9. CASE AudioEnter \/ AudioLeave
  BY <1>9 DEF AudioEnter, AudioLeave
<1>10. ASSUME NEW n \in Name \cup {Foreign}, OtherSetsProperty(n)
       PROVE  StripOK'
  BY <1>10 DEF OtherSetsProperty
<1>11. CASE OtherDeletesProperty
  BY <1>11 DEF OtherDeletesProperty
<1>12. CASE JackRead \/ JackAssign
  BY <1>12 DEF JackRead, JackAssign
<1>13. CASE UNCHANGED vars
  BY <1>13 DEF vars
<1> QED
  BY <1>1, <1>2, <1>3, <1>4, <1>5, <1>6, <1>7, <1>8, <1>9, <1>10, <1>11, <1>12, <1>13
  DEF Next

\* The names stay names, in each of the places where they are.
LEMMA NamesStep ==
  ASSUME TypeOK, [Next]_vars
  PROVE  NamesOK'
<1> DEFINE Change == {"changed", "deleted"}
<1> USE TypeParts DEF NamesOK, strip, names
<1>a. name \in Name
  BY DEF StripOK
<1>b. <<>> \in Seq(Change)
  OBVIOUS
<1>c. Append(changes, "changed") \in Seq(Change) /\ Append(changes, "deleted") \in Seq(Change)
  BY AppendProperties
<1>1. CASE Activate
  BY <1>1 DEF Activate
<1>2. ASSUME NEW enabled \in BOOLEAN, SetEnable(enabled)
      PROVE  NamesOK'
  BY <1>2 DEF SetEnable
<1>3. ASSUME NEW t \in Type \cup {NoType}, SetType(t)
      PROVE  NamesOK'
  BY <1>3 DEF SetType
<1>4. ASSUME NEW n \in ClientNames, SetName(n)
      PROVE  NamesOK'
  BY <1>4 DEF SetName
<1>5. ASSUME NEW n \in Name, SetDisplay(n)
      PROVE  NamesOK'
  BY <1>5, DisplayFacts DEF SetDisplay
<1>6. CASE StartFails \/ FastTimer
  BY <1>6 DEF StartFails, FastTimer
<1>7. CASE Open \/ Close
  BY <1>7, <1>b DEF Open, Close
<1>8. CASE ReadName
  <2>1. writing' \in Name
    BY <1>8 DEF ReadName, DisplayName!OscVar
  <2>2. display' \in DisplayName!OscVar
    BY <1>8, <1>a, DisplayFacts DEF ReadName
  <2> QED
    BY <1>8, <2>1, <2>2 DEF ReadName
<1>9. CASE WriteProperty
  BY <1>9, <1>c DEF WriteProperty
<1>10. CASE ActivateClient \/ StopEndpoint \/ AudioEnter \/ AudioLeave
  BY <1>10 DEF ActivateClient, StopEndpoint, AudioEnter, AudioLeave
<1>11. ASSUME NEW n \in Name \cup {Foreign}, OtherSetsProperty(n)
       PROVE  NamesOK'
  BY <1>11, <1>c DEF OtherSetsProperty
<1>12. CASE OtherDeletesProperty
  BY <1>12, <1>c DEF OtherDeletesProperty
<1>13. CASE JackRead
  <2>1. changes' \in Seq(Change)
    BY <1>13, HeadTailProperties DEF JackRead
  <2>2. jack' \in {Idle, Reset} \cup {Assign(n) : n \in Name}
    BY <1>13, JackFacts DEF JackRead
  <2> QED
    BY <1>13, <2>1, <2>2 DEF JackRead
<1>14. CASE JackAssign
  <2>1. display' \in DisplayName!OscVar
    BY <1>14, <1>a, DisplayFacts, JackFacts DEF JackAssign
  <2>2. jack' \in {Idle, Reset} \cup {Assign(n) : n \in Name}
    BY <1>14, JackFacts DEF JackAssign
  <2> QED
    BY <1>14, <2>1, <2>2 DEF JackAssign
<1>15. CASE UNCHANGED vars
  BY <1>15 DEF vars
<1> QED
  BY <1>1, <1>2, <1>3, <1>4, <1>5, <1>6, <1>7, <1>8, <1>9, <1>10, <1>11, <1>12, <1>13, <1>14, <1>15
  DEF Next

(***************************************************************************)
(* The client, the endpoint and the handlers.                              *)
(***************************************************************************)

\* Every step of the main thread keeps what the states of client and handlers say.
LEMMA ClientStep ==
  ASSUME IInv, [Next]_vars
  PROVE  ClientInv' /\ HandlerInv' /\ ClientOnlyIfEnabled'
<1> DEFINE Goal == ClientInv' /\ HandlerInv' /\ ClientOnlyIfEnabled'
<1> USE DEF IInv, ClientInv, HandlerInv, ClientOnlyIfEnabled, strip, names
<1>a. client \in {"closed", "open", "active"}
  BY TypeParts DEF StripOK
<1>b. FlagsOK
  BY TypeParts
<1>1. CASE Activate
  BY <1>1, <1>b, Zenon DEF Activate, StateUpdate, FlagsOK
<1>2. ASSUME NEW enabled \in BOOLEAN, SetEnable(enabled)
      PROVE  Goal
  BY <1>2 DEF SetEnable, StateUpdate, MayEnable
<1>3. ASSUME NEW t \in Type \cup {NoType}, SetType(t)
      PROVE  Goal
  BY <1>3 DEF SetType, MayChange
<1>4. ASSUME NEW n \in ClientNames, SetName(n)
      PROVE  Goal
  BY <1>4 DEF SetName
<1>5. ASSUME NEW n \in Name, SetDisplay(n)
      PROVE  Goal
  BY <1>5 DEF SetDisplay
<1>6. CASE StartFails \/ Open
  BY <1>6 DEF StartFails, Open
<1>7. CASE FastTimer
  BY <1>7 DEF FastTimer
<1>8. CASE ReadName \/ WriteProperty
  <2>1. pc \in {"name", "property"} /\ UNCHANGED <<strip, client, notified, endpoint, playing, audio>>
    BY <1>8, Zenon DEF ReadName, WriteProperty
  <2>2. pc' \in {"property", AfterName}
    BY <1>8 DEF ReadName, WriteProperty
  <2>3. UNCHANGED <<enableAudio, enable, type>>
    BY <2>1, Zenon
  <2> QED
    BY <2>1, <2>2, <2>3 DEF AfterName
<1>9. CASE ActivateClient
  BY <1>9 DEF ActivateClient
<1>10. CASE Close \/ StopEndpoint
  BY <1>10 DEF Close, StopEndpoint
<1>11. CASE AudioEnter \/ AudioLeave
  BY <1>11 DEF AudioEnter, AudioLeave
<1>12. ASSUME NEW n \in Name \cup {Foreign}, OtherSetsProperty(n)
       PROVE  Goal
  BY <1>12 DEF OtherSetsProperty
<1>13. CASE OtherDeletesProperty \/ JackRead \/ JackAssign
  <2>1. UNCHANGED <<strip, client, notified, endpoint, playing, pc, audio>>
    BY <1>13, Zenon DEF OtherDeletesProperty, JackRead, JackAssign
  <2> QED
    BY <2>1
<1>14. CASE UNCHANGED vars
  BY <1>14 DEF vars
<1> QED
  BY <1>1, <1>2, <1>3, <1>4, <1>5, <1>6, <1>7, <1>8, <1>9, <1>10, <1>11, <1>12, <1>13, <1>14
  DEF Next

\* Whatever users, JACK's threads and other programs do, in any order, the state
\* of the client says where the main thread is and what it has left to do.
THEOREM Inductive == Spec => []IInv
<1>1. IInv /\ [Next]_vars => IInv'
  <2> SUFFICES ASSUME IInv, [Next]_vars
               PROVE  IInv'
    OBVIOUS
  <2>1. TypeOK
    BY DEF IInv
  <2>2. TypeOK'
    BY <2>1, FlagsStep, StripStep, NamesStep, TypeParts, PTL
  <2> QED
    BY <2>2, ClientStep DEF IInv
<1> QED
  BY InitIInv, <1>1, PTL DEF Spec

\* The values stay in their types.
THEOREM TypeCorrect == Spec => []TypeOK
<1>1. IInv => TypeOK
  BY DEF IInv
<1> QED
  BY <1>1, Inductive, PTL

\* ChannelStrip::processSamples never runs without the endpoint of the strip's
\* type, started: updateType() and stop() do not take it away from the audio thread.
THEOREM EndpointKept == Spec => []AudioHasEndpoint
<1>1. IInv => AudioHasEndpoint
  BY DEF IInv, ClientInv, AudioHasEndpoint
<1> QED
  BY <1>1, Inductive, PTL

\* A disabled strip has no client in JACK once updateEnabledState() is through.
THEOREM EnabledOnly == Spec => []ClientOnlyIfEnabled
<1>1. IInv => ClientOnlyIfEnabled
  BY DEF IInv
<1> QED
  BY <1>1, Inductive, PTL

(***************************************************************************)
(* The two names.                                                          *)
(***************************************************************************)

\* An operation that reports no change leaves the value, which is the one asked for.
LEMMA DisplayValues ==
  ASSUME NEW d \in DisplayName!OscVar, NEW n \in Name
  PROVE  /\ DisplayName!Set(d, n, TRUE, FALSE).var.value = n
         /\ ~DisplayName!Set(d, n, TRUE, FALSE).changed => d.value = n
         /\ DisplayName!SetFromOsc(d, n, TRUE).var.value = n
         /\ ~DisplayName!SetFromOsc(d, n, TRUE).changed => d.value = n
         /\ DisplayName!ForceDefault(d, n, TRUE).var.value = n
         /\ ~DisplayName!ForceDefault(d, n, TRUE).changed => d.value = n
BY DEF DisplayName!OscVar, DisplayName!Set, DisplayName!SetFromOsc, DisplayName!ForceDefault,
       DisplayName!Outcome

\* What the notification thread may be about to assign can be told apart.
LEMMA JackKinds ==
  /\ Reset # Idle
  /\ \A n : Assign(n) # Idle /\ Assign(n) # Reset /\ Assign(n).name = n
BY DEF Idle, Reset, Assign

\* The newest change is the one appended last, and taking the oldest leaves it.
LEMMA NewestFacts ==
  ASSUME NamesOK
  PROVE  /\ \A c \in {"changed", "deleted"} :
               changes' = Append(changes, c) =>
                  changes' # <<>> /\ \A d : NewestChange(d)' <=> d = c
         /\ changes # <<>> /\ changes' = Tail(changes) =>
               IF changes' = <<>> THEN NewestChange(Head(changes))
               ELSE \A d : NewestChange(d)' <=> NewestChange(d)
         /\ changes' = changes => \A d : NewestChange(d)' <=> NewestChange(d)
<1> USE DEF NamesOK, NewestChange
<1> DEFINE Change == {"changed", "deleted"}
<1>1. ASSUME NEW c \in Change, changes' = Append(changes, c)
      PROVE  changes' # <<>> /\ \A d : NewestChange(d)' <=> d = c
  BY <1>1, AppendProperties
<1>2. ASSUME changes # <<>>, changes' = Tail(changes)
      PROVE  IF changes' = <<>> THEN NewestChange(Head(changes))
             ELSE \A d : NewestChange(d)' <=> NewestChange(d)
  <2>1. Len(changes) \in Nat \ {0} /\ Len(changes') = Len(changes) - 1 /\ changes' \in Seq(Change)
    BY <1>2, EmptySeq, HeadTailProperties
  <2>2. CASE changes' = <<>>
    <3>1. Len(changes) = 1
      BY <2>1, <2>2, EmptySeq
    <3>2. Head(changes) = changes[1]
      OBVIOUS
    <3> QED
      BY <1>2, <2>2, <3>1, <3>2
  <2>3. CASE changes' # <<>>
    <3>1. Len(changes') \in Nat \ {0}
      BY <2>1, <2>3, EmptySeq
    <3>2. changes'[Len(changes')] = changes[Len(changes)]
      BY <1>2, <2>1, <3>1, HeadTailProperties
    <3> QED
      BY <1>2, <2>3, <3>2
  <2> QED
    BY <2>2, <2>3
<1> QED
  BY <1>1, <1>2, Zenon
\* Steps that touch neither the names nor the client keep what is said of them.
LEMMA NamesFrame ==
  ASSUME NamesInv, UNCHANGED <<names, name, client, uuid, notified>>,
         pc' = pc \/ (~Updating /\ pc' # "property")
                  \/ (pc' = "name")
  PROVE  NamesInv'
<1>1. UNCHANGED <<display, requested, writing, prop, changes, jack, name, client, uuid, notified>>
  BY DEF names
<1> QED
  BY <1>1 DEF NamesInv, NewestChange, Updating, ShownName

\* Whoever changes one of the names, while a notification is under way or not,
\* leaves somebody who will make the other follow.
LEMMA NamesInvStep ==
  ASSUME EmptyName \notin ClientNames, IInv, NamesInv, [Next]_vars
  PROVE  NamesInv'
<1>t. NamesOK /\ StripOK
  BY TypeParts DEF IInv
<1>d. display \in DisplayName!OscVar /\ name \in Name
  BY <1>t DEF NamesOK, StripOK
<1>p. NoName \notin Name /\ Foreign \notin Name
  BY ChannelStripAssumption
<1>1. CASE Activate
  <2>1. pc' # "property" /\ pc' # "name" /\ pc = "idle"
    BY <1>1 DEF Activate, StateUpdate
  <2>2. UNCHANGED <<names, name, client, uuid, notified>>
    BY <1>1, Zenon DEF Activate
  <2> QED
    BY <2>1, <2>2, NamesFrame DEF Updating
<1>2. ASSUME NEW enabled \in BOOLEAN, SetEnable(enabled)
      PROVE  NamesInv'
  <2>1. pc' # "property" /\ pc' # "name" /\ pc = "idle"
    BY <1>2 DEF SetEnable, StateUpdate
  <2>2. UNCHANGED <<names, name, client, uuid, notified>>
    BY <1>2, Zenon DEF SetEnable
  <2> QED
    BY <2>1, <2>2, NamesFrame DEF Updating
<1>3. ASSUME NEW t \in Type \cup {NoType}, SetType(t)
      PROVE  NamesInv'
  BY <1>3, NamesFrame DEF SetType
<1>4. ASSUME NEW n \in ClientNames, SetName(n)
      PROVE  NamesInv'
  \* Only while there is no client.
  BY <1>4 DEF SetName, MayChange, NamesInv, names
<1>5. ASSUME NEW n \in Name, SetDisplay(n)
      PROVE  NamesInv'
  <2> DEFINE r == DisplayName!SetFromOsc(display, n, TRUE)
  <2>1. r.var.value = n /\ (~r.changed => display.value = n)
    BY <1>d, DisplayValues
  <2>2. /\ display' = r.var /\ requested' = (requested \/ r.changed)
        /\ UNCHANGED <<name, writing, prop, changes, jack, client, uuid, notified, pc>>
    BY <1>5, Zenon DEF SetDisplay, strip
  <2>3. requested' \/ (~requested /\ display'.value = display.value)
    <3> HIDE DEF r
    <3> QED
      BY <2>1, <2>2, Zenon
  <2> QED
    BY <2>2, <2>3 DEF NamesInv, NewestChange, Updating, ShownName
<1>6. CASE StartFails
  BY <1>6, NamesFrame DEF StartFails, strip, Updating
<1>7. CASE Open
  <2>1. jack = Idle /\ ~notified
    BY <1>7 DEF Open, IInv, HandlerInv, ClientInv, NamesInv
  <2>2. /\ changes' = <<>> /\ pc' = "name" /\ prop' = NoName
        /\ UNCHANGED <<name, jack, notified>>
    BY <1>7, Zenon DEF Open, strip
  <2> QED
    BY <2>1, <2>2 DEF NamesInv, NewestChange, Updating
<1>8. CASE FastTimer
  <2>1. /\ pc' = "name"
        /\ UNCHANGED <<name, display, writing, prop, changes, jack, client, uuid, notified>>
    BY <1>8, Zenon DEF FastTimer, strip
  <2> QED
    BY <2>1 DEF NamesInv, NewestChange, Updating
<1>9. CASE ReadName
  <2>1. UNCHANGED <<name, prop, changes, jack, client, uuid, notified>> /\ pc = "name"
    BY <1>9, Zenon DEF ReadName, strip
  <2>2. CASE uuid /\ display.value # EmptyName
    <3>1. writing' = display.value /\ pc' = "property" /\ UNCHANGED <<display, requested>>
      BY <1>9, <2>2, Zenon DEF ReadName
    <3> QED
      BY <2>1, <3>1 DEF NamesInv, NewestChange, Updating
  <2>3. CASE ~(uuid /\ display.value # EmptyName)
    <3> DEFINE r == DisplayName!ForceDefault(display, name, TRUE)
    <3>1. r.changed \/ display.value = name
      BY <1>d, DisplayValues
    <3>2. uuid => requested' = (requested \/ r.changed)
      BY <1>9, <2>3, Zenon DEF ReadName
    <3>3. uuid => requested'
      <4>1. display.value = name => display.value # EmptyName
        BY DEF NamesInv
      <4> HIDE DEF r
      <4> QED
        BY <2>3, <3>1, <3>2, <4>1, Zenon
    <3>4. pc' # "property"
      BY <1>9, <2>3 DEF ReadName, AfterName
    <3> QED
      BY <2>1, <3>3, <3>4 DEF NamesInv, NewestChange, Updating
  <2> QED
    BY <2>2, <2>3
<1>10. CASE WriteProperty
  <2>1. /\ prop' = writing /\ pc = "property"
        /\ UNCHANGED <<name, display, requested, writing, jack, client, uuid, notified>>
    BY <1>10, Zenon DEF WriteProperty, strip
  <2>2. pc' # "property" /\ pc' # "name"
    BY <1>10 DEF WriteProperty, AfterName
  <2>3. writing \in Name /\ writing # NoName
    BY <1>t, <1>p DEF NamesOK
  <2>4. CASE changes' = Append(changes, "changed")
    <3>1. changes' # <<>> /\ ~NewestChange("deleted")'
      BY <1>t, <2>4, NewestFacts
    <3> QED
      BY <2>1, <2>2, <2>3, <3>1 DEF NamesInv, Updating
  <2>5. CASE ~notified /\ UNCHANGED changes
    <3>1. client # "closed" /\ uuid => requested \/ writing = display.value
      BY <2>1 DEF NamesInv
    <3>2. jack = Idle
      BY <2>5 DEF NamesInv
    <3> QED
      BY <2>1, <2>2, <2>3, <2>5, <3>1, <3>2 DEF NamesInv, NewestChange, Updating, ShownName
  <2> QED
    BY <1>10, <2>4, <2>5 DEF WriteProperty
<1>11. CASE ActivateClient
  <2>1. /\ notified' /\ pc = "activate" /\ pc' = "idle" /\ client # "closed"
        /\ UNCHANGED <<name, display, requested, writing, prop, changes, jack, uuid>>
    BY <1>11, Zenon DEF ActivateClient, strip, names, IInv, HandlerInv
  <2> QED
    BY <2>1 DEF NamesInv, NewestChange, Updating, ShownName
<1>12. CASE Close
  <2>1. client' = "closed" /\ jack' = Idle /\ name' = name
    BY <1>12, Zenon DEF Close, strip
  <2> QED
    BY <2>1 DEF NamesInv
<1>13. CASE StopEndpoint
  BY <1>13, NamesFrame DEF StopEndpoint, strip, Updating
<1>14. CASE AudioEnter \/ AudioLeave
  BY <1>14, NamesFrame DEF AudioEnter, AudioLeave, strip
<1>15. ASSUME NEW n \in Name \cup {Foreign}, OtherSetsProperty(n)
       PROVE  NamesInv'
  <2>1. /\ prop' = n /\ changes' = Append(changes, "changed")
        /\ UNCHANGED <<name, display, requested, writing, jack, client, uuid, notified, pc>>
    BY <1>15, Zenon DEF OtherSetsProperty, strip
  <2>2. changes' # <<>> /\ ~NewestChange("deleted")'
    BY <1>t, <2>1, NewestFacts
  <2>3. n # NoName
    BY ChannelStripAssumption, <1>p
  <2> QED
    BY <2>1, <2>2, <2>3 DEF NamesInv, Updating
<1>16. CASE OtherDeletesProperty
  <2>1. /\ prop' = NoName /\ changes' = Append(changes, "deleted")
        /\ UNCHANGED <<name, display, requested, writing, jack, client, uuid, notified, pc>>
    BY <1>16, Zenon DEF OtherDeletesProperty, strip
  <2>2. changes' # <<>> /\ ~NewestChange("changed")'
    BY <1>t, <2>1, NewestFacts
  <2> QED
    BY <2>1, <2>2 DEF NamesInv, Updating
<1>17. CASE JackRead
  <2>1. /\ client # "closed" /\ notified /\ jack = Idle /\ changes # <<>> /\ changes' = Tail(changes)
        /\ UNCHANGED <<name, display, writing, prop, client, uuid, notified, pc>>
    BY <1>17, Zenon DEF JackRead, strip
  <2>2. jack' = IF ~uuid THEN Idle
                ELSE IF Head(changes) = "deleted" THEN Reset
                ELSE IF prop \in Name THEN Assign(prop)
                ELSE Idle
    BY <1>17 DEF JackRead
  <2>3. requested' = (requested \/ (uuid /\ Head(changes) = "changed" /\ prop = Foreign))
    BY <1>17, Zenon DEF JackRead
  <2>4. Head(changes) \in {"changed", "deleted"} /\ prop \in Name \cup {NoName, Foreign}
    BY <1>t, <2>1, HeadTailProperties DEF NamesOK
  <2>5. CASE ~uuid
    BY <2>1, <2>2, <2>5 DEF NamesInv
  <2>6. CASE uuid /\ changes' = <<>>
    \* The newest change is read: it tells what the property is.
    <3>1. NewestChange(Head(changes)) /\ \A d : ~NewestChange(d)'
      BY <1>t, <2>1, <2>6, NewestFacts DEF NewestChange
    <3>2. CASE Head(changes) = "deleted"
      <4>1. prop = NoName \/ prop = display.value \/ requested \/ Updating
        BY <2>1, <2>6, <3>1, <3>2 DEF NamesInv
      <4>2. requested => requested'
        BY <2>3
      <4>3. jack' = Reset
        BY <2>2, <2>6, <3>2
      <4> QED
        BY <2>1, <2>6, <3>1, <4>1, <4>2, <4>3, JackKinds DEF NamesInv, Updating
    <3>3. CASE Head(changes) = "changed" /\ prop \in Name
      <4>1. jack' = Assign(prop)
        BY <2>2, <2>6, <3>3
      <4>2. jack'.name = prop /\ jack' # Idle /\ jack' # Reset
        BY <4>1, JackKinds
      <4>3. requested => requested'
        BY <2>3
      <4> QED
        BY <2>1, <2>6, <3>1, <4>2, <4>3 DEF NamesInv, Updating
    <3>4. CASE Head(changes) = "changed" /\ prop \notin Name
      <4>1. prop = Foreign
        BY <2>1, <2>4, <2>6, <3>1, <3>4 DEF NamesInv
      <4>2. requested'
        BY <2>3, <2>6, <3>4, <4>1
      <4>3. jack' = Idle
        BY <2>2, <2>6, <3>4
      <4> QED
        BY <2>1, <2>6, <3>1, <4>2, <4>3 DEF NamesInv, Updating
    <3> QED
      BY <2>4, <3>2, <3>3, <3>4
  <2>7. CASE uuid /\ changes' # <<>>
    <3>1. \A d : NewestChange(d)' <=> NewestChange(d)
      BY <1>t, <2>1, <2>7, NewestFacts
    <3>2. requested => requested'
      BY <2>3
    <3> QED
      BY <2>1, <2>7, <3>1, <3>2 DEF NamesInv, Updating
  <2> QED
    BY <2>5, <2>6, <2>7
<1>18. CASE JackAssign
  <2> DEFINE r == IF jack = Reset THEN DisplayName!ForceDefault(display, name, TRUE)
                  ELSE DisplayName!Set(display, jack.name, TRUE, FALSE)
             n == IF jack = Reset THEN name ELSE jack.name
  <2>1. /\ jack # Idle /\ jack' = Idle
        /\ display' = r.var /\ requested' = (requested \/ r.changed)
        /\ UNCHANGED <<name, writing, prop, changes, client, uuid, notified, pc>>
    BY <1>18, Zenon DEF JackAssign, strip
  <2>2. n \in Name
    BY <1>t, <1>d, <2>1, JackFacts
  <2>3. r.var.value = n /\ (~r.changed => display.value = n)
    BY <1>d, <2>2, DisplayValues
  <2>4. display'.value = n /\ (requested' \/ (~requested /\ display'.value = display.value))
    <3> HIDE DEF r, n
    <3> QED
      BY <2>1, <2>3, Zenon
  <2>5. \A d : NewestChange(d)' <=> NewestChange(d)
    BY <1>t, <2>1, NewestFacts
  <2>6. ASSUME client # "closed", uuid, changes = <<>>, ~Updating
        PROVE  ShownName' = display'.value \/ requested'
    <3>1. CASE jack = Reset
      <4>1. prop = NoName \/ prop = display.value \/ requested
        BY <2>6, <3>1 DEF NamesInv
      <4>2. prop = NoName => ShownName' = name
        BY <2>1 DEF ShownName
      <4>3. prop # NoName => ShownName' = prop
        BY <2>1 DEF ShownName
      <4> QED
        BY <2>1, <2>4, <3>1, <4>1, <4>2, <4>3
    <3>2. CASE jack # Reset
      <4>1. prop = jack.name /\ n = jack.name
        BY <2>1, <2>6, <3>2 DEF NamesInv
      <4>2. ShownName' = prop
        BY <1>p, <2>1, <2>2, <4>1 DEF ShownName
      <4> QED
        BY <2>4, <4>1, <4>2
    <3> QED
      BY <3>1, <3>2
  <2>7. notified
    BY <2>1 DEF NamesInv
  <2> HIDE DEF r, n
  <2> QED
    BY <2>1, <2>4, <2>5, <2>6, <2>7, JackKinds DEF NamesInv, Updating
<1>19. CASE UNCHANGED vars
  BY <1>19, NamesFrame DEF vars, strip
<1> QED
  BY <1>1, <1>2, <1>3, <1>4, <1>5, <1>6, <1>7, <1>8, <1>9, <1>10, <1>11, <1>12, <1>13, <1>14,
     <1>15, <1>16, <1>17, <1>18, <1>19
  DEF Next

\* Users who give the client a name find the same name in JACK and in DAMC once
\* both threads have done their work: updateJackDisplayName() and
\* onJackPropertyChangeCallback() overtake each other without losing a name.
THEOREM SameNameShown ==
  ASSUME EmptyName \notin ClientNames
  PROVE  Spec => []NamesAgree
<1>1. Init => NamesInv
  BY DEF Init, NamesInv
<1>2. IInv /\ NamesInv /\ [Next]_vars => NamesInv'
  BY NamesInvStep
<1>3. NamesInv => NamesAgree
  BY DEF NamesInv, NamesAgree, NamesQuiet, Updating
<1> QED
  BY <1>1, <1>2, <1>3, Inductive, PTL DEF Spec
=============================================================================
