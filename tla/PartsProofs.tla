----------------------------- MODULE PartsProofs -----------------------------
(***************************************************************************)
(* Proofs about parts of MCParts, SampleRateMeasure, for every set of      *)
(* callback sizes and every bound of the clock, Hotkeys, for any keys and  *)
(* any finite set of addresses, and DelayControl, for any number of        *)
(* speakers and any latencies; and about a part of MCGui, StripWindow, for *)
(* every number of edits and of connections that end.                      *)
(***************************************************************************)
EXTENDS SampleRateMeasure, Hotkeys, PartsInstances, GuiInstances, SequenceTheorems, FiniteSetTheorems,
        WellFoundedInduction, TLAPS

(***************************************************************************)
(* The sample rate measure.                                                *)
(***************************************************************************)

\* The invariant holds at the start.
LEMMA InitIInv == Init => IInv
  BY FramesAssumption, MaxTimeAssumption
  DEF Init, IInv, TypeOK, TimingInfo, NoSample, PointerInOnePlace, AudioHolds, TimerHolds,
      DataInv, Whole, AllLostSince, Before, CopyInv

\* The handover by exchange keeps the pointer in one place, whatever the values.
LEMMA PointerStep ==
  ASSUME TypeOK, PointerInOnePlace, [Next]_vars
  PROVE  PointerInOnePlace'
  BY DEF TypeOK, PointerInOnePlace, AudioHolds, TimerHolds, Next, AudioNext, TimerNext, vars,
         AudioSkip, AudioTake, AudioCount, AudioStamp, AudioRelease,
         TimerTake, TimerCopy, TimerReset, TimerRelease, TimerReport

\* Every step of the measure keeps the types.
LEMMA TypeStep ==
  ASSUME TypeOK, [Next]_vars
  PROVE  TypeOK'
<1>1. ASSUME NEW n \in Frames, AudioSkip(n) \/ AudioTake(n)
      PROVE  TypeOK'
  <2>1. n \in Nat
    BY FramesAssumption
  <2>2. CASE AudioSkip(n)
    BY <2>1, <2>2 DEF TypeOK, AudioSkip
  <2>3. CASE AudioTake(n)
    <3>1. prev' \in Nat /\ nframes' \in Nat
      BY <2>1, <2>3 DEF TypeOK, AudioTake
    <3> QED
      BY <2>3, <3>1, Zenon DEF TypeOK, AudioTake
  <2> QED
    BY <1>1, <2>2, <2>3
<1>2. CASE AudioCount
  BY <1>2 DEF TypeOK, AudioCount, TimingInfo
<1>3. CASE AudioStamp
  BY <1>3 DEF TypeOK, AudioStamp, TimingInfo
<1>4. CASE AudioRelease
  BY <1>4 DEF TypeOK, AudioRelease
<1>5. CASE TimerTake \/ TimerRelease \/ TimerReport
  BY <1>5 DEF TypeOK, TimerTake, TimerRelease, TimerReport
<1>6. CASE TimerCopy
  BY <1>6 DEF TypeOK, TimerCopy
<1>7. CASE TimerReset
  BY <1>7 DEF TypeOK, TimerReset, TimingInfo, NoSample
<1>8. CASE UNCHANGED vars
  BY <1>8 DEF TypeOK, vars
<1> QED
  BY <1>1, <1>2, <1>3, <1>4, <1>5, <1>6, <1>7, <1>8 DEF Next, AudioNext, TimerNext

\* A step of the audio thread keeps the account of the frames.
LEMMA AudioStep ==
  ASSUME IInv, AudioNext
  PROVE  DataInv' /\ CopyInv'
<1> USE DEF IInv, TypeOK, TimingInfo, PointerInOnePlace, AudioHolds, TimerHolds,
            DataInv, Whole, AllLostSince, Before, CopyInv
<1>1. ASSUME NEW n \in Frames, AudioSkip(n)
      PROVE  DataInv' /\ CopyInv'
  BY <1>1, FramesAssumption DEF AudioSkip
<1>2. ASSUME NEW n \in Frames, AudioTake(n)
      PROVE  DataInv' /\ CopyInv'
  BY <1>2, FramesAssumption DEF AudioTake
<1>3. CASE AudioCount
  BY <1>3 DEF AudioCount
<1>4. CASE AudioStamp
  BY <1>4 DEF AudioStamp
<1>5. CASE AudioRelease
  BY <1>5 DEF AudioRelease
<1> QED
  BY <1>1, <1>2, <1>3, <1>4, <1>5 DEF AudioNext

\* A step of the main thread keeps the account of the frames.
LEMMA TimerStep ==
  ASSUME IInv, TimerNext
  PROVE  DataInv' /\ CopyInv'
<1> USE DEF IInv, TypeOK, TimingInfo, PointerInOnePlace, AudioHolds, TimerHolds,
            DataInv, Whole, AllLostSince, Before, CopyInv
<1>1. CASE TimerTake
  BY <1>1 DEF TimerTake
<1>2. CASE TimerCopy
  BY <1>2 DEF TimerCopy
<1>3. CASE TimerReset
  BY <1>3 DEF TimerReset, NoSample
<1>4. CASE TimerRelease
  BY <1>4 DEF TimerRelease
<1>5. CASE TimerReport
  BY <1>5 DEF TimerReport
<1> QED
  BY <1>1, <1>2, <1>3, <1>4, <1>5 DEF TimerNext

\* Every step keeps the inductive invariant.
LEMMA Step == IInv /\ [Next]_vars => IInv'
<1> SUFFICES ASSUME IInv, [Next]_vars
             PROVE  IInv'
  OBVIOUS
<1>1. TypeOK' /\ PointerInOnePlace'
  BY TypeStep, PointerStep DEF IInv
<1>2. DataInv' /\ CopyInv'
  <2>1. CASE AudioNext
    BY <2>1, AudioStep
  <2>2. CASE TimerNext
    BY <2>2, TimerStep
  <2>3. CASE UNCHANGED vars
    BY <2>3 DEF IInv, vars, DataInv, Whole, AllLostSince, Before, CopyInv, AudioHolds
  <2> QED
    BY <2>1, <2>2, <2>3 DEF Next
<1> QED
  BY <1>1, <1>2 DEF IInv

\* The account of the frames is right at every moment, in the middle of both
\* functions included: SampleRateMeasure.cpp loses and counts twice nothing.
THEOREM Inductive == Spec => []IInv
  BY InitIInv, Step, PTL DEF Spec

\* The values stay in their types, however long the program runs.
THEOREM TypeCorrect == Spec => []TypeOK
<1>1. IInv => TypeOK
  BY DEF IInv
<1> QED
  BY <1>1, Inductive, PTL

\* runningData.exchange makes the two threads exclude each other, and gives the
\* pointer back.
THEOREM MutualExclusion == Spec => []PointerInOnePlace
<1>1. IInv => PointerInOnePlace
  BY DEF IInv
<1> QED
  BY <1>1, Inductive, PTL

\* Every rate that is sent is the number of frames of the time it is divided by,
\* less those of callbacks that met the main thread.
THEOREM Exactness == Spec => []ReportExact
<1>1. IInv => ReportExact
  BY DEF IInv, CopyInv, ReportExact
<1> QED
  BY <1>1, Inductive, PTL

(***************************************************************************)
(* The refinement of AtomicMeasure.                                        *)
(***************************************************************************)

\* Each step of the audio thread is one of the atomic measure or changes nothing
\* it can see.
LEMMA AudioRefines ==
  ASSUME IInv, AudioNext
  PROVE  \/ \E n \in Frames : Atomic!Add(n) \/ Atomic!LeaveOut(n)
         \/ UNCHANGED <<Before, Measure, copy>>
<1> USE DEF IInv, TypeOK, TimingInfo, PointerInOnePlace, AudioHolds, TimerHolds,
            Before, Measure
<1>1. ASSUME NEW n \in Frames, AudioSkip(n)
      PROVE  Atomic!LeaveOut(n)
  BY <1>1, FramesAssumption DEF AudioSkip, Atomic!LeaveOut
<1>2. ASSUME NEW n \in Frames, AudioTake(n)
      PROVE  UNCHANGED <<Before, Measure, copy>>
  BY <1>2, FramesAssumption DEF AudioTake
<1>3. CASE AudioCount
  <2>1. nframes \in Frames /\ nframes \in Nat
    BY <1>3 DEF AudioCount, DataInv
  <2>2. Before' = Before + nframes
    BY <1>3, <2>1 DEF AudioCount
  <2>3. Measure = data /\ Measure' = [data' EXCEPT !.lastSampleTime = prev]
    BY <1>3 DEF AudioCount
  <2>4. Before' = prev
    BY <1>3 DEF AudioCount
  <2>5. Atomic!Add(nframes)
    BY <1>3, <2>2, <2>3, <2>4 DEF AudioCount, Atomic!Add
  <2> QED
    BY <2>1, <2>5
<1>4. CASE AudioStamp \/ AudioRelease
  BY <1>4 DEF AudioStamp, AudioRelease
<1> QED
  BY <1>1, <1>2, <1>3, <1>4 DEF AudioNext

\* And so is each step of the main thread.
LEMMA TimerRefines ==
  ASSUME IInv, TimerNext
  PROVE  Atomic!Take \/ UNCHANGED <<Before, Measure, copy>>
<1> USE DEF IInv, TypeOK, TimingInfo, PointerInOnePlace, AudioHolds, TimerHolds, CopyInv,
            Before, Measure
<1>1. CASE TimerTake \/ TimerRelease \/ TimerReport
  BY <1>1 DEF TimerTake, TimerRelease, TimerReport
<1>2. CASE TimerCopy
  BY <1>2 DEF TimerCopy, NoSample, Atomic!Take, Atomic!NoMeasure
<1>3. CASE TimerReset
  BY <1>3 DEF TimerReset
<1> QED
  BY <1>1, <1>2, <1>3 DEF TimerNext

\* notifySampleProcessed() and onTimeoutTimer(), whose steps interleave, implement
\* a measure to which callbacks are added, and which is taken, at once.
THEOREM Refinement == Spec => ImplementsAtomic
<1>1. Init => Atomic!Init
  BY DEF Init, Atomic!Init, Before, Measure, NoSample, Atomic!NoMeasure
<1>2. IInv /\ [Next]_vars => [Atomic!Next]_<<Before, Measure, copy>>
  <2> SUFFICES ASSUME IInv, [Next]_vars
               PROVE  Atomic!Next \/ UNCHANGED <<Before, Measure, copy>>
    OBVIOUS
  <2>1. CASE AudioNext
    BY <2>1, AudioRefines DEF Atomic!Next
  <2>2. CASE TimerNext
    BY <2>2, TimerRefines DEF Atomic!Next
  <2>3. CASE UNCHANGED vars
    BY <2>3 DEF vars, Before, Measure
  <2> QED
    BY <2>1, <2>2, <2>3 DEF Next
<1> QED
  BY <1>1, <1>2, Inductive, PTL DEF Spec, ImplementsAtomic, Atomic!Spec

(***************************************************************************)
(* The hotkeys.                                                            *)
(***************************************************************************)

\* What the two threads hold, and where the addresses handed over are.
HotkeyInv ==
    /\ pending \in Seq(Address) /\ todo \in Seq(Address)
    /\ handed \in Seq(Address) /\ triggered \in Seq(Address)
    /\ \A k \in DOMAIN registered : registered[k] \subseteq Address
    /\ queue \in Seq(Message)
    /\ NoneForgotten

\* A finite set of addresses is a sequence of addresses.
LEMMA AddressesInOrder ==
    ASSUME IsFiniteSet(Address), NEW A \in SUBSET Address
    PROVE  SetToSeq(A) \in Seq(Address)
<1>1. IsFiniteSet(A)
  BY FS_Subset
<1>2. Cardinality(A) \in Nat /\ ExistsBijection(1..Cardinality(A), A)
  BY <1>1, FS_CardinalityType
<1>3. \E f \in [1..Cardinality(A) -> A] : IsInjective(f)
  BY <1>2 DEF ExistsBijection, Bijection, Injection, IsInjective
<1>4. SetToSeq(A) \in [1..Cardinality(A) -> A]
  BY <1>3 DEF SetToSeq
<1>5. SetToSeq(A) \in Seq(A)
  BY <1>2, <1>4, SeqDef
<1> QED
  BY <1>5, SeqMonotonic

\* What is handed over is appended to what waits, with a wake-up.
LEMMA HandOverInv ==
    ASSUME IsFiniteSet(Address), HotkeyInv, NEW k, HandOver(k), UNCHANGED <<todo, triggered>>
    PROVE  /\ pending' \in Seq(Address) /\ handed' \in Seq(Address)
           /\ NoneForgotten'
<1> DEFINE addresses == SetToSeq(AddressesOf(k))
<1>1. /\ pending' = pending \o addresses /\ handed' = handed \o addresses /\ signalled' = TRUE
  BY DEF HandOver
<1>2. AddressesOf(k) \subseteq Address
  BY DEF HotkeyInv, AddressesOf
<1>3. addresses \in Seq(Address)
  BY <1>2, AddressesInOrder
<1>4. /\ pending \in Seq(Address) /\ handed \in Seq(Address)
      /\ triggered \in Seq(Address) /\ todo \in Seq(Address) /\ triggered \o todo \in Seq(Address)
  BY ConcatProperties DEF HotkeyInv
<1>5. pending' \in Seq(Address) /\ handed' \in Seq(Address)
  BY <1>1, <1>3, <1>4, ConcatProperties
<1>6. ((triggered \o todo) \o pending) \o addresses = (triggered \o todo) \o (pending \o addresses)
  <2> DEFINE front == triggered \o todo
  <2>1. front \in Seq(Address) /\ pending \in Seq(Address) /\ addresses \in Seq(Address)
    BY <1>3, <1>4
  <2> HIDE DEF addresses, front
  <2>2. (front \o pending) \o addresses = front \o (pending \o addresses)
    BY <2>1, ConcatAssociative
  <2> QED
    BY <2>2 DEF front
<1>7. triggered \o todo \o pending = handed
  BY DEF HotkeyInv, NoneForgotten
<1>8. triggered \o todo \o (pending \o addresses) = handed \o addresses
  BY <1>6, <1>7
<1> QED
  BY <1>1, <1>5, <1>8 DEF NoneForgotten

\* The callback takes all that waits, when it holds nothing.
LEMMA OnOscTriggeredInv ==
    ASSUME HotkeyInv, OnOscTriggered
    PROVE  HotkeyInv'
<1>1. /\ todo = <<>> /\ todo' = pending /\ pending' = <<>>
      /\ UNCHANGED <<queue, registered, handed, triggered>>
  BY DEF OnOscTriggered
<1>2. triggered \o pending \in Seq(Address)
  BY ConcatProperties DEF HotkeyInv
<1>3. triggered \o <<>> = triggered /\ (triggered \o pending) \o <<>> = triggered \o pending
  BY <1>2, ConcatEmptySeq DEF HotkeyInv
<1>4. triggered \o todo \o pending = handed
  BY DEF HotkeyInv, NoneForgotten
<1>5. triggered' \o todo' \o pending' = handed'
  BY <1>1, <1>3, <1>4
<1>6. NoneForgotten'
  BY <1>1, <1>5 DEF NoneForgotten
<1>7. pending' \in Seq(Address) /\ todo' \in Seq(Address)
  BY <1>1, EmptySeq DEF HotkeyInv
<1> QED
  BY <1>1, <1>6, <1>7 DEF HotkeyInv

\* One address that the callback holds is triggered.
LEMMA TriggerAddressInv ==
    ASSUME HotkeyInv, TriggerAddress
    PROVE  HotkeyInv'
<1> DEFINE a == Head(todo)
<1>1. /\ todo # <<>> /\ triggered' = Append(triggered, a) /\ todo' = Tail(todo)
      /\ UNCHANGED <<queue, registered, pending, signalled, handed>>
  BY DEF TriggerAddress
<1>2. todo \in Seq(Address) /\ triggered \in Seq(Address)
  BY DEF HotkeyInv
<1>3. a \in Address /\ Tail(todo) \in Seq(Address)
  BY <1>1, <1>2, HeadTailProperties
<1>4. <<a>> \in Seq(Address) /\ Append(triggered, a) = triggered \o <<a>>
      /\ Append(triggered, a) \in Seq(Address)
  BY <1>2, <1>3, AppendIsConcat, AppendProperties
<1>5. todo = <<a>> \o Tail(todo)
  BY <1>1, <1>2
<1>6. (triggered \o <<a>>) \o Tail(todo) = triggered \o todo
  BY <1>2, <1>3, <1>4, <1>5, ConcatAssociative
<1>7. NoneForgotten'
  BY <1>1, <1>4, <1>6 DEF HotkeyInv, NoneForgotten
<1> QED
  BY <1>1, <1>3, <1>4, <1>7 DEF HotkeyInv

\* Steps that leave the addresses on their way alone.
LEMMA QueueSteps ==
    ASSUME HotkeyInv, UNCHANGED <<registered, pending, signalled, todo, handed, triggered>>,
           queue' \in Seq(Message)
    PROVE  HotkeyInv'
  BY DEF HotkeyInv, NoneForgotten

\* Any message that is posted is a message.
LEMMA PostInv ==
    ASSUME HotkeyInv, NEW message \in Message, Post(message)
    PROVE  HotkeyInv'
<1>1. UNCHANGED <<registered, pending, signalled, todo, handed, triggered>>
  BY DEF Post
<1>2. queue' \in Seq(Message)
  BY AppendProperties DEF Post, HotkeyInv
<1> QED
  BY <1>1, <1>2, QueueSteps

\* Every step of the main loop, of the hotkey thread and of the user keeps the invariant.
LEMMA StepInv ==
    ASSUME IsFiniteSet(Address), HotkeyInv, [HotkeyNext]_hotkeyVars
    PROVE  HotkeyInv'
<1>1. queue # <<>> => Head(queue) \in Message /\ Tail(queue) \in Seq(Message)
  BY HeadTailProperties DEF HotkeyInv
<1>2. CASE ThreadStart
  BY <1>2, QueueSteps DEF ThreadStart, HotkeyInv
<1>3. CASE Destroy
  <2>1. [type |-> "quit"] \in Message
    BY DEF Message
  <2> QED
    BY <1>3, <2>1, PostInv DEF Destroy
<1>4. ASSUME NEW k \in Key, NEW a \in Address, OscAddShortcut(k, a) PROVE HotkeyInv'
  <2>1. [type |-> "add", key |-> k, address |-> a] \in Message
    BY DEF Message
  <2> QED
    BY <1>4, <2>1, PostInv DEF OscAddShortcut
<1>5. ASSUME NEW k \in Key, NEW a \in Address, OscRemoveShortcut(k, a) PROVE HotkeyInv'
  <2>1. [type |-> "remove", key |-> k, address |-> a] \in Message
    BY DEF Message
  <2> QED
    BY <1>5, <2>1, PostInv DEF OscRemoveShortcut
<1>6. ASSUME NEW k \in Key, Press(k) PROVE HotkeyInv'
  <2>1. [type |-> "hotkey", key |-> k] \in Message
    BY DEF Message
  <2>2. queue' \in Seq(Message)
    BY <1>6, <2>1, AppendProperties DEF Press, HotkeyInv
  <2> QED
    BY <1>6, <2>2, QueueSteps DEF Press
<1>7. CASE HandleHotkey
  <2>1. queue' \in Seq(Message) /\ UNCHANGED <<registered, todo, triggered>>
    BY <1>1, <1>7 DEF HandleHotkey, Take
  <2>2. CASE HandOver(Head(queue).key)
    BY <2>1, <2>2, HandOverInv DEF HotkeyInv
  <2>3. CASE UNCHANGED <<pending, handed, signalled>>
    BY <2>1, <2>3, QueueSteps
  <2> QED
    BY <1>7, <2>2, <2>3 DEF HandleHotkey
<1>8. CASE HandleAdd
  <2> DEFINE k == Head(queue).key
             a == Head(queue).address
  <2>1. /\ queue # <<>> /\ Head(queue).type = "add" /\ queue' \in Seq(Message)
        /\ UNCHANGED <<pending, signalled, todo, handed, triggered>>
        /\ registered' = [h \in DOMAIN registered \cup {k} |->
                            IF h = k THEN AddressesOf(k) \cup {a} ELSE registered[h]]
    BY <1>1, <1>8 DEF HandleAdd, Take
  <2>2. a \in Address
    BY <1>1, <2>1 DEF Message
  <2>3. AddressesOf(k) \subseteq Address /\ \A h \in DOMAIN registered : registered[h] \subseteq Address
    BY DEF HotkeyInv, AddressesOf
  <2>4. \A h \in DOMAIN registered' : registered'[h] \subseteq Address
    BY <2>1, <2>2, <2>3
  <2> QED
    BY <2>1, <2>4 DEF HotkeyInv, NoneForgotten
<1>9. CASE HandleRemove
  <2>1. UNCHANGED <<pending, signalled, todo, handed, triggered>> /\ queue' \in Seq(Message)
    BY <1>1, <1>9, EmptySeq DEF HandleRemove
  <2>2. \A h \in DOMAIN registered' : registered'[h] \subseteq Address
    BY <1>9 DEF HandleRemove, HotkeyInv, AddressesOf
  <2> QED
    BY <2>1, <2>2 DEF HotkeyInv, NoneForgotten
<1>10. CASE HandleQuit
  <2>1. /\ queue' \in Seq(Message) /\ registered' = <<>>
        /\ UNCHANGED <<pending, signalled, todo, handed, triggered>>
    BY <1>1, <1>10 DEF HandleQuit, Take
  <2> QED
    BY <2>1 DEF HotkeyInv, NoneForgotten
<1>11. CASE OnOscTriggered
  BY <1>11, OnOscTriggeredInv
<1>12. CASE TriggerAddress
  BY <1>12, TriggerAddressInv
<1>13. CASE UNCHANGED hotkeyVars
  BY <1>13 DEF hotkeyVars, HotkeyInv, NoneForgotten
<1> QED
  BY <1>2, <1>3, <1>4, <1>5, <1>6, <1>7, <1>8, <1>9, <1>10, <1>11, <1>12, <1>13 DEF HotkeyNext

\* Every address handed over is triggered, held by the callback or waiting with a wake-up
\* asked for, in the order of the presses, for any keys and addresses and any number of
\* presses (WM_HOTKEY against onOscTriggered).
THEOREM NoHotkeyForgotten ==
    ASSUME IsFiniteSet(Address)
    PROVE  HotkeySpec => []NoneForgotten
<1>1. HotkeyInit => HotkeyInv
  <2>1. \A S : <<>> \in Seq(S) /\ <<>> \o <<>> = <<>>
    BY EmptySeq, ConcatEmptySeq
  <2> QED
    BY <2>1 DEF HotkeyInit, HotkeyInv, NoneForgotten
<1>2. HotkeyInv /\ [HotkeyNext]_hotkeyVars => HotkeyInv'
  BY StepInv
<1>3. HotkeyInv => NoneForgotten
  BY DEF HotkeyInv
<1> QED
  BY <1>1, <1>2, <1>3, PTL DEF HotkeySpec

-----------------------------------------------------------------------------
\* The variables keep their types, within the bounds of the model: a binding that loses
\* its last address is removed, and the queue holds messages (WM_HOTKEY, the two messages
\* of oscAddShortcut and oscRemoveShortcut).
THEOREM HotkeyTypes ==
    ASSUME IsFiniteSet(Address), MaxQueue \in Nat, MaxPress \in Nat
    PROVE  HotkeySpec => []HotkeyTypeOK
<1> DEFINE Registered == /\ DOMAIN registered \subseteq Key
                         /\ \A k \in DOMAIN registered : registered[k] \in (SUBSET Address) \ {{}}
           Bounded == Len(queue) <= MaxQueue /\ presses \in 0..MaxPress
           Flags == /\ thread \in {"starting", "running", "ended"}
                    /\ signalled \in BOOLEAN /\ closing \in BOOLEAN
           TInv == HotkeyInv /\ Registered /\ Bounded /\ Flags
<1>1. HotkeyInit => TInv
  <2>1. HotkeyInit => HotkeyInv
    <3>1. \A S : <<>> \in Seq(S) /\ <<>> \o <<>> = <<>>
      BY EmptySeq, ConcatEmptySeq
    <3> QED
      BY <3>1 DEF HotkeyInit, HotkeyInv, NoneForgotten
  <2>2. DOMAIN <<>> = {} /\ Len(<<>>) = 0
    OBVIOUS
  <2>3. HotkeyInit => Registered
    BY <2>2 DEF HotkeyInit
  <2>4. HotkeyInit => Bounded
    BY <2>2 DEF HotkeyInit
  <2>5. HotkeyInit => Flags
    BY DEF HotkeyInit
  <2> QED
    BY <2>1, <2>3, <2>4, <2>5
<1>2. ASSUME TInv, [HotkeyNext]_hotkeyVars PROVE TInv'
  <2>1. HotkeyInv'
    BY <1>2, StepInv
  <2>2. /\ queue \in Seq(Message) /\ Len(queue) \in Nat
        /\ queue # <<>> => Head(queue) \in Message /\ Len(Tail(queue)) = Len(queue) - 1
    BY <1>2, HeadTailProperties, LenProperties DEF HotkeyInv
  <2>3. Bounded'
    <3>1. ASSUME NEW message, Post(message) PROVE Bounded'
      BY <1>2, <2>2, <3>1 DEF Post
    <3>2. ASSUME NEW t, Take(t), presses' = presses PROVE Bounded'
      BY <1>2, <2>2, <3>2 DEF Take
    <3>3. CASE \/ Destroy
               \/ \E k \in Key, a \in Address : OscAddShortcut(k, a) \/ OscRemoveShortcut(k, a)
      BY <3>1, <3>3 DEF Destroy, OscAddShortcut, OscRemoveShortcut
    <3>4. CASE \E k \in Key : Press(k)
      BY <1>2, <2>2, <3>4 DEF Press
    <3>5. CASE HandleHotkey \/ HandleAdd \/ HandleQuit
      BY <3>2, <3>5 DEF HandleHotkey, HandleAdd, HandleQuit
    <3>6. CASE HandleRemove
      BY <1>2, <2>2, <3>6 DEF HandleRemove
    <3>7. CASE ThreadStart \/ OnOscTriggered \/ TriggerAddress \/ UNCHANGED hotkeyVars
      BY <1>2, <3>7 DEF ThreadStart, OnOscTriggered, TriggerAddress, hotkeyVars
    <3> QED
      BY <1>2, <3>3, <3>4, <3>5, <3>6, <3>7 DEF HotkeyNext
  <2>4. Registered'
    <3>1. CASE HandleAdd
      <4> DEFINE k == Head(queue).key
                 a == Head(queue).address
      <4>1. /\ queue # <<>> /\ Head(queue).type = "add"
            /\ registered' = [h \in DOMAIN registered \cup {k} |->
                                IF h = k THEN AddressesOf(k) \cup {a} ELSE registered[h]]
        BY <3>1 DEF HandleAdd, Take
      <4>2. k \in Key /\ a \in Address
        BY <2>2, <4>1 DEF Message
      <4>3. AddressesOf(k) \subseteq Address
        BY <1>2 DEF AddressesOf
      <4> QED
        BY <1>2, <4>1, <4>2, <4>3
    <3>2. CASE HandleRemove
      BY <1>2, <3>2 DEF HandleRemove, AddressesOf
    <3>3. CASE HandleQuit
      BY <3>3 DEF HandleQuit
    <3>4. CASE UNCHANGED registered
      BY <1>2, <3>4
    <3> QED
      BY <1>2, <3>1, <3>2, <3>3, <3>4
         DEF HotkeyNext, ThreadStart, Destroy, OscAddShortcut, OscRemoveShortcut, Post, Press,
             HandleHotkey, OnOscTriggered, TriggerAddress, hotkeyVars
  <2>5. Flags'
    BY <1>2 DEF HotkeyNext, ThreadStart, Destroy, OscAddShortcut, OscRemoveShortcut, Post, Press,
                HandleHotkey, HandOver, HandleAdd, HandleRemove, HandleQuit, OnOscTriggered,
                TriggerAddress, Take, hotkeyVars
  <2> QED
    BY <2>1, <2>3, <2>4, <2>5
<1>3. TInv => HotkeyTypeOK
  BY DEF HotkeyInv, HotkeyTypeOK
<1> QED
  BY <1>1, <1>2, <1>3, PTL DEF HotkeySpec

(***************************************************************************)
(* delayControl.                                                           *)
(***************************************************************************)

\* A set of natural numbers that holds 0 and the successor of each member holds all.
LEMMA NatSetInduction ==
  ASSUME NEW S, 0 \in S, \A n \in Nat : n \in S => n + 1 \in S
  PROVE  \A n \in Nat : n \in S
<1> SUFFICES ASSUME NEW n \in Nat, n \notin S
             PROVE  FALSE
  OBVIOUS
<1> DEFINE T == {k \in Nat : k \notin S}
           R == {ss \in Nat \X Nat : ss[1] < ss[2]}
<1>1. IsWellFoundedOn(R, Nat)
  BY NatLessThanWellFounded DEF OpToRel
<1>2. PICK x \in T : \A y \in T : ~(<<y, x>> \in R)
  <2>1. T \subseteq Nat /\ n \in T
    OBVIOUS
  <2> HIDE DEF R, T
  <2> QED
    BY <1>1, <2>1, WFMin
<1>3. x # 0
  OBVIOUS
<1>4. x - 1 \in Nat /\ x - 1 \notin T
  <2>1. x - 1 \in Nat
    BY <1>3
  <2>2. <<x - 1, x>> \in R
    BY <2>1
  <2> QED
    BY <1>2, <2>1, <2>2
<1>5. (x - 1) + 1 \in S
  BY <1>4
<1> QED
  BY <1>5

\* The instance counts, chooses and appends like the library.
LEMMA SameCount ==
  /\ \A S : Delay!Cardinality(S) = Cardinality(S)
  /\ \A S : Delay!Max(S) = CHOOSE x \in S : \A y \in S : x >= y
  /\ \A S : Delay!Min(S) = CHOOSE x \in S : \A y \in S : x <= y
<1>1. \A S : Delay!Cardinality(S) = Cardinality(S)
  BY DEF Delay!Cardinality, Cardinality, Delay!IsFiniteSet, IsFiniteSet
<1> QED
  BY <1>1, Zenon DEF Delay!Max, Delay!Min

\* The values of a list are finitely many.
LEMMA ValuesFinite ==
  ASSUME NEW n \in Nat, NEW f \in [1..n -> Int]
  PROVE  IsFiniteSet({f[i] : i \in 1..n}) /\ {f[i] : i \in 1..n} \subseteq Int
<1> DEFINE S == {f[i] : i \in 1..n}
<1>1. f \in Surjection(1..n, S)
  BY DEF Surjection
<1>2. IsFiniteSet(S)
  <2> HIDE DEF S
  <2> QED
    BY <1>1, FS_NatSurjection DEF ExistsSurjection
<1>3. S \subseteq Int
  OBVIOUS
<1> QED
  BY <1>2, <1>3

\* Finitely many numbers, the least first: each element once.
LEMMA AscendingFacts ==
  ASSUME NEW S \in SUBSET Int, IsFiniteSet(S)
  PROVE  LET n == Cardinality(S)
             s == Delay!Ascending(S)
         IN  /\ n \in Nat /\ s \in [1..n -> S]
             /\ \A x \in S : \E k \in 1..n : s[k] = x
             /\ S # {} => \E x \in S : \A y \in S : x <= y
<1> DEFINE n == Cardinality(S)
           Upto(x) == {y \in S : y <= x}
           f == [x \in S |-> Cardinality(Upto(x))]
           s == Delay!Ascending(S)
<1>1. n \in Nat
  BY FS_CardinalityType
<1>2. ASSUME NEW x \in S
      PROVE  IsFiniteSet(Upto(x)) /\ Cardinality(Upto(x)) \in 1..n
  <2>1. Upto(x) \in SUBSET S
    OBVIOUS
  <2>2. x \in Upto(x)
    OBVIOUS
  <2> HIDE DEF Upto
  <2>3. IsFiniteSet(Upto(x)) /\ Cardinality(Upto(x)) <= n
    BY <2>1, FS_Subset
  <2>4. Cardinality(Upto(x)) \in Nat
    BY <2>3, FS_CardinalityType
  <2>5. Cardinality(Upto(x)) # 0
    BY <2>2, <2>3, FS_EmptySet
  <2> HIDE DEF n
  <2> QED
    BY <1>1, <2>3, <2>4, <2>5
<1>3. ASSUME NEW x \in S, NEW z \in S, x < z
      PROVE  f[x] < f[z]
  <2>1. Upto(x) \in SUBSET Upto(z) /\ z \in Upto(z) /\ z \notin Upto(x)
    <3>1. x \in Int /\ z \in Int /\ \A y \in S : y \in Int
      OBVIOUS
    <3>2. \A y \in Upto(x) : y \in Upto(z)
      BY <1>3, <3>1
    <3>3. z \in Upto(z) /\ z \notin Upto(x)
      BY <1>3, <3>1
    <3> HIDE DEF Upto
    <3> QED
      BY <3>2, <3>3
  <2> HIDE DEF Upto
  <2>2. IsFiniteSet(Upto(z)) /\ Upto(x) # Upto(z) /\ Cardinality(Upto(x)) \in 1..n /\ Cardinality(Upto(z)) \in 1..n
    BY <1>2, <2>1
  <2>3. Cardinality(Upto(x)) <= Cardinality(Upto(z)) /\ Cardinality(Upto(x)) # Cardinality(Upto(z))
    BY <2>1, <2>2, FS_Subset
  <2> HIDE DEF n
  <2> QED
    BY <1>1, <2>2, <2>3
<1>4. f \in [S -> 1..n]
  <2> HIDE DEF Upto, n
  <2> QED
    BY <1>2
<1>5. \A x, z \in S : f[x] = f[z] => x = z
  <2> SUFFICES ASSUME NEW x \in S, NEW z \in S, f[x] = f[z], x # z
               PROVE  FALSE
    OBVIOUS
  <2> HIDE DEF f, n
  <2>1. x < z \/ z < x
    OBVIOUS
  <2>2. f[x] \in 1..n /\ f[z] \in 1..n
    BY <1>4
  <2> QED
    BY <1>1, <1>3, <2>1, <2>2
<1>6. \A k \in 1..n : \E x \in S : f[x] = k
  <2> HIDE DEF f
  <2>1. f \in Injection(S, 1..n)
    BY <1>4, <1>5 DEF Injection, IsInjective
  <2>2. IsFiniteSet(1..n) /\ Cardinality(1..n) = n
    <3>1. IsFiniteSet(1..n) /\ Cardinality(1..n) = IF 1 > n THEN 0 ELSE n - 1 + 1
      BY <1>1, FS_Interval
    <3> HIDE DEF n
    <3> QED
      BY <1>1, <3>1
  <2>3. f \in Surjection(S, 1..n)
    BY <2>1, <2>2, FS_Injection
  <2> QED
    BY <2>3 DEF Surjection
<1>7. ASSUME NEW k \in 1..n
      PROVE  s[k] \in S /\ f[s[k]] = k
  <2>1. s[k] = CHOOSE x \in S : Cardinality(Upto(x)) = k
    BY SameCount DEF Delay!Ascending
  <2>2. \E x \in S : Cardinality(Upto(x)) = k
    <3>1. PICK x \in S : f[x] = k
      BY <1>6
    <3> QED
      BY <3>1
  <2> HIDE DEF s
  <2>3. s[k] \in S /\ Cardinality(Upto(s[k])) = k
    <3> HIDE DEF Upto, n
    <3> QED
      BY <2>1, <2>2
  <2> QED
    BY <2>3
<1>8. s \in [1..n -> S]
  <2>1. DOMAIN s = 1..n
    BY SameCount DEF Delay!Ascending
  <2>2. s = [k \in DOMAIN s |-> s[k]]
    BY SMTT(20) DEF Delay!Ascending
  <2> HIDE DEF s, n, f
  <2> QED
    BY <1>7, <2>1, <2>2
<1>9. ASSUME NEW x \in S
      PROVE  \E k \in 1..n : s[k] = x
  <2> HIDE DEF f, s, n
  <2>1. f[x] \in 1..n
    BY <1>4
  <2>2. s[f[x]] \in S /\ f[s[f[x]]] = f[x]
    BY <1>7, <2>1
  <2>3. s[f[x]] = x
    BY <1>5, <2>2
  <2> QED
    BY <2>1, <2>3
<1>10. ASSUME S # {}
       PROVE  \E x \in S : \A y \in S : x <= y
  <2>1. PICK z \in S : TRUE
    BY <1>10
  <2> HIDE DEF f, s, n
  <2>2. 1 \in 1..n
    BY <1>1, <1>4, <2>1
  <2>3. s[1] \in S /\ f[s[1]] = 1
    BY <1>7, <2>2
  <2>4. ASSUME NEW y \in S
        PROVE  s[1] <= y
    <3>1. f[y] \in 1..n
      BY <1>4
    <3>2. ~(f[y] < 1)
      BY <1>1, <3>1
    <3>3. ~(y < s[1])
      BY <1>3, <2>3, <3>2
    <3>4. s[1] \in Int /\ y \in Int
      BY <2>3
    <3> QED
      BY <3>3, <3>4
  <2> QED
    BY <2>3, <2>4
<1> QED
  <2> HIDE DEF s, n, f
  <2> QED
    BY <1>1, <1>8, <1>9, <1>10 DEF s, n

\* No delay that DAMC is told is negative, and all are moved by the same time.
LEMMA UpdatedDelaysFacts ==
  ASSUME NEW a \in [Delay!Output -> Int]
  PROVE  \E base \in Int : /\ Delay!UpdatedDelays(a) = [i \in Delay!Output |-> a[i] + base]
                           /\ \A i \in Delay!Output : a[i] + base >= 0
<1> DEFINE S == {a[i] : i \in Delay!Output}
           least == Delay!Min(S)
<1>1. NumOutput \in Nat /\ NumOutput # 0 /\ Delay!Output = 1..NumOutput
  BY DelayAssumption DEF Delay!Output
<1>2. S \in SUBSET Int /\ IsFiniteSet(S) /\ S # {}
  <2>1. a \in [1..NumOutput -> Int] /\ 1 \in 1..NumOutput
    BY <1>1
  <2> QED
    BY <1>1, <2>1, ValuesFinite
<1>3. least \in S /\ \A y \in S : least <= y
  <2> HIDE DEF S
  <2>1. \E x \in S : \A y \in S : x <= y
    BY <1>2, AscendingFacts
  <2> QED
    BY <2>1, SameCount
<1>4. least \in Int /\ \A i \in Delay!Output : least <= a[i]
  <2> HIDE DEF least
  <2> QED
    BY <1>2, <1>3
<1> DEFINE base == IF least < 0 THEN -least ELSE 0
<1>5. Delay!UpdatedDelays(a) = [i \in Delay!Output |-> a[i] + base]
  BY DEF Delay!UpdatedDelays
<1> HIDE DEF least
<1>6. base \in Int /\ \A i \in Delay!Output : a[i] + base >= 0
  BY <1>4
<1> HIDE DEF base
<1> QED
  BY <1>5, <1>6

\* The times at which pulses are heard are numbers.
LEMMA ArrivalsFacts ==
  ASSUME latency \in [Delay!Output -> Int], delays \in [Delay!Output -> Nat]
  PROVE  Delay!Arrivals \in Seq(Int)
<1> DEFINE time == [i \in 1..NumOutput |-> (i - 1) * Between + latency[i] + delays[i]]
           S == {(i - 1) * Between + latency[i] + delays[i] : i \in Delay!Output}
           at == Delay!Ascending(S)
           n == Cardinality(S)
           Body(h, k) == IF k = 0 THEN <<>>
                         ELSE IF h[k - 1] # <<>> /\ at[k] <= Delay!Last(h[k - 1]) + DeadTime THEN h[k - 1]
                         ELSE Append(h[k - 1], at[k])
           heard == CHOOSE h : h = [k \in 0..Len(at) |-> Body(h, k)]
           Grown(h, m) == h = [k \in 0..m |-> Body(h, k)]
           D == {m \in Nat : m <= n => \E h : Grown(h, m) /\ \A k \in 0..m : h[k] \in Seq(Int)}
<1>1. NumOutput \in Nat /\ Delay!Output = 1..NumOutput /\ Between \in Int
  BY DelayAssumption DEF Delay!Output
<1>2. S \in SUBSET Int /\ IsFiniteSet(S)
  <2>1. time \in [1..NumOutput -> Int]
    <3>1. ASSUME NEW i \in 1..NumOutput
          PROVE  (i - 1) * Between + latency[i] + delays[i] \in Int
      <4>1. latency[i] \in Int /\ delays[i] \in Int /\ i - 1 \in Int
        BY <1>1
      <4>2. (i - 1) * Between \in Int
        BY <1>1, <4>1
      <4> QED
        BY <4>1, <4>2
    <3> QED
      BY <3>1
  <2>2. S = {time[i] : i \in 1..NumOutput}
    BY <1>1
  <2> HIDE DEF time, S
  <2> QED
    BY <1>1, <2>1, <2>2, ValuesFinite
<1>3. n \in Nat /\ at \in [1..n -> Int] /\ Len(at) = n
  <2> HIDE DEF S
  <2>1. n \in Nat /\ at \in [1..n -> S]
    BY <1>2, AscendingFacts
  <2> HIDE DEF at, n
  <2>2. at \in [1..n -> Int]
    BY <1>2, <2>1
  <2> QED
    BY <2>1, <2>2
<1> HIDE DEF at, n, S
<1>4. 0 \in D
  <2> DEFINE h == [k \in 0..0 |-> <<>>]
  <2>1. h = [k \in 0..0 |-> Body(h, k)]
    OBVIOUS
  <2>2. \A k \in 0..0 : h[k] \in Seq(Int)
    OBVIOUS
  <2> QED
    BY <2>1, <2>2
<1>5. ASSUME NEW m \in Nat, m \in D
      PROVE  m + 1 \in D
  <2> SUFFICES ASSUME m + 1 <= n
               PROVE  \E h : Grown(h, m + 1) /\ \A k \in 0..(m + 1) : h[k] \in Seq(Int)
    <3> HIDE DEF Grown
    <3> QED
      OBVIOUS
  <2>1. PICK h : Grown(h, m) /\ \A k \in 0..m : h[k] \in Seq(Int)
    <3> HIDE DEF Grown
    <3> QED
      BY <1>3, <1>5
  <2> DEFINE H == [k \in 0..(m + 1) |-> Body(h, k)]
  <2>2. \A k \in 0..m : H[k] = h[k]
    <3>1. \A k \in 0..m : h[k] = Body(h, k)
      <4> HIDE DEF Body
      <4> QED
        BY <2>1, Zenon DEF Grown
    <3>2. \A k \in 0..m : k \in 0..(m + 1)
      OBVIOUS
    <3> HIDE DEF Body
    <3> QED
      BY <3>1, <3>2
  <2>3. \A k \in 0..(m + 1) : Body(h, k) = Body(H, k)
    <3>1. \A k \in 0..(m + 1) : k # 0 => h[k - 1] = H[k - 1]
      <4>1. \A k \in 0..(m + 1) : k # 0 => k - 1 \in 0..m
        OBVIOUS
      <4> HIDE DEF H
      <4> QED
        BY <2>2, <4>1
    <3> HIDE DEF H
    <3> QED
      BY <3>1
  <2>4. Grown(H, m + 1)
    <3>1. \A k \in 0..(m + 1) : H[k] = Body(H, k)
      <4>1. \A k \in 0..(m + 1) : H[k] = Body(h, k)
        BY Zenon
      <4> HIDE DEF H, Body
      <4> QED
        BY <2>3, <4>1
    <3>2. H = [k \in 0..(m + 1) |-> H[k]]
      OBVIOUS
    <3> HIDE DEF H, Body
    <3> QED
      BY <3>1, <3>2
  <2>5. H[m + 1] \in Seq(Int)
    <3>1. m + 1 # 0 /\ (m + 1) - 1 = m /\ m + 1 \in 0..(m + 1) /\ m + 1 \in 1..n /\ m \in 0..m
      BY <1>3
    <3>2. h[m] \in Seq(Int) /\ at[m + 1] \in Int
      BY <1>3, <2>1, <3>1
    <3>3. Append(h[m], at[m + 1]) \in Seq(Int)
      BY <3>2
    <3>4. H[m + 1] = Body(h, m + 1)
      BY <3>1
    <3>5. H[m + 1] = h[m] \/ H[m + 1] = Append(h[m], at[m + 1])
      <4> HIDE DEF H
      <4> QED
        BY <3>1, <3>4
    <3> QED
      BY <3>2, <3>3, <3>5
  <2>6. \A k \in 0..(m + 1) : H[k] \in Seq(Int)
    <3>1. \A k \in 0..(m + 1) : k \in 0..m \/ k = m + 1
      OBVIOUS
    <3> HIDE DEF H
    <3> QED
      BY <2>1, <2>2, <2>5, <3>1
  <2> HIDE DEF H, Grown
  <2> QED
    BY <2>4, <2>6
<1>6. n \in D
  <2> HIDE DEF D
  <2> QED
    BY <1>3, <1>4, <1>5, NatSetInduction
<1>7. PICK h : Grown(h, n) /\ \A k \in 0..n : h[k] \in Seq(Int)
  <2> HIDE DEF Grown
  <2> QED
    BY <1>3, <1>6
<1>8. Grown(heard, n)
  <2>1. heard = CHOOSE x : Grown(x, n)
    BY <1>3
  <2> HIDE DEF heard, Grown
  <2> QED
    BY <1>7, <2>1
<1>9. heard[n] \in Seq(Int)
  <2> DEFINE E == {m \in Nat : m <= n => heard[m] = h[m]}
  <2>1. \A k \in 0..n : heard[k] = Body(heard, k) /\ h[k] = Body(h, k)
    <3>1. heard = [k \in 0..n |-> Body(heard, k)] /\ h = [k \in 0..n |-> Body(h, k)]
      BY <1>7, <1>8
    <3> HIDE DEF heard, Body
    <3> QED
      BY <3>1, Zenon
  <2> HIDE DEF heard
  <2>2. 0 \in E
    BY <1>3, <2>1
  <2>3. ASSUME NEW m \in Nat, m \in E
        PROVE  m + 1 \in E
    <3> SUFFICES ASSUME m + 1 <= n
                 PROVE  heard[m + 1] = h[m + 1]
      OBVIOUS
    <3>1. heard[m] = h[m] /\ m + 1 \in 0..n /\ m + 1 # 0 /\ (m + 1) - 1 = m
      <4>1. m <= n /\ m + 1 \in 0..n /\ m + 1 # 0 /\ (m + 1) - 1 = m
        BY <1>3
      <4> QED
        BY <2>3, <4>1
    <3>2. heard[m + 1] = Body(heard, m + 1) /\ h[m + 1] = Body(h, m + 1)
      BY <2>1, <3>1
    <3> QED
      BY <3>1, <3>2
  <2>4. n \in E
    <3> HIDE DEF E
    <3> QED
      BY <1>3, <2>2, <2>3, NatSetInduction
  <2>5. heard[n] = h[n] /\ n \in 0..n
    BY <1>3, <2>4
  <2> QED
    BY <1>7, <2>5
<1>10. Delay!Arrivals = heard[Len(at)]
  BY DEF Delay!Arrivals, at, S
<1> HIDE DEF heard
<1> QED
  BY <1>3, <1>9, <1>10

\* A delay for an output, or (-1) a clock drift.
DelayMessage == [output : Delay!Output, delay : Int]

\* The newest delay that DAMC has or will be told of output i is the one configured.
Told(i) ==
    \E k \in 0..Len(commands) :
        /\ IF k = 0 THEN delays[i] = configured[i] ELSE commands[k] = Delay!Delay(i, configured[i])
        /\ \A j \in (k + 1)..Len(commands) :
              commands[j].output = i => commands[j].delay \in {-1, configured[i]}

\* The delays configured, if there are any, are those assigned, moved by the same time.
Following ==
    \/ \A i \in Delay!Output : configured[i] = -1
    \/ /\ \E base \in Int : \A i \in Delay!Output : configured[i] = assigned[i] + base
       /\ \A i \in Delay!Output : configured[i] >= 0 /\ Told(i)

\* The types of the variables; the pulses heard come at times that are numbers.
DelayTypes ==
    /\ latency \in [Delay!Output -> Int] /\ delays \in [Delay!Output -> Nat]
    /\ assigned \in [Delay!Output -> Int] /\ configured \in [Delay!Output -> Int]
    /\ commands \in Seq(DelayMessage)
    /\ flight \in Seq(Int) /\ detected \in Seq(Int)
    /\ bigErrors \in [Delay!Output -> Seq(Int)]
    /\ \A i \in Delay!Output : Len(bigErrors[i]) <= HistorySize
    /\ connected \in {"no", "yes", "failed"} /\ writing \in BOOLEAN /\ trigger \in BOOLEAN
    /\ disturbances \in 0..MaxDisturbances

\* What the steps keep.
DelayInv == DelayTypes /\ (writing => commands # <<>>) /\ Following

\* The outputs and the parameters.
LEMMA Outputs ==
  /\ NumOutput \in Nat /\ NumOutput # 0 /\ Delay!Output = 1..NumOutput /\ 1 \in Delay!Output
  /\ {Between, Period, DeadTime, BigError, Unstable, HistorySize} \subseteq Nat
  /\ MaxDisturbances \in Nat
  BY DelayAssumption DEF Delay!Output

\* The delay written is the one that DAMC has.
LEMMA OnWriteFollows ==
  ASSUME DelayInv, Delay!OnWrite
  PROVE  DelayInv'
<1> DEFINE m == Head(commands)
<1>1. /\ commands \in Seq(DelayMessage) /\ commands # <<>>
      /\ delays' = IF m.delay >= 0 THEN [delays EXCEPT ![m.output] = m.delay] ELSE delays
      /\ commands' = Tail(commands) /\ writing' = (commands' # <<>>)
      /\ UNCHANGED <<latency, connected, assigned, configured, bigErrors, trigger, flight, detected, disturbances>>
  BY DEF Delay!OnWrite, DelayInv, DelayTypes
<1>2. /\ m = commands[1] /\ commands' \in Seq(DelayMessage) /\ Len(commands') = Len(commands) - 1
      /\ Len(commands) \in Nat /\ 1 \in 1..Len(commands)
      /\ \A j \in 1..Len(commands') : commands'[j] = commands[j + 1]
  BY <1>1
<1>3. m.output \in Delay!Output /\ m.delay \in Int
  <2>1. m \in DelayMessage
    BY <1>1, <1>2
  <2> HIDE DEF m
  <2> QED
    BY <2>1 DEF DelayMessage
<1>4. delays \in [Delay!Output -> Nat]
  BY DEF DelayInv, DelayTypes
<1> HIDE DEF m
<1>5. delays' \in [Delay!Output -> Nat]
  BY <1>1, <1>3, <1>4
<1>6. DelayTypes'
  <2>1. writing' \in BOOLEAN
    BY <1>1
  <2> QED
    BY <1>1, <1>2, <1>5, <2>1 DEF DelayInv, DelayTypes
<1>7. ASSUME NEW i \in Delay!Output, configured[i] >= 0, Told(i)
      PROVE  Told(i)'
  <2>1. PICK k \in 0..Len(commands) :
          /\ IF k = 0 THEN delays[i] = configured[i] ELSE commands[k] = Delay!Delay(i, configured[i])
          /\ \A j \in (k + 1)..Len(commands) :
                commands[j].output = i => commands[j].delay \in {-1, configured[i]}
    BY <1>7 DEF Told
  <2>2. configured[i] \in Int
    BY DEF DelayInv, DelayTypes
  <2>3. CASE k \in {0, 1}
    <3>1. delays'[i] = configured[i]
      <4>1. CASE k = 0
        <5>1. m.output = i => m.delay \in {-1, configured[i]}
          BY <1>2, <2>1, <4>1
        <5>2. delays[i] = configured[i]
          BY <2>1, <4>1
        <5> QED
          BY <1>1, <1>3, <1>4, <2>2, <5>1, <5>2
      <4>2. CASE k = 1
        <5>1. m = Delay!Delay(i, configured[i])
          BY <1>2, <2>1, <4>2
        <5>2. m.output = i /\ m.delay = configured[i]
          BY <5>1 DEF Delay!Delay
        <5> QED
          BY <1>1, <1>4, <1>7, <5>2
      <4> QED
        BY <2>3, <4>1, <4>2
    <3>2. ASSUME NEW j \in 1..Len(commands')
          PROVE  commands'[j].output = i => commands'[j].delay \in {-1, configured[i]}
      <4>1. commands'[j] = commands[j + 1] /\ j + 1 \in (k + 1)..Len(commands)
        BY <1>2, <2>3
      <4> QED
        BY <2>1, <4>1
    <3>3. \A j \in (0 + 1)..Len(commands') :
             commands'[j].output = i => commands'[j].delay \in {-1, configured[i]}
      BY <3>2
    <3>4. 0 \in 0..Len(commands')
      BY <1>2
    <3> QED
      BY <1>1, <3>1, <3>3, <3>4 DEF Told
  <2>4. CASE k \notin {0, 1}
    <3>1. k - 1 \in 1..Len(commands') /\ (k - 1) + 1 = k
      BY <1>2, <2>4
    <3>2. commands'[k - 1] = Delay!Delay(i, configured[i])
      BY <1>2, <2>1, <2>4, <3>1
    <3>3. ASSUME NEW j \in ((k - 1) + 1)..Len(commands')
          PROVE  commands'[j].output = i => commands'[j].delay \in {-1, configured[i]}
      <4>1. j \in 1..Len(commands') /\ j + 1 \in (k + 1)..Len(commands)
        BY <1>2, <2>4
      <4>2. commands'[j] = commands[j + 1]
        BY <1>2, <4>1
      <4> QED
        BY <2>1, <4>1, <4>2
    <3> DEFINE h == k - 1
    <3>4. h \in 0..Len(commands') /\ h # 0 /\ commands'[h] = Delay!Delay(i, configured[i])
      BY <3>1, <3>2
    <3>5. \A j \in (h + 1)..Len(commands') :
             commands'[j].output = i => commands'[j].delay \in {-1, configured[i]}
      BY <3>3
    <3> HIDE DEF h
    <3> QED
      BY <1>1, <3>4, <3>5 DEF Told
  <2> QED
    BY <2>3, <2>4
<1>8. Following'
  BY <1>1, <1>7 DEF DelayInv, Following
<1> QED
  BY <1>1, <1>6, <1>8 DEF DelayInv

\* The outputs whose delay changed are told it.
LEMMA RawDelaysFacts ==
  ASSUME configured \in [Delay!Output -> Int], NEW d \in [Delay!Output -> Int]
  PROVE  LET s == Delay!RawDelays(d)
         IN  /\ s \in Seq(DelayMessage)
             /\ \A k \in 1..Len(s) : s[k].delay = d[s[k].output]
             /\ \A i \in Delay!Output :
                   d[i] # configured[i] => \E k \in 1..Len(s) : s[k] = Delay!Delay(i, d[i])
<1> DEFINE S == {i \in Delay!Output : d[i] # configured[i]}
           order == Delay!Ascending(S)
           n == Cardinality(S)
           s == [k \in DOMAIN order |-> Delay!Delay(order[k], d[order[k]])]
<1>1. S \in SUBSET Int /\ IsFiniteSet(S)
  <2>1. IsFiniteSet(1..NumOutput) /\ S \in SUBSET (1..NumOutput)
    BY Outputs, FS_Interval
  <2>2. S \in SUBSET Int
    BY Outputs
  <2> HIDE DEF S
  <2>3. IsFiniteSet(S)
    BY <2>1, FS_Subset
  <2> QED
    BY <2>2, <2>3
<1>2. n \in Nat /\ order \in [1..n -> S] /\ \A x \in S : \E k \in 1..n : order[k] = x
  <2> HIDE DEF S
  <2> QED
    BY <1>1, AscendingFacts
<1>3. Delay!RawDelays(d) = s
  BY DEF Delay!RawDelays
<1> HIDE DEF order, n
<1>4. \A k \in 1..n : /\ order[k] \in Delay!Output /\ d[order[k]] \in Int
                      /\ s[k] = Delay!Delay(order[k], d[order[k]])
  BY <1>2
<1>5. DOMAIN s = 1..n /\ s = [k \in 1..n |-> s[k]]
  BY <1>2
<1> HIDE DEF s, S
<1>6. \A k \in 1..n : s[k] \in DelayMessage /\ s[k].output = order[k] /\ s[k].delay = d[order[k]]
  <2> SUFFICES ASSUME NEW k \in 1..n
               PROVE  s[k] \in DelayMessage /\ s[k].output = order[k] /\ s[k].delay = d[order[k]]
    OBVIOUS
  <2> DEFINE o == order[k]
             e == d[order[k]]
  <2>1. o \in Delay!Output /\ e \in Int /\ s[k] = [output |-> o, delay |-> e]
    BY <1>4 DEF Delay!Delay
  <2> HIDE DEF o, e
  <2>2. s[k] \in DelayMessage /\ s[k].output = o /\ s[k].delay = e
    BY <2>1 DEF DelayMessage
  <2> QED
    BY <2>2 DEF o, e
<1>7. s \in Seq(DelayMessage) /\ Len(s) = n
  <2>1. s \in [1..n -> DelayMessage]
    BY <1>5, <1>6
  <2>2. n \in Nat
    BY <1>2
  <2> QED
    BY <2>1, <2>2
<1>8. ASSUME NEW i \in Delay!Output, d[i] # configured[i]
      PROVE  \E k \in 1..Len(s) : s[k] = Delay!Delay(i, d[i])
  <2>1. i \in S
    BY <1>8 DEF S
  <2>2. PICK k \in 1..n : order[k] = i
    BY <1>2, <2>1
  <2> QED
    BY <1>4, <1>7, <2>2
<1>9. \A k \in 1..Len(s) : s[k].delay = d[s[k].output]
  BY <1>6, <1>7
<1> QED
  BY <1>3, <1>7, <1>8, <1>9

\* An error that is stored, or corrected.
LEMMA DelayErrorFacts ==
  ASSUME NEW errors \in Seq(Int), Len(errors) <= HistorySize, NEW e \in Int
  PROVE  LET r == Delay!DelayError(errors, e)
         IN  r.errors \in Seq(Int) /\ Len(r.errors) <= HistorySize /\ r.correction \in Int
<1> DEFINE r == Delay!DelayError(errors, e)
<1>1. HistorySize \in Nat /\ Len(errors) \in Nat
  BY Outputs
<1>2. \/ r = [errors |-> <<>>, correction |-> 0]
      \/ r = [errors |-> Append(errors, e), correction |-> 0] /\ Len(errors) < HistorySize
      \/ r = [errors |-> <<>>, correction |-> -e]
  BY DEF Delay!DelayError
<1> HIDE DEF r
<1>3. <<>> \in Seq(Int) /\ Len(<<>>) = 0
  OBVIOUS
<1>4. Append(errors, e) \in Seq(Int) /\ Len(Append(errors, e)) = Len(errors) + 1
  OBVIOUS
<1>5. CASE r = [errors |-> Append(errors, e), correction |-> 0] /\ Len(errors) < HistorySize
  BY <1>1, <1>4, <1>5 DEF r
<1>6. CASE r = [errors |-> <<>>, correction |-> 0] \/ r = [errors |-> <<>>, correction |-> -e]
  <2>1. r.errors = <<>> /\ r.correction \in Int
    BY <1>6
  <2> QED
    BY <1>1, <1>3, <2>1 DEF r
<1> QED
  BY <1>2, <1>5, <1>6

\* What onDoMeasure() changes, with the errors e, the corrected delays and the messages
\* about the clock drift.
LEMMA DoMeasureFacts ==
  ASSUME DelayInv, Delay!DoMeasure
  PROVE  /\ assigned' \in [Delay!Output -> Int]
         /\ bigErrors' \in [Delay!Output -> Seq(Int)]
         /\ \A i \in Delay!Output : Len(bigErrors'[i]) <= HistorySize
         /\ configured' = Delay!UpdatedDelays(assigned')
         /\ \E drifts \in Seq(DelayMessage) :
               /\ \A k \in 1..Len(drifts) : drifts[k].delay = -1
               /\ commands' = (commands \o drifts) \o Delay!RawDelays(configured')
<1> DEFINE e == [i \in Delay!Output |-> IF i <= Len(detected)
                                        THEN detected[i] - detected[1] - (i - 1) * Between ELSE 0]
           measured == {i \in 2..NumOutput : i <= Len(detected)}
           big == {i \in measured : Delay!Abs(e[i]) > BigError}
           control == [i \in big |-> Delay!DelayError(bigErrors[i], e[i])]
           small == measured \ big
           order == Delay!Ascending(small)
           drifts == [k \in 1..Delay!Cardinality(small) |-> Delay!Drift(order[k])]
<1>1. /\ bigErrors' = [i \in Delay!Output |-> CASE i \in big -> control[i].errors
                                                [] i \in measured \ big -> <<>>
                                                [] OTHER -> bigErrors[i]]
      /\ assigned' = [i \in Delay!Output |-> IF i \in big THEN assigned[i] + control[i].correction
                                             ELSE assigned[i]]
      /\ configured' = Delay!UpdatedDelays(assigned')
      /\ commands' = commands \o drifts \o Delay!RawDelays(Delay!UpdatedDelays(assigned'))
  BY DEF Delay!DoMeasure
<1>2. /\ measured \subseteq Delay!Output /\ big \subseteq Delay!Output /\ small \subseteq Delay!Output
      /\ \A i \in big : i \in measured
  BY Outputs
<1>3. \A i \in Delay!Output : e[i] \in Int
  <2> SUFFICES ASSUME NEW i \in Delay!Output
               PROVE  e[i] \in Int
    OBVIOUS
  <2>1. detected \in Seq(Int) /\ Between \in Int /\ i \in Nat /\ i # 0
    BY Outputs DEF DelayInv, DelayTypes
  <2>2. CASE i <= Len(detected)
    <3>1. detected[i] \in Int /\ detected[1] \in Int /\ i - 1 \in Int
      BY <2>1, <2>2
    <3>2. (i - 1) * Between \in Int
      BY <2>1, <3>1
    <3> QED
      BY <2>2, <3>1, <3>2
  <2>3. CASE ~(i <= Len(detected))
    BY <2>3
  <2> QED
    BY <2>2, <2>3
<1> HIDE DEF e, measured
<1>4. \A i \in big : /\ control[i].errors \in Seq(Int) /\ Len(control[i].errors) <= HistorySize
                     /\ control[i].correction \in Int
  <2> SUFFICES ASSUME NEW i \in big
               PROVE  /\ control[i].errors \in Seq(Int) /\ Len(control[i].errors) <= HistorySize
                      /\ control[i].correction \in Int
    OBVIOUS
  <2>1. i \in Delay!Output
    BY <1>2
  <2>2. bigErrors[i] \in Seq(Int) /\ Len(bigErrors[i]) <= HistorySize
    BY <2>1 DEF DelayInv, DelayTypes
  <2>3. control[i] = Delay!DelayError(bigErrors[i], e[i])
    OBVIOUS
  <2> HIDE DEF control, big
  <2> QED
    BY <1>3, <2>1, <2>2, <2>3, DelayErrorFacts
<1> HIDE DEF control, big
<1>5. assigned' \in [Delay!Output -> Int]
  <2>1. \A i \in Delay!Output : assigned[i] \in Int
    BY DEF DelayInv, DelayTypes
  <2> QED
    BY <1>1, <1>4, <2>1
<1>6. \A i \in Delay!Output : bigErrors'[i] \in Seq(Int) /\ Len(bigErrors'[i]) <= HistorySize
  <2> SUFFICES ASSUME NEW i \in Delay!Output
               PROVE  bigErrors'[i] \in Seq(Int) /\ Len(bigErrors'[i]) <= HistorySize
    OBVIOUS
  <2>1. bigErrors'[i] = CASE i \in big -> control[i].errors [] i \in measured \ big -> <<>>
                          [] OTHER -> bigErrors[i]
    BY <1>1
  <2>2. bigErrors[i] \in Seq(Int) /\ Len(bigErrors[i]) <= HistorySize
    BY DEF DelayInv, DelayTypes
  <2>3. <<>> \in Seq(Int) /\ Len(<<>>) = 0 /\ HistorySize \in Nat
    BY Outputs
  <2>4. CASE i \in big
    BY <1>4, <2>1, <2>4
  <2>5. CASE i \in measured \ big
    <3>1. bigErrors'[i] = <<>>
      BY <2>1, <2>5
    <3> QED
      BY <2>3, <3>1
  <2>6. CASE i \notin big /\ i \notin measured \ big
    <3>1. bigErrors'[i] = bigErrors[i]
      BY <2>1, <2>6
    <3> QED
      BY <2>2, <3>1
  <2> QED
    BY <2>4, <2>5, <2>6
<1>7. bigErrors' \in [Delay!Output -> Seq(Int)]
  BY <1>1, <1>6
<1>8. drifts \in Seq(DelayMessage) /\ \A k \in 1..Len(drifts) : drifts[k].delay = -1
  <2> DEFINE n == Cardinality(small)
  <2>1. small \in SUBSET Int /\ IsFiniteSet(small)
    <3>1. IsFiniteSet(1..NumOutput) /\ small \in SUBSET (1..NumOutput)
      BY <1>2, Outputs, FS_Interval
    <3>2. small \in SUBSET Int
      BY <1>2, Outputs
    <3> HIDE DEF small
    <3>3. IsFiniteSet(small)
      BY <3>1, FS_Subset
    <3> QED
      BY <3>2, <3>3
  <2>2. n \in Nat /\ order \in [1..n -> small]
    <3> HIDE DEF small
    <3> QED
      BY <2>1, AscendingFacts
  <2>3. drifts = [k \in 1..n |-> Delay!Drift(order[k])]
    BY SameCount
  <2> HIDE DEF small, order, drifts, n
  <2>4. \A k \in 1..n : drifts[k] \in DelayMessage /\ drifts[k].delay = -1
    <3> SUFFICES ASSUME NEW k \in 1..n
                 PROVE  drifts[k] \in DelayMessage /\ drifts[k].delay = -1
      OBVIOUS
    <3> DEFINE o == order[k]
    <3>1. o \in Delay!Output /\ drifts[k] = [output |-> o, delay |-> -1]
      BY <1>2, <2>2, <2>3 DEF Delay!Drift, small
    <3> HIDE DEF o
    <3> QED
      BY <3>1 DEF DelayMessage
  <2>5. DOMAIN drifts = 1..n /\ drifts = [k \in 1..n |-> drifts[k]]
    BY <2>3
  <2> QED
    BY <2>2, <2>4, <2>5
<1>9. commands' = (commands \o drifts) \o Delay!RawDelays(configured')
  BY <1>1
<1> HIDE DEF drifts
<1> QED
  BY <1>1, <1>5, <1>6, <1>7, <1>8, <1>9

\* After a measure DAMC has, or will be told, the delays configured.
LEMMA DoMeasureFollows ==
  ASSUME DelayInv, Delay!DoMeasure
  PROVE  DelayInv'
<1>1. /\ assigned' \in [Delay!Output -> Int]
      /\ bigErrors' \in [Delay!Output -> Seq(Int)]
      /\ \A i \in Delay!Output : Len(bigErrors'[i]) <= HistorySize
      /\ configured' = Delay!UpdatedDelays(assigned')
  BY DoMeasureFacts
<1>2. PICK drifts \in Seq(DelayMessage) :
         /\ \A k \in 1..Len(drifts) : drifts[k].delay = -1
         /\ commands' = (commands \o drifts) \o Delay!RawDelays(configured')
  BY DoMeasureFacts
<1>3. /\ Delay!Disturbance(trigger \/ flight # <<>> \/ (connected = "yes" /\ commands # <<>>))
      /\ writing' = (writing \/ (connected = "yes" /\ commands' # <<>>))
      /\ trigger' = TRUE /\ detected' = <<>>
      /\ flight' = [k \in DOMAIN flight |-> flight[k] - Period]
      /\ UNCHANGED <<latency, connected, delays>>
  BY DEF Delay!DoMeasure
<1>4. PICK base \in Int : /\ configured' = [i \in Delay!Output |-> assigned'[i] + base]
                          /\ \A i \in Delay!Output : assigned'[i] + base >= 0
  BY <1>1, UpdatedDelaysFacts
<1>5. configured' \in [Delay!Output -> Int] /\ \A i \in Delay!Output : configured'[i] >= 0
  BY <1>1, <1>4
<1> DEFINE raw == Delay!RawDelays(configured')
           front == commands \o drifts
<1>6. /\ raw \in Seq(DelayMessage)
      /\ \A k \in 1..Len(raw) : raw[k].delay = configured'[raw[k].output]
      /\ \A i \in Delay!Output : configured'[i] # configured[i]
            => \E k \in 1..Len(raw) : raw[k] = Delay!Delay(i, configured'[i])
  <2>1. configured \in [Delay!Output -> Int]
    BY DEF DelayInv, DelayTypes
  <2> QED
    BY <1>5, <2>1, RawDelaysFacts
<1> HIDE DEF raw
<1>7. commands \in Seq(DelayMessage) /\ Len(commands) \in Nat /\ Len(drifts) \in Nat /\ Len(raw) \in Nat
  BY <1>2, <1>6 DEF DelayInv, DelayTypes
<1>8. /\ front \in Seq(DelayMessage) /\ Len(front) = Len(commands) + Len(drifts)
      /\ \A k \in 1..Len(commands) : front[k] = commands[k]
      /\ \A k \in 1..Len(drifts) : front[Len(commands) + k] = drifts[k]
  BY <1>2, <1>7
<1>9. commands' = front \o raw
  BY <1>2 DEF raw
<1> HIDE DEF front
<1>10. /\ commands' \in Seq(DelayMessage) /\ Len(commands') = Len(front) + Len(raw)
       /\ \A k \in 1..Len(front) : commands'[k] = front[k]
       /\ \A k \in 1..Len(raw) : commands'[Len(front) + k] = raw[k]
  <2>1. front \in Seq(DelayMessage) /\ raw \in Seq(DelayMessage)
    BY <1>6, <1>8
  <2>2. /\ front \o raw \in Seq(DelayMessage) /\ Len(front \o raw) = Len(front) + Len(raw)
        /\ \A k \in 1..Len(front) : (front \o raw)[k] = front[k]
        /\ \A k \in 1..Len(raw) : (front \o raw)[Len(front) + k] = raw[k]
    BY <2>1
  <2> QED
    BY <1>9, <2>2
<1>11. ASSUME NEW j \in 1..Len(commands')
       PROVE  \/ j \in 1..Len(commands) /\ commands'[j] = commands[j]
              \/ j > Len(commands) /\ commands'[j].delay \in {-1, configured'[commands'[j].output]}
  <2>1. CASE j <= Len(commands)
    <3>1. j \in 1..Len(commands) /\ j \in 1..Len(front)
      BY <1>7, <1>8, <2>1
    <3> QED
      BY <1>8, <1>10, <3>1
  <2>2. CASE j > Len(commands) /\ j <= Len(front)
    <3> DEFINE h == j - Len(commands)
    <3>1. h \in 1..Len(drifts) /\ Len(commands) + h = j /\ j \in 1..Len(front)
      BY <1>7, <1>8, <2>2
    <3> HIDE DEF h
    <3>2. commands'[j] = drifts[h]
      BY <1>8, <1>10, <3>1
    <3> QED
      BY <1>2, <2>2, <3>1, <3>2
  <2>3. CASE j > Len(front)
    <3> DEFINE h == j - Len(front)
    <3>1. h \in 1..Len(raw) /\ Len(front) + h = j /\ j > Len(commands)
      BY <1>7, <1>8, <1>10, <2>3
    <3> HIDE DEF h
    <3>2. commands'[j] = raw[h]
      BY <1>10, <3>1
    <3> QED
      BY <1>6, <3>1, <3>2
  <2> QED
    BY <1>7, <1>8, <2>1, <2>2, <2>3
<1>12. ASSUME NEW i \in Delay!Output
       PROVE  Told(i)'
  <2>1. CASE configured'[i] # configured[i]
    <3>1. PICK k \in 1..Len(raw) : raw[k] = Delay!Delay(i, configured'[i])
      BY <1>6, <2>1
    <3> DEFINE h == Len(front) + k
    <3>2. h \in 0..Len(commands') /\ h # 0 /\ h >= Len(commands)
      BY <1>7, <1>8, <1>10
    <3>3. commands'[h] = Delay!Delay(i, configured'[i])
      BY <1>10, <3>1
    <3> HIDE DEF h
    <3>4. ASSUME NEW j \in (h + 1)..Len(commands')
          PROVE  commands'[j].output = i => commands'[j].delay \in {-1, configured'[i]}
      <4>1. j \in 1..Len(commands') /\ j \notin 1..Len(commands)
        BY <1>7, <1>10, <3>2
      <4> QED
        BY <1>11, <4>1
    <3> QED
      BY <3>2, <3>3, <3>4 DEF Told
  <2>2. CASE configured'[i] = configured[i]
    <3>1. Told(i)
      BY <1>5, <2>2 DEF DelayInv, Following
    <3>2. PICK k \in 0..Len(commands) :
            /\ IF k = 0 THEN delays[i] = configured[i] ELSE commands[k] = Delay!Delay(i, configured[i])
            /\ \A j \in (k + 1)..Len(commands) :
                  commands[j].output = i => commands[j].delay \in {-1, configured[i]}
      BY <3>1 DEF Told
    <3>3. k \in 0..Len(commands') /\ Len(commands') >= Len(commands)
      BY <1>7, <1>8, <1>10
    <3>4. IF k = 0 THEN delays'[i] = configured'[i] ELSE commands'[k] = Delay!Delay(i, configured'[i])
      <4>1. k # 0 => k \in 1..Len(commands') /\ k \in 1..Len(commands)
        BY <1>7, <3>3
      <4>2. k # 0 => commands'[k] = commands[k]
        BY <1>7, <1>11, <4>1
      <4> QED
        BY <1>3, <2>2, <3>2, <4>2
    <3>5. ASSUME NEW j \in (k + 1)..Len(commands')
          PROVE  commands'[j].output = i => commands'[j].delay \in {-1, configured'[i]}
      <4>1. j \in 1..Len(commands')
        BY <3>3
      <4>2. CASE j \in 1..Len(commands) /\ commands'[j] = commands[j]
        <5>1. j \in (k + 1)..Len(commands)
          BY <1>7, <4>2
        <5> QED
          BY <2>2, <3>2, <4>2, <5>1
      <4>3. CASE commands'[j].delay \in {-1, configured'[commands'[j].output]}
        BY <4>3
      <4> QED
        BY <1>11, <4>1, <4>2, <4>3
    <3> QED
      BY <3>3, <3>4, <3>5 DEF Told
  <2> QED
    BY <2>1, <2>2
<1>13. Following'
  <2>1. \A i \in Delay!Output : configured'[i] = assigned'[i] + base
    BY <1>4
  <2> QED
    BY <1>5, <1>12, <2>1 DEF Following
<1>14. DelayTypes'
  <2>1. flight' \in Seq(Int)
    <3>1. flight \in Seq(Int) /\ Period \in Int
      BY Outputs DEF DelayInv, DelayTypes
    <3> QED
      BY <1>3, <3>1
  <2>2. disturbances' \in 0..MaxDisturbances
    BY <1>3, Outputs DEF DelayInv, DelayTypes, Delay!Disturbance
  <2>3. writing' \in BOOLEAN /\ trigger' \in BOOLEAN /\ detected' \in Seq(Int)
    BY <1>3 DEF DelayInv, DelayTypes
  <2>4. /\ latency' \in [Delay!Output -> Int] /\ delays' \in [Delay!Output -> Nat]
        /\ connected' \in {"no", "yes", "failed"}
    BY <1>3 DEF DelayInv, DelayTypes
  <2> QED
    BY <1>1, <1>5, <1>10, <2>1, <2>2, <2>3, <2>4 DEF DelayTypes
<1>15. writing' => commands' # <<>>
  <2>1. commands # <<>> => commands' # <<>>
    BY <1>7, <1>8, <1>10
  <2> QED
    BY <1>3, <2>1 DEF DelayInv
<1> QED
  BY <1>13, <1>14, <1>15 DEF DelayInv

\* The other steps leave the delays and the messages alone.
LEMMA DelaySteps ==
  ASSUME DelayInv, Delay!Next
  PROVE  DelayInv'
<1>1. ASSUME UNCHANGED <<delays, assigned, configured, commands>>
      PROVE  Following'
  BY <1>1 DEF DelayInv, Following, Told
<1>2. ASSUME NEW b \in BOOLEAN, Delay!OnConnect(b)
      PROVE  DelayInv'
  <2>1. /\ connected' = (IF b THEN "yes" ELSE "failed") /\ writing' = (b /\ commands # <<>>)
        /\ UNCHANGED <<latency, commands, delays, assigned, configured, bigErrors, trigger, flight,
                       detected, disturbances>>
    BY <1>2 DEF Delay!OnConnect
  <2>2. DelayTypes'
    BY <2>1 DEF DelayInv, DelayTypes
  <2> QED
    BY <1>1, <2>1, <2>2 DEF DelayInv
<1>3. CASE Delay!OnWrite
  BY <1>3, OnWriteFollows
<1>4. ASSUME NEW missed \in 0..NumOutput, Delay!StartNewPulse(missed)
      PROVE  DelayInv'
  <2>1. /\ trigger' = FALSE /\ Delay!Disturbance(missed # 0) /\ missed <= Len(Delay!Arrivals)
        /\ flight' = flight \o (IF missed = 0 THEN Delay!Arrivals ELSE Delay!RemoveAt(Delay!Arrivals, missed))
        /\ UNCHANGED <<latency, connected, commands, writing, delays, assigned, configured, bigErrors, detected>>
    BY <1>4 DEF Delay!StartNewPulse, Delay!net
  <2>2. Delay!Arrivals \in Seq(Int)
    BY ArrivalsFacts DEF DelayInv, DelayTypes
  <2> DEFINE heard == IF missed = 0 THEN Delay!Arrivals ELSE Delay!RemoveAt(Delay!Arrivals, missed)
  <2>3. heard \in Seq(Int)
    <3> DEFINE s == Delay!Arrivals
    <3>1. s \in Seq(Int)
      BY <2>2
    <3> HIDE DEF s
    <3>2. CASE missed = 0
      BY <3>1, <3>2 DEF s
    <3>3. CASE missed # 0
      <4>1. missed \in 1..Len(s) /\ Len(s) \in Nat
        BY <2>1, <3>1, <3>3, Outputs DEF s
      <4>2. SubSeq(s, 1, missed - 1) \in Seq(Int) /\ SubSeq(s, missed + 1, Len(s)) \in Seq(Int)
        BY <3>1, <4>1
      <4>3. SubSeq(s, 1, missed - 1) \o SubSeq(s, missed + 1, Len(s)) \in Seq(Int)
        BY <4>2
      <4> QED
        BY <3>3, <4>3 DEF Delay!RemoveAt, s
    <3> QED
      BY <3>2, <3>3
  <2> HIDE DEF heard
  <2>4. flight' = flight \o heard /\ flight \in Seq(Int)
    BY <2>1 DEF heard, DelayInv, DelayTypes
  <2>5. flight' \in Seq(Int)
    BY <2>3, <2>4
  <2>6. disturbances' \in 0..MaxDisturbances
    BY <2>1, Outputs DEF DelayInv, DelayTypes, Delay!Disturbance
  <2>7. DelayTypes'
    BY <2>1, <2>5, <2>6 DEF DelayInv, DelayTypes
  <2> QED
    BY <1>1, <2>1, <2>7 DEF DelayInv
<1>5. CASE Delay!Detect
  <2>1. /\ flight # <<>> /\ detected' = Append(detected, Head(flight)) /\ flight' = Tail(flight)
        /\ UNCHANGED <<latency, connected, commands, writing, delays, assigned, configured, bigErrors,
                       trigger, disturbances>>
    BY <1>5 DEF Delay!Detect, Delay!net
  <2>2. flight \in Seq(Int) /\ detected \in Seq(Int)
    BY DEF DelayInv, DelayTypes
  <2>3. Head(flight) \in Int /\ flight' \in Seq(Int)
    BY <2>1, <2>2
  <2>4. detected' \in Seq(Int)
    BY <2>1, <2>2, <2>3
  <2>5. DelayTypes'
    BY <2>1, <2>3, <2>4 DEF DelayInv, DelayTypes
  <2> QED
    BY <1>1, <2>1, <2>5 DEF DelayInv
<1>6. CASE Delay!DoMeasure
  BY <1>6, DoMeasureFollows
<1> QED
  BY <1>2, <1>3, <1>4, <1>5, <1>6 DEF Delay!Next

\* DelayInv holds at the start and is kept by the connection, the sound and the measures.
THEOREM DelayInductive == Delay!Spec => []DelayInv
<1>1. Delay!Init => DelayInv
  <2> SUFFICES ASSUME Delay!Init
               PROVE  DelayInv
    OBVIOUS
  <2>1. /\ latency \in [Delay!Output -> Latency] /\ Latency \subseteq Nat /\ BigError \in Nat
        /\ HistorySize \in Nat /\ MaxDisturbances \in Nat
    BY DelayAssumption DEF Delay!Init
  <2>2. /\ connected = "no" /\ commands = <<>> /\ writing = FALSE
        /\ assigned = [i \in Delay!Output |-> 0] /\ configured = [i \in Delay!Output |-> -1]
        /\ bigErrors = [i \in Delay!Output |-> <<>>]
        /\ trigger = FALSE /\ flight = <<>> /\ detected = <<>> /\ disturbances = 0
    BY DEF Delay!Init
  <2>3. delays \in [Delay!Output -> Nat]
    <3>1. PICK d \in {0, BigError + 1} : delays = [i \in Delay!Output |-> IF i = 2 THEN d ELSE 0]
      BY DEF Delay!Init
    <3>2. d \in Nat
      BY <2>1
    <3> QED
      BY <3>1, <3>2
  <2>4. latency \in [Delay!Output -> Int]
    <3>1. ASSUME NEW i \in Delay!Output
          PROVE  latency[i] \in Int
      <4>1. latency[i] \in Latency
        BY <2>1
      <4>2. \A x \in Latency : x \in Nat
        BY <2>1
      <4> QED
        BY <4>1, <4>2
    <3>2. latency = [i \in Delay!Output |-> latency[i]]
      BY <2>1
    <3> QED
      BY <3>1, <3>2
  <2>5. <<>> \in Seq(Int) /\ <<>> \in Seq(DelayMessage) /\ Len(<<>>) = 0
    OBVIOUS
  <2>6. /\ bigErrors \in [Delay!Output -> Seq(Int)]
        /\ \A i \in Delay!Output : Len(bigErrors[i]) <= HistorySize
    BY <2>1, <2>2, <2>5
  <2>7. assigned \in [Delay!Output -> Int] /\ configured \in [Delay!Output -> Int]
    BY <2>2
  <2>8. DelayTypes
    <3>1. /\ connected \in {"no", "yes", "failed"} /\ writing \in BOOLEAN /\ trigger \in BOOLEAN
          /\ disturbances \in 0..MaxDisturbances
      <4>1. connected = "no" /\ writing = FALSE /\ trigger = FALSE
        BY <2>2
      <4>2. connected \in {"no", "yes", "failed"}
        BY <4>1
      <4>3. writing \in BOOLEAN /\ trigger \in BOOLEAN
        BY <4>1, Zenon
      <4>4. disturbances \in 0..MaxDisturbances
        <5>1. disturbances = 0 /\ MaxDisturbances \in Nat
          BY <2>1, <2>2
        <5> QED
          BY <5>1
      <4> QED
        BY <4>2, <4>3, <4>4
    <3>2. commands \in Seq(DelayMessage) /\ flight \in Seq(Int) /\ detected \in Seq(Int)
      BY <2>2, <2>5
    <3> QED
      BY <2>3, <2>4, <2>6, <2>7, <3>1, <3>2, Zenon DEF DelayTypes
  <2>9. Following
    BY <2>2 DEF Following
  <2> QED
    BY <2>2, <2>8, <2>9 DEF DelayInv
<1>2. DelayInv /\ [Delay!Next]_(Delay!vars) => DelayInv'
  <2>1. ASSUME DelayInv, UNCHANGED Delay!vars
        PROVE  DelayInv'
    BY <2>1 DEF Delay!vars, Delay!net, DelayInv, DelayTypes, Following, Told
  <2> QED
    BY <2>1, DelaySteps
<1> QED
  BY <1>1, <1>2, PTL DEF Delay!Spec

\* When all messages are written, DAMC has the delays that were assigned, none of them
\* negative, moved by the same time (setRawDelay, updateDelays), for any number of outputs,
\* any latencies and any sizes of errors; the variables keep their types.
THEOREM DelaysFollowed == Delay!Spec => []ServerFollows
<1>1. DelayInv => ServerFollows
  <2> SUFFICES ASSUME DelayInv
               PROVE  ServerFollows
    OBVIOUS
  <2>1. Delay!TypeOK
    BY DEF DelayInv, DelayTypes, Delay!TypeOK
  <2>2. ASSUME commands = <<>>, configured[1] # -1, NEW i \in Delay!Output
        PROVE  delays[i] - delays[1] = assigned[i] - assigned[1] /\ delays[i] >= 0
    <3>1. /\ \E base \in Int : \A o \in Delay!Output : configured[o] = assigned[o] + base
          /\ \A o \in Delay!Output : Told(o)
      BY <2>2, Outputs DEF DelayInv, Following
    <3>2. PICK base \in Int : \A o \in Delay!Output : configured[o] = assigned[o] + base
      BY <3>1
    <3>3. \A o \in Delay!Output : delays[o] = configured[o]
      <4>1. Len(commands) = 0
        BY <2>2
      <4>2. \A k \in 0..Len(commands) : k = 0
        BY <4>1
      <4> QED
        BY <3>1, <4>2 DEF Told
    <3>4. \A o \in Delay!Output : delays[o] \in Nat /\ assigned[o] \in Int
      BY DEF DelayInv, DelayTypes
    <3>5. /\ delays[i] = assigned[i] + base /\ delays[1] = assigned[1] + base
          /\ delays[i] \in Nat /\ assigned[i] \in Int /\ assigned[1] \in Int
      <4>1. 1 \in Delay!Output
        BY Outputs
      <4> QED
        BY <3>2, <3>3, <3>4, <4>1
    <3> QED
      BY <3>5
  <2> QED
    BY <2>1, <2>2 DEF ServerFollows, Delay!ServerFollows
<1> QED
  BY <1>1, DelayInductive, PTL

(***************************************************************************)
(* The window of a strip.                                                  *)
(***************************************************************************)

\* What the server tells a GUI.
Messages ==
    {Window!TypeMessage(t) : t \in Window!Type} \cup {Window!EnableMessage(b) : b \in BOOLEAN}
        \cup {Window!NameMessage} \cup {[node |-> n] : n \in Window!Node}

\* What a GUI sends.
Requests ==
    {Window!TypeMessage(t) : t \in Window!Type} \cup {Window!EnableMessage(b) : b \in BOOLEAN}
        \cup {Window!DumpMessage, [node |-> "keys"]}

IsType(m) == m.node = "_type"
IsNode(m) == m.node \in Window!Node

\* The type told last before message i of s.
Within(s, i, t) ==
    \E j \in 1..(i - 1) : /\ IsType(s[j]) /\ s[j].type = t
                          /\ \A k \in (j + 1)..(i - 1) : ~IsType(s[k])

\* The type in force when message i of s is received, where c is the one before s.
InForce(s, c, i, t) == (t = c /\ \A k \in 1..(i - 1) : ~IsType(s[k])) \/ Within(s, i, t)

\* The type that is told next after message i of s.
Upcoming(s, i, t) ==
    \E j \in (i + 1)..Len(s) : /\ IsType(s[j]) /\ s[j].type = t
                               /\ \A k \in (i + 1)..(j - 1) : ~IsType(s[k])

\* The last type told in s.
Latest(s, t) == Within(s, Len(s) + 1, t)

\* Each value in s belongs to the type in force when it is received, or to the next.
Boxed(s, c) ==
    \A i \in 1..Len(s) : IsNode(s[i]) =>
        \E t \in Window!Type :
            Window!BoxOf[s[i].node] \in Window!BoxesOf(t) /\ (InForce(s, c, i, t) \/ Upcoming(s, i, t))

\* The same of messages that are told together.
Contained(s) ==
    \A i \in 1..Len(s) : IsNode(s[i]) =>
        \E t \in Window!Type :
            Window!BoxOf[s[i].node] \in Window!BoxesOf(t) /\ (Within(s, i, t) \/ Upcoming(s, i, t))

\* A name comes after an enabling, and the check box of exclusive mode after a device's name.
Preceded(s, n, b) == \A i \in 1..Len(s) : s[i].node = n => \E j \in 1..(i - 1) : s[j].node = b
NameAfterEnable(s) == Preceded(s, "name of the strip", "enable")
ExclusiveAfterName(s) == Preceded(s, "exclusive", "name")

\* A value of node n is among the messages.
Says(s, n) == \E i \in 1..Len(s) : s[i].node = n

-----------------------------------------------------------------------------
\* What follows the first message of a sequence.
LEMMA RestOf ==
  ASSUME NEW S, NEW s \in Seq(S), s # <<>>
  PROVE  /\ Len(s) \in Nat \ {0} /\ Head(s) = s[1] /\ s[1] \in S
         /\ Tail(s) \in Seq(S) /\ Len(Tail(s)) = Len(s) - 1
         /\ \A i \in 1..Len(Tail(s)) : Tail(s)[i] = s[i + 1]
<1>1. Len(s) \in Nat \ {0}
  BY EmptySeq
<1> QED
  BY <1>1, HeadTailProperties, ElementOfSeq

\* Two sequences put together.
LEMMA JoinedAre ==
  ASSUME NEW S, NEW s \in Seq(S), NEW u \in Seq(S)
  PROVE  /\ s \o u \in Seq(S) /\ Len(s) \in Nat /\ Len(u) \in Nat /\ Len(s \o u) = Len(s) + Len(u)
         /\ \A i \in 1..Len(s) : (s \o u)[i] = s[i]
         /\ \A i \in 1..Len(u) : (s \o u)[Len(s) + i] = u[i]
<1>1. Len(s) \in Nat /\ Len(u) \in Nat
  BY LenProperties
<1>2. \A i \in 1..(Len(s) + Len(u)) : (s \o u)[i] = IF i <= Len(s) THEN s[i] ELSE u[i - Len(s)]
  BY ConcatProperties
<1>3. ASSUME NEW i \in 1..Len(u)
      PROVE  (s \o u)[Len(s) + i] = u[i]
  <2>1. Len(s) + i \in 1..(Len(s) + Len(u)) /\ ~(Len(s) + i <= Len(s)) /\ Len(s) + i - Len(s) = i
    BY <1>1
  <2> QED
    BY <1>2, <2>1
<1>4. \A i \in 1..Len(s) : (s \o u)[i] = s[i]
  BY <1>1, <1>2
<1> QED
  BY <1>1, <1>3, <1>4, ConcatProperties

\* What is known of the messages after the first.
LEMMA Received ==
  ASSUME NEW S, NEW s \in Seq(S), s # <<>>, NEW c, NEW d,
         IF IsType(s[1]) THEN d = s[1].type ELSE d = c
  PROVE  /\ \A i \in 1..Len(Tail(s)) : \A t : InForce(s, c, i + 1, t) => InForce(Tail(s), d, i, t)
         /\ \A i \in 1..Len(Tail(s)) : \A t : Upcoming(s, i + 1, t) => Upcoming(Tail(s), i, t)
         /\ \A t : Upcoming(s, 0, t) => IF IsType(s[1]) THEN t = s[1].type ELSE Upcoming(Tail(s), 0, t)
         /\ \A t : Latest(Tail(s), t) => Latest(s, t)
         /\ \A t : Latest(s, t) /\ ~(IsType(s[1]) /\ s[1].type = t) => Latest(Tail(s), t)
         /\ IsType(s[1]) /\ ~Says(Tail(s), "_type") => Latest(s, s[1].type)
         /\ \A n : Says(s, n) => s[1].node = n \/ Says(Tail(s), n)
         /\ \A n : Says(Tail(s), n) => Says(s, n)
<1> DEFINE r == Tail(s)
           L == Len(s)
<1>0. /\ L \in Nat \ {0} /\ Len(r) = L - 1
      /\ \A i \in 1..(L - 1) : r[i] = s[i + 1]
      /\ \A i \in 2..L : s[i] = r[i - 1]
  <2>1. L \in Nat \ {0} /\ Len(r) = L - 1 /\ \A i \in 1..(L - 1) : r[i] = s[i + 1]
    BY RestOf
  <2>2. \A i \in 2..L : i - 1 \in 1..(L - 1) /\ i - 1 + 1 = i
    BY <2>1
  <2> QED
    BY <2>1, <2>2
<1> HIDE DEF r, L
<1>L. Len(s) = L
  BY DEF L
<1>R. Tail(s) = r
  BY DEF r
<1>1. ASSUME NEW i \in 1..Len(r), NEW t, InForce(s, c, i + 1, t)
      PROVE  InForce(r, d, i, t)
  <2>1. CASE t = c /\ \A k \in 1..i : ~IsType(s[k])
    <3>1. d = c
      BY <1>0, <2>1
    <3>2. \A k \in 1..(i - 1) : ~IsType(r[k])
      BY <1>0, <2>1
    <3> QED
      BY <2>1, <3>1, <3>2 DEF InForce
  <2>2. CASE Within(s, i + 1, t)
    <3>1. PICK j \in 1..i : IsType(s[j]) /\ s[j].type = t /\ \A k \in (j + 1)..i : ~IsType(s[k])
      BY <1>0, <2>2 DEF Within
    <3>2. CASE j = 1
      <4>1. d = t /\ \A k \in 1..(i - 1) : ~IsType(r[k])
        BY <1>0, <3>1, <3>2
      <4> QED
        BY <4>1 DEF InForce
    <3>3. CASE j # 1
      <4>1. j - 1 \in 1..(i - 1) /\ IsType(r[j - 1]) /\ r[j - 1].type = t
        BY <1>0, <3>1, <3>3
      <4>2. \A k \in (j - 1 + 1)..(i - 1) : ~IsType(r[k])
        BY <1>0, <3>1, <3>3
      <4>3. Within(r, i, t)
        BY <4>1, <4>2 DEF Within
      <4> QED
        BY <4>3 DEF InForce
    <3> QED
      BY <3>2, <3>3
  <2>3. i + 1 - 1 = i
    BY <1>0
  <2> QED
    BY <1>1, <2>1, <2>2, <2>3 DEF InForce
<1>2. ASSUME NEW i \in 0..Len(r), NEW t, Upcoming(s, i + 1, t)
      PROVE  Upcoming(r, i, t)
  <2>1. PICK j \in (i + 1 + 1)..L : /\ IsType(s[j]) /\ s[j].type = t
                                    /\ \A k \in (i + 1 + 1)..(j - 1) : ~IsType(s[k])
    BY <1>2, <1>L DEF Upcoming
  <2>2. j - 1 \in (i + 1)..Len(r) /\ IsType(r[j - 1]) /\ r[j - 1].type = t
    BY <1>0, <2>1
  <2>3. \A k \in (i + 1)..(j - 1 - 1) : ~IsType(r[k])
    BY <1>0, <2>1
  <2> QED
    BY <2>2, <2>3 DEF Upcoming
<1>3. ASSUME NEW t, Upcoming(s, 0, t)
      PROVE  IF IsType(s[1]) THEN t = s[1].type ELSE Upcoming(r, 0, t)
  <2>1. PICK j \in 1..L : IsType(s[j]) /\ s[j].type = t /\ \A k \in 1..(j - 1) : ~IsType(s[k])
    BY <1>3, <1>L DEF Upcoming
  <2>2. CASE IsType(s[1])
    <3>1. j = 1
      BY <1>0, <2>1, <2>2
    <3> QED
      BY <2>1, <2>2, <3>1
  <2>3. CASE ~IsType(s[1])
    <3>1. j \in 2..L
      BY <1>0, <2>1, <2>3
    <3>2. Upcoming(s, 0 + 1, t)
      BY <1>L, <2>1, <3>1 DEF Upcoming
    <3> QED
      BY <1>0, <1>2, <2>3, <3>2
  <2> QED
    BY <2>2, <2>3
<1>4. ASSUME NEW t, Latest(r, t)
      PROVE  Latest(s, t)
  <2>1. PICK j \in 1..(L - 1) : IsType(r[j]) /\ r[j].type = t /\ \A k \in (j + 1)..(L - 1) : ~IsType(r[k])
    BY <1>0, <1>4 DEF Latest, Within
  <2>2. j + 1 \in 1..L /\ IsType(s[j + 1]) /\ s[j + 1].type = t
    BY <1>0, <2>1
  <2>3. \A k \in (j + 1 + 1)..L : ~IsType(s[k])
    BY <1>0, <2>1
  <2>4. L + 1 - 1 = L
    BY <1>0
  <2> QED
    BY <1>L, <2>2, <2>3, <2>4 DEF Latest, Within
<1>5. ASSUME NEW t, Latest(s, t), ~(IsType(s[1]) /\ s[1].type = t)
      PROVE  Latest(r, t)
  <2>1. PICK j \in 1..L : IsType(s[j]) /\ s[j].type = t /\ \A k \in (j + 1)..L : ~IsType(s[k])
    <3>1. L + 1 - 1 = L
      BY <1>0
    <3>2. \E j \in 1..(L + 1 - 1) : IsType(s[j]) /\ s[j].type = t
            /\ \A k \in (j + 1)..(L + 1 - 1) : ~IsType(s[k])
      BY <1>5, <1>L DEF Latest, Within
    <3> QED
      BY <3>1, <3>2
  <2>2. j \in 2..L
    BY <1>0, <1>5, <2>1
  <2>3. j - 1 \in 1..(L - 1) /\ IsType(r[j - 1]) /\ r[j - 1].type = t
    BY <1>0, <2>1, <2>2
  <2>4. \A k \in (j - 1 + 1)..(L - 1) : ~IsType(r[k])
    BY <1>0, <2>1, <2>2
  <2>5. Len(r) + 1 - 1 = L - 1
    BY <1>0
  <2> QED
    BY <2>3, <2>4, <2>5 DEF Latest, Within
<1>6. ASSUME IsType(s[1]), ~Says(r, "_type")
      PROVE  Latest(s, s[1].type)
  <2>1. \A k \in 2..L : ~IsType(s[k])
    BY <1>0, <1>6 DEF Says, IsType
  <2>2. 1 \in 1..(L + 1 - 1) /\ L + 1 - 1 = L
    BY <1>0
  <2> QED
    BY <1>6, <1>L, <2>1, <2>2 DEF Latest, Within
<1>7. \A n : Says(s, n) => s[1].node = n \/ Says(r, n)
  <2> SUFFICES ASSUME NEW n, NEW i \in 1..L, s[i].node = n, s[1].node # n
               PROVE  Says(r, n)
    BY <1>L DEF Says
  <2>1. i - 1 \in 1..Len(r) /\ r[i - 1].node = n
    BY <1>0
  <2> QED
    BY <2>1 DEF Says
<1>8. \A n : Says(r, n) => Says(s, n)
  <2> SUFFICES ASSUME NEW n, NEW i \in 1..Len(r), r[i].node = n
               PROVE  Says(s, n)
    BY DEF Says
  <2>1. i + 1 \in 1..L /\ s[i + 1].node = n
    BY <1>0
  <2> QED
    BY <1>L, <2>1 DEF Says
<1>9. \A i \in 1..Len(r) : i \in 0..Len(r)
  BY <1>0
<1> QED
  BY <1>1, <1>2, <1>3, <1>4, <1>5, <1>6, <1>7, <1>8, <1>9, <1>R

\* What is known of messages stays so when others follow them.
LEMMA Appended ==
  ASSUME NEW S, NEW s \in Seq(S), NEW u \in Seq(S)
  PROVE  /\ \A i \in 1..Len(s) : \A c, t : InForce(s, c, i, t) => InForce(s \o u, c, i, t)
         /\ \A i \in 0..Len(s) : \A t : Upcoming(s, i, t) => Upcoming(s \o u, i, t)
         /\ \A i \in 1..Len(u) : \A t : Within(u, i, t) => Within(s \o u, Len(s) + i, t)
         /\ \A i \in 1..Len(u) : \A t : Upcoming(u, i, t) => Upcoming(s \o u, Len(s) + i, t)
         /\ \A t : Latest(s \o u, t) => IF Says(u, "_type") THEN Latest(u, t) ELSE Latest(s, t)
         /\ \A t : Latest(u, t) => Latest(s \o u, t)
         /\ \A t : Latest(s, t) /\ ~Says(u, "_type") => Latest(s \o u, t)
         /\ \A n : Says(s \o u, n) <=> Says(s, n) \/ Says(u, n)
<1> DEFINE w == s \o u
           L == Len(s)
           M == Len(u)
<1>0. /\ L \in Nat /\ M \in Nat /\ Len(w) = L + M
      /\ \A i \in 1..L : w[i] = s[i]
      /\ \A i \in 1..M : w[L + i] = u[i]
      /\ \A i \in (L + 1)..(L + M) : i - L \in 1..M /\ w[i] = u[i - L]
  <2>1. /\ L \in Nat /\ M \in Nat /\ Len(w) = L + M
        /\ \A i \in 1..L : w[i] = s[i]
        /\ \A i \in 1..M : w[L + i] = u[i]
    BY JoinedAre
  <2> HIDE DEF w, L, M
  <2>2. \A i \in (L + 1)..(L + M) : i - L \in 1..M /\ L + (i - L) = i
    BY <2>1
  <2> QED
    BY <2>1, <2>2
<1> HIDE DEF w, L, M
<1>D. Len(s) = L /\ Len(u) = M /\ s \o u = w
  BY DEF L, M, w
<1>1. ASSUME NEW i \in 1..L, NEW c, NEW t, InForce(s, c, i, t)
      PROVE  InForce(w, c, i, t)
  <2>1. \A k \in 1..(i - 1) : w[k] = s[k]
    <3>1. L \in Nat
      BY <1>0
    <3>2. \A k \in 1..(i - 1) : k \in 1..L
      BY ONLY <3>1, i \in 1..L
    <3>3. \A k \in 1..L : w[k] = s[k]
      BY <1>0
    <3> QED
      BY ONLY <3>2, <3>3
  <2>2. CASE t = c /\ \A k \in 1..(i - 1) : ~IsType(s[k])
    BY <2>1, <2>2 DEF InForce
  <2>3. CASE Within(s, i, t)
    <3>1. PICK j \in 1..(i - 1) : IsType(s[j]) /\ s[j].type = t /\ \A k \in (j + 1)..(i - 1) : ~IsType(s[k])
      BY <2>3 DEF Within
    <3>2. \A k \in (j + 1)..(i - 1) : k \in 1..(i - 1)
      BY <1>0
    <3>3. Within(w, i, t)
      BY <2>1, <3>1, <3>2 DEF Within
    <3> QED
      BY <3>3 DEF InForce
  <2> QED
    BY <1>1, <2>2, <2>3 DEF InForce
<1>2. ASSUME NEW i \in 0..L, NEW t, Upcoming(s, i, t)
      PROVE  Upcoming(w, i, t)
  <2>1. PICK j \in (i + 1)..L : IsType(s[j]) /\ s[j].type = t /\ \A k \in (i + 1)..(j - 1) : ~IsType(s[k])
    BY <1>2, <1>D DEF Upcoming
  <2>3. j \in 1..L /\ j \in (i + 1)..(L + M) /\ \A k \in (i + 1)..(j - 1) : k \in 1..L
    <3>1. L \in Nat /\ M \in Nat
      BY <1>0
    <3> QED
      BY ONLY <3>1, i \in 0..L, j \in (i + 1)..L
  <2>4. Len(w) = L + M /\ \A k \in 1..L : w[k] = s[k]
    BY <1>0
  <2>2. j \in (i + 1)..Len(w) /\ w[j] = s[j] /\ \A k \in (i + 1)..(j - 1) : w[k] = s[k]
    BY ONLY <2>3, <2>4
  <2> QED
    BY <2>1, <2>2 DEF Upcoming
<1>3. ASSUME NEW i \in 1..(M + 1), NEW t, Within(u, i, t)
      PROVE  Within(w, L + i, t)
  <2>1. PICK j \in 1..(i - 1) : IsType(u[j]) /\ u[j].type = t /\ \A k \in (j + 1)..(i - 1) : ~IsType(u[k])
    BY <1>3 DEF Within
  <2>2. L + j \in 1..((L + i) - 1) /\ w[L + j] = u[j]
    BY <1>0, <2>1
  <2>3. ASSUME NEW k \in (L + j + 1)..((L + i) - 1)
        PROVE  ~IsType(w[k])
    <3>1. k - L \in (j + 1)..(i - 1) /\ k \in (L + 1)..(L + M)
      BY <1>0, <2>1
    <3> QED
      BY <1>0, <2>1, <3>1
  <2> DEFINE J == L + j
  <2>4. /\ J \in 1..((L + i) - 1) /\ IsType(w[J]) /\ w[J].type = t
        /\ \A k \in (J + 1)..((L + i) - 1) : ~IsType(w[k])
    BY <2>1, <2>2, <2>3
  <2> HIDE DEF J
  <2> QED
    BY <2>4 DEF Within
<1>4. ASSUME NEW i \in 1..M, NEW t, Upcoming(u, i, t)
      PROVE  Upcoming(w, L + i, t)
  <2>1. PICK j \in (i + 1)..M : IsType(u[j]) /\ u[j].type = t /\ \A k \in (i + 1)..(j - 1) : ~IsType(u[k])
    BY <1>4, <1>D DEF Upcoming
  <2>2. L + j \in (L + i + 1)..Len(w) /\ w[L + j] = u[j]
    BY <1>0, <2>1
  <2>3. ASSUME NEW k \in (L + i + 1)..((L + j) - 1)
        PROVE  ~IsType(w[k])
    <3>1. k - L \in (i + 1)..(j - 1) /\ k \in (L + 1)..(L + M)
      BY <1>0, <2>1
    <3> QED
      BY <1>0, <2>1, <3>1
  <2> DEFINE J == L + j
  <2>4. /\ J \in (L + i + 1)..Len(w) /\ IsType(w[J]) /\ w[J].type = t
        /\ \A k \in (L + i + 1)..(J - 1) : ~IsType(w[k])
    BY <2>1, <2>2, <2>3
  <2> HIDE DEF J
  <2> QED
    BY <2>4 DEF Upcoming
<1>5. ASSUME NEW t, Latest(w, t)
      PROVE  IF Says(u, "_type") THEN Latest(u, t) ELSE Latest(s, t)
  <2>1. PICK j \in 1..(L + M) : IsType(w[j]) /\ w[j].type = t /\ \A k \in (j + 1)..(L + M) : ~IsType(w[k])
    <3>1. Len(w) + 1 - 1 = L + M
      BY <1>0
    <3> QED
      BY <1>5, <3>1 DEF Latest, Within
  <2>2. CASE j <= L
    <3>1. j \in 1..L /\ IsType(s[j]) /\ s[j].type = t /\ \A k \in (j + 1)..L : ~IsType(s[k])
      <4>1. j \in 1..L
        BY <1>0, <2>2
      <4>2. w[j] = s[j]
        BY <1>0, <4>1
      <4>3. ASSUME NEW k \in (j + 1)..L
            PROVE  ~IsType(s[k])
        <5>1. k \in 1..L /\ k \in (j + 1)..(L + M)
          BY <1>0, <4>1
        <5>2. w[k] = s[k] /\ ~IsType(w[k])
          BY <1>0, <2>1, <5>1
        <5> QED
          BY <5>2
      <4> QED
        BY <2>1, <4>1, <4>2, <4>3
    <3>2. Latest(s, t)
      <4>1. L + 1 - 1 = L
        BY <1>0
      <4> QED
        <5>1. j \in 1..((L + 1) - 1) /\ \A k \in (j + 1)..((L + 1) - 1) : ~IsType(s[k])
          BY <1>0, <3>1
        <5>2. Within(s, L + 1, t)
          BY <3>1, <5>1, Zenon DEF Within
        <5> QED
          BY <1>D, <5>2 DEF Latest
    <3>3. \A k \in 1..M : ~IsType(u[k])
      <4> SUFFICES ASSUME NEW k \in 1..M
                   PROVE  ~IsType(u[k])
        OBVIOUS
      <4>1. L + k \in (j + 1)..(L + M)
        BY <1>0, <2>2
      <4> QED
        BY <1>0, <2>1, <4>1
    <3> QED
      BY <1>D, <3>2, <3>3 DEF Says, IsType
  <2>3. CASE ~(j <= L)
    <3>1. j - L \in 1..M /\ u[j - L] = w[j]
      BY <1>0, <2>1, <2>3
    <3>2. ASSUME NEW k \in (j - L + 1)..M
          PROVE  ~IsType(u[k])
      <4>1. L + k \in (j + 1)..(L + M) /\ k \in 1..M
        BY <1>0, <2>1, <2>3
      <4> QED
        BY <1>0, <2>1, <4>1
    <3>3. Latest(u, t)
      <4> DEFINE J == j - L
      <4>1. M + 1 - 1 = M
        BY <1>0
      <4>2. J \in 1..M /\ IsType(u[J]) /\ u[J].type = t /\ \A k \in (J + 1)..M : ~IsType(u[k])
        BY <2>1, <3>1, <3>2
      <4> HIDE DEF J
      <4>3. \E j1 \in 1..(M + 1 - 1) : IsType(u[j1]) /\ u[j1].type = t
              /\ \A k \in (j1 + 1)..(M + 1 - 1) : ~IsType(u[k])
        BY <4>1, <4>2
      <4> QED
        BY <1>D, <4>3 DEF Latest, Within
    <3>4. Says(u, "_type")
      BY <1>D, <2>1, <3>1 DEF Says, IsType
    <3> QED
      BY <3>3, <3>4
  <2> QED
    BY <2>2, <2>3
<1>6. ASSUME NEW t, Latest(u, t)
      PROVE  Latest(w, t)
  <2>1. M + 1 \in 1..(M + 1) /\ L + (M + 1) = Len(w) + 1
    BY <1>0
  <2> QED
    BY <1>3, <1>6, <1>D, <2>1 DEF Latest
<1>7. ASSUME NEW t, Latest(s, t), ~Says(u, "_type")
      PROVE  Latest(w, t)
  <2>1. PICK j \in 1..L : IsType(s[j]) /\ s[j].type = t /\ \A k \in (j + 1)..L : ~IsType(s[k])
    <3>1. L + 1 - 1 = L
      BY <1>0
    <3>2. \E j \in 1..(L + 1 - 1) : IsType(s[j]) /\ s[j].type = t
            /\ \A k \in (j + 1)..(L + 1 - 1) : ~IsType(s[k])
      BY <1>7, <1>D DEF Latest, Within
    <3> QED
      BY <3>1, <3>2
  <2>2. \A k \in 1..M : ~IsType(u[k])
    BY <1>7, <1>D DEF Says, IsType
  <2>3. ASSUME NEW k \in (j + 1)..(L + M)
        PROVE  ~IsType(w[k])
    <3>1. CASE k <= L
      BY <1>0, <2>1, <3>1
    <3>2. CASE ~(k <= L)
      <4>1. k \in (L + 1)..(L + M)
        BY <1>0, <3>2
      <4> QED
        BY <1>0, <2>2, <4>1
    <3> QED
      BY <3>1, <3>2
  <2>4. j \in 1..(Len(w) + 1 - 1) /\ w[j] = s[j] /\ Len(w) + 1 - 1 = L + M
    BY <1>0
  <2> QED
    BY <2>1, <2>3, <2>4 DEF Latest, Within
<1>8. ASSUME NEW n
      PROVE  Says(w, n) <=> Says(s, n) \/ Says(u, n)
  <2>1. ASSUME Says(w, n) PROVE Says(s, n) \/ Says(u, n)
    <3>1. PICK i \in 1..(L + M) : w[i].node = n
      BY <1>0, <2>1 DEF Says
    <3>2. CASE i <= L
      BY <1>0, <1>D, <3>1, <3>2 DEF Says
    <3>3. CASE ~(i <= L)
      <4>1. i \in (L + 1)..(L + M)
        BY <1>0, <3>3
      <4> QED
        BY <1>0, <1>D, <3>1, <4>1 DEF Says
    <3> QED
      BY <3>2, <3>3
  <2>2. ASSUME Says(s, n) PROVE Says(w, n)
    <3>1. PICK i \in 1..L : s[i].node = n
      BY <1>D, <2>2 DEF Says
    <3>2. i \in 1..Len(w) /\ w[i].node = n
      BY <1>0, <3>1
    <3> QED
      BY <3>2 DEF Says
  <2>3. ASSUME Says(u, n) PROVE Says(w, n)
    <3>1. PICK i \in 1..M : u[i].node = n
      BY <1>D, <2>3 DEF Says
    <3>2. L + i \in 1..Len(w) /\ w[L + i].node = n
      BY <1>0, <3>1
    <3> QED
      BY <3>2 DEF Says
  <2> QED
    BY <2>1, <2>2, <2>3
<1>9. \A i \in 1..M : i \in 1..(M + 1)
  BY <1>0
<1> QED
  BY <1>1, <1>2, <1>3, <1>4, <1>5, <1>6, <1>7, <1>8, <1>9, <1>D

\* The values of an endpoint are those of its type's boxes, exclusive mode after the name.
LEMMA NodesFacts ==
  ASSUME NEW t \in Window!Type
  PROVE  /\ Window!NodesOf(t) \in Seq(Window!Node)
         /\ \A i \in 1..Len(Window!NodesOf(t)) : Window!BoxOf[Window!NodesOf(t)[i]] \in Window!BoxesOf(t)
         /\ \A i \in 1..Len(Window!NodesOf(t)) :
                Window!NodesOf(t)[i] = "exclusive" => \E j \in 1..(i - 1) : Window!NodesOf(t)[j] = "name"
         /\ Window!BoxesOf(t) \subseteq Window!Box
<1> USE DEF Window!NodesOf, Window!BoxesOf, Window!BoxOf, Window!Box, Window!Node, Window!Type
<1>1. CASE t = "Remote"
  BY <1>1
<1>2. CASE t = "Device"
  <2> DEFINE n == <<"name", "buffer", "rate", "exclusive">>
  <2>1. Window!NodesOf(t) = n /\ n \in Seq(Window!Node) /\ Len(n) = 4
          /\ Window!BoxesOf(t) = {"audio", "device"}
    BY <1>2
  <2>2. n[1] = "name" /\ n[2] = "buffer" /\ n[3] = "rate" /\ n[4] = "exclusive"
    OBVIOUS
  <2>3. \A i \in 1..4 : i = 1 \/ i = 2 \/ i = 3 \/ i = 4
    OBVIOUS
  <2>4. 1 \in 1..(4 - 1)
    OBVIOUS
  <2>5. \A i \in 1..4 : Window!BoxOf[n[i]] \in {"audio", "device"}
    BY <2>2, <2>3
  <2>6. \A i \in 1..4 : n[i] = "exclusive" => i = 4
    BY <2>2, <2>3
  <2>7. {"audio", "device"} \subseteq Window!Box
    OBVIOUS
  <2> HIDE DEF n, Window!NodesOf, Window!BoxesOf, Window!BoxOf, Window!Box, Window!Node, Window!Type
  <2> QED
    BY <2>1, <2>2, <2>4, <2>5, <2>6, <2>7
<1>3. CASE t \notin {"Remote", "Device"}
  BY <1>3
<1> QED
  BY <1>1, <1>2, <1>3

\* A message to a GUI tells a type, an enabling, a name or a value.
LEMMA MessageFacts ==
  ASSUME NEW m \in Messages
  PROVE  /\ IsType(m) => m.type \in Window!Type /\ ~IsNode(m)
         /\ \/ IsType(m) /\ m = Window!TypeMessage(m.type)
            \/ m.node = "enable" /\ m.on \in BOOLEAN /\ ~IsNode(m)
            \/ m.node = "name of the strip" /\ ~IsNode(m)
            \/ IsNode(m) /\ m.node # "_type" /\ m.node # "enable" /\ m.node # "name of the strip"
<1> USE DEF IsType, IsNode, Window!Node
<1>1. CASE \E t \in Window!Type : m = Window!TypeMessage(t)
  BY <1>1 DEF Window!TypeMessage
<1>2. CASE \E b \in BOOLEAN : m = Window!EnableMessage(b)
  <2>1. PICK b \in BOOLEAN : m = Window!EnableMessage(b)
    BY <1>2
  <2>2. m.node = "enable"
    BY <2>1 DEF Window!EnableMessage
  <2>3. m.on = b
    BY <2>1, Zenon DEF Window!EnableMessage
  <2> QED
    BY <2>2, <2>3
<1>3. CASE m = Window!NameMessage
  BY <1>3 DEF Window!NameMessage
<1>4. CASE \E n \in Window!Node : m = [node |-> n]
  <2>1. PICK n \in Window!Node : m = [node |-> n]
    BY <1>4
  <2>2. m.node \in Window!Node
    BY <2>1
  <2> QED
    BY <2>2
<1> QED
  BY <1>1, <1>2, <1>3, <1>4 DEF Messages

\* What a GUI asks for is a type or an enabling that there is.
LEMMA RequestFacts ==
  ASSUME NEW m \in Requests
  PROVE  /\ IsType(m) => m.type \in Window!Type
         /\ m.node = "enable" => m.on \in BOOLEAN
<1> USE DEF IsType
<1>1. CASE \E t \in Window!Type : m = Window!TypeMessage(t)
  BY <1>1 DEF Window!TypeMessage
<1>2. CASE \E b \in BOOLEAN : m = Window!EnableMessage(b)
  <2>1. PICK b \in BOOLEAN : m = Window!EnableMessage(b)
    BY <1>2
  <2>2. m.node = "enable"
    BY <2>1 DEF Window!EnableMessage
  <2>3. m.on = b
    BY <2>1, Zenon DEF Window!EnableMessage
  <2> QED
    BY <2>2, <2>3
<1>3. CASE m = Window!DumpMessage \/ m = [node |-> "keys"]
  BY <1>3 DEF Window!DumpMessage
<1> QED
  BY <1>1, <1>2, <1>3 DEF Requests

\* The orders of messages hold of two sequences put together.
LEMMA OrderedConcat ==
  ASSUME NEW s \in Seq(Messages), NEW u \in Seq(Messages)
  PROVE  /\ NameAfterEnable(s) /\ NameAfterEnable(u) => NameAfterEnable(s \o u)
         /\ ExclusiveAfterName(s) /\ ExclusiveAfterName(u) => ExclusiveAfterName(s \o u)
<1> DEFINE w == s \o u
           L == Len(s)
           M == Len(u)
<1>0. /\ L \in Nat /\ M \in Nat /\ Len(w) = L + M
      /\ \A i \in 1..L : w[i] = s[i]
      /\ \A i \in 1..M : w[L + i] = u[i]
  BY JoinedAre
<1>D. Len(s) = L /\ Len(u) = M /\ s \o u = w
  BY DEF L, M, w
<1> HIDE DEF w, L, M
<1>1. ASSUME NEW n, NEW b, Preceded(s, n, b), Preceded(u, n, b)
      PROVE  Preceded(w, n, b)
  <2> SUFFICES ASSUME NEW i \in 1..(L + M), w[i].node = n
               PROVE  \E j \in 1..(i - 1) : w[j].node = b
    BY <1>0 DEF Preceded
  <2>1. CASE i <= L
    <3>1. i \in 1..L /\ s[i].node = n
      BY <1>0, <2>1
    <3>2. PICK j \in 1..(i - 1) : s[j].node = b
      BY <1>1, <1>D, <3>1 DEF Preceded
    <3>3. j \in 1..L
      BY <1>0, <3>1
    <3> QED
      BY <1>0, <3>2, <3>3
  <2>2. CASE ~(i <= L)
    <3> DEFINE k == i - L
    <3>1. k \in 1..M /\ i = L + k
      BY <1>0, <2>2
    <3> HIDE DEF k
    <3>2. u[k].node = n
      BY <1>0, <3>1
    <3>3. PICK j \in 1..(k - 1) : u[j].node = b
      BY <1>1, <1>D, <3>1, <3>2 DEF Preceded
    <3>4. j \in 1..M /\ L + j \in 1..(i - 1)
      BY <1>0, <3>1
    <3>5. w[L + j].node = b
      BY <1>0, <3>3, <3>4
    <3> QED
      BY <3>4, <3>5
  <2> QED
    BY <2>1, <2>2
<1>2. Preceded(s, "name of the strip", "enable") /\ Preceded(u, "name of the strip", "enable")
        => Preceded(w, "name of the strip", "enable")
  BY <1>1
<1>3. Preceded(s, "exclusive", "name") /\ Preceded(u, "exclusive", "name")
        => Preceded(w, "exclusive", "name")
  BY <1>1
<1> QED
  BY <1>2, <1>3, <1>D DEF NameAfterEnable, ExclusiveAfterName

\* So does the rule that each value belongs to the type before or after it.
LEMMA BoxedConcat ==
  ASSUME NEW s \in Seq(Messages), NEW u \in Seq(Messages), NEW c
  PROVE  /\ Boxed(s, c) /\ Contained(u) => Boxed(s \o u, c)
         /\ Contained(s) /\ Contained(u) => Contained(s \o u)
<1> DEFINE w == s \o u
           L == Len(s)
           M == Len(u)
<1>0. /\ L \in Nat /\ M \in Nat /\ Len(w) = L + M
      /\ \A i \in 1..L : w[i] = s[i]
      /\ \A i \in 1..M : w[L + i] = u[i]
  BY JoinedAre
<1>A. /\ \A i \in 1..L : \A t : InForce(s, c, i, t) => InForce(w, c, i, t)
      /\ \A i \in 0..L : \A t : Upcoming(s, i, t) => Upcoming(w, i, t)
      /\ \A i \in 1..M : \A t : Within(u, i, t) => Within(w, L + i, t)
      /\ \A i \in 1..M : \A t : Upcoming(u, i, t) => Upcoming(w, L + i, t)
  BY Appended
<1>D. Len(s) = L /\ Len(u) = M /\ s \o u = w
  BY DEF L, M, w
<1> HIDE DEF w, L, M
<1>W. ASSUME NEW i \in 1..L, NEW t, Within(s, i, t)
      PROVE  Within(w, i, t)
  <2>1. PICK j \in 1..(i - 1) : IsType(s[j]) /\ s[j].type = t /\ \A k \in (j + 1)..(i - 1) : ~IsType(s[k])
    BY <1>W DEF Within
  <2>2. \A k \in 1..(i - 1) : w[k] = s[k]
    <3>1. L \in Nat
      BY <1>0
    <3>2. \A k \in 1..(i - 1) : k \in 1..L
      BY ONLY <3>1, i \in 1..L
    <3>3. \A k \in 1..L : w[k] = s[k]
      BY <1>0
    <3> QED
      BY ONLY <3>2, <3>3
  <2>3. \A k \in (j + 1)..(i - 1) : k \in 1..(i - 1)
    BY <1>0
  <2> QED
    BY <2>1, <2>2, <2>3 DEF Within
<1>1. ASSUME Contained(u), NEW i \in 1..(L + M), ~(i <= L), IsNode(w[i])
      PROVE  \E t \in Window!Type :
                 Window!BoxOf[w[i].node] \in Window!BoxesOf(t) /\ (Within(w, i, t) \/ Upcoming(w, i, t))
  <2> DEFINE k == i - L
  <2>1. k \in 1..M /\ i = L + k
    BY <1>0, <1>1
  <2> HIDE DEF k
  <2>2. w[i] = u[k]
    BY <1>0, <2>1
  <2>3. PICK t \in Window!Type : Window!BoxOf[u[k].node] \in Window!BoxesOf(t)
               /\ (Within(u, k, t) \/ Upcoming(u, k, t))
    BY <1>1, <1>D, <2>1, <2>2 DEF Contained
  <2> QED
    BY <1>A, <2>1, <2>2, <2>3
<1>2. ASSUME Boxed(s, c), Contained(u)
      PROVE  Boxed(w, c)
  <2> SUFFICES ASSUME NEW i \in 1..(L + M), IsNode(w[i])
               PROVE  \E t \in Window!Type :
                          Window!BoxOf[w[i].node] \in Window!BoxesOf(t)
                            /\ (InForce(w, c, i, t) \/ Upcoming(w, i, t))
    BY <1>0 DEF Boxed
  <2>1. CASE i <= L
    <3>1. i \in 1..L /\ i \in 0..L /\ w[i] = s[i]
      BY <1>0, <2>1
    <3>2. PICK t \in Window!Type : Window!BoxOf[s[i].node] \in Window!BoxesOf(t)
                 /\ (InForce(s, c, i, t) \/ Upcoming(s, i, t))
      BY <1>2, <1>D, <3>1 DEF Boxed
    <3> QED
      BY <1>A, <3>1, <3>2
  <2>2. CASE ~(i <= L)
    BY <1>1, <1>2, <2>2 DEF InForce
  <2> QED
    BY <2>1, <2>2
<1>3. ASSUME Contained(s), Contained(u)
      PROVE  Contained(w)
  <2> SUFFICES ASSUME NEW i \in 1..(L + M), IsNode(w[i])
               PROVE  \E t \in Window!Type :
                          Window!BoxOf[w[i].node] \in Window!BoxesOf(t)
                            /\ (Within(w, i, t) \/ Upcoming(w, i, t))
    BY <1>0 DEF Contained
  <2>1. CASE i <= L
    <3>1. i \in 1..L /\ i \in 0..L /\ w[i] = s[i]
      BY <1>0, <2>1
    <3>2. PICK t \in Window!Type : Window!BoxOf[s[i].node] \in Window!BoxesOf(t)
                 /\ (Within(s, i, t) \/ Upcoming(s, i, t))
      BY <1>3, <1>D, <3>1 DEF Contained
    <3> QED
      BY <1>A, <1>W, <3>1, <3>2
  <2>2. CASE ~(i <= L)
    BY <1>1, <1>3, <2>2
  <2> QED
    BY <2>1, <2>2
<1> QED
  BY <1>2, <1>3, <1>D

\* Each value of an endpoint of type t is told.
Covers(u, t) == \A i \in DOMAIN Window!NodesOf(t) : Says(u, Window!NodesOf(t)[i])

\* The messages of the server are messages.
LEMMA MessagesAre ==
  /\ \A t \in Window!Type : Window!TypeMessage(t) \in Messages /\ IsType(Window!TypeMessage(t))
       /\ Window!TypeMessage(t).type = t
                     /\ ~IsNode(Window!TypeMessage(t)) /\ Window!TypeMessage(t).node = "_type"
  /\ \A b \in BOOLEAN : Window!EnableMessage(b) \in Messages /\ ~IsType(Window!EnableMessage(b))
                        /\ ~IsNode(Window!EnableMessage(b)) /\ Window!EnableMessage(b).node = "enable"
  /\ Window!NameMessage \in Messages /\ ~IsType(Window!NameMessage) /\ ~IsNode(Window!NameMessage)
     /\ Window!NameMessage.node = "name of the strip"
<1>1. \A t \in Window!Type : Window!TypeMessage(t) \in Messages /\ IsType(Window!TypeMessage(t))
        /\ Window!TypeMessage(t).type = t
                     /\ ~IsNode(Window!TypeMessage(t)) /\ Window!TypeMessage(t).node = "_type"
  BY DEF Window!TypeMessage, Messages, IsType, IsNode, Window!Node
<1>2. \A b \in BOOLEAN : Window!EnableMessage(b) \in Messages /\ ~IsType(Window!EnableMessage(b))
                        /\ ~IsNode(Window!EnableMessage(b)) /\ Window!EnableMessage(b).node = "enable"
  <2> SUFFICES ASSUME NEW b \in BOOLEAN
               PROVE  Window!EnableMessage(b) \in Messages /\ ~IsType(Window!EnableMessage(b))
                        /\ ~IsNode(Window!EnableMessage(b)) /\ Window!EnableMessage(b).node = "enable"
    OBVIOUS
  <2>1. Window!EnableMessage(b) \in Messages
    BY Zenon DEF Messages
  <2>2. Window!EnableMessage(b).node = "enable"
    BY DEF Window!EnableMessage
  <2> QED
    BY <2>1, <2>2 DEF IsType, IsNode, Window!Node
<1>3. Window!NameMessage \in Messages /\ ~IsType(Window!NameMessage) /\ ~IsNode(Window!NameMessage)
     /\ Window!NameMessage.node = "name of the strip"
  BY DEF Window!NameMessage, Messages, IsType, IsNode, Window!Node
<1> QED
  BY <1>1, <1>2, <1>3

\* A message that is no value, told alone.
LEMMA Single ==
  ASSUME NEW m \in Messages, ~IsNode(m)
  PROVE  /\ <<m>> \in Seq(Messages) /\ Len(<<m>>) = 1 /\ <<m>>[1] = m
         /\ Contained(<<m>>) /\ ExclusiveAfterName(<<m>>)
         /\ m.node # "name of the strip" => NameAfterEnable(<<m>>)
         /\ \A t : Latest(<<m>>, t) => IsType(m) /\ m.type = t
         /\ \A n : Says(<<m>>, n) <=> m.node = n
<1> DEFINE u == <<m>>
<1>1. u \in Seq(Messages) /\ Len(u) = 1 /\ u[1] = m
  OBVIOUS
<1> HIDE DEF u
<1>2. \A i \in 1..Len(u) : u[i] = m
  BY <1>1
<1>3. m.node # "exclusive"
  BY DEF IsNode, Window!Node
<1>4. Contained(u) /\ ExclusiveAfterName(u)
  BY <1>2, <1>3 DEF Contained, ExclusiveAfterName, Preceded
<1>5. m.node # "name of the strip" => NameAfterEnable(u)
  BY <1>2 DEF NameAfterEnable, Preceded
<1>6. ASSUME NEW t, Latest(u, t)
      PROVE  IsType(m) /\ m.type = t
  <2>1. Len(u) + 1 - 1 = Len(u)
    BY <1>1
  <2>2. \E j \in 1..(Len(u) + 1 - 1) : IsType(u[j]) /\ u[j].type = t
    BY <1>6 DEF Latest, Within
  <2> QED
    BY <1>2, <2>1, <2>2
<1>7. ASSUME NEW n
      PROVE  Says(u, n) <=> m.node = n
  BY <1>1, <1>2 DEF Says
<1> QED
  BY <1>1, <1>4, <1>5, <1>6, <1>7 DEF u

\* The values that a new endpoint tells.
LEMMA NodeMessagesFacts ==
  ASSUME NEW t \in Window!Type
  PROVE  /\ Window!NodeMessages(t) \in Seq(Messages) /\ Len(Window!NodeMessages(t)) = Len(Window!NodesOf(t))
         /\ \A i \in 1..Len(Window!NodesOf(t)) : Window!NodeMessages(t)[i].node = Window!NodesOf(t)[i]
              /\ Window!NodesOf(t)[i] \in Window!Node
         /\ ExclusiveAfterName(Window!NodeMessages(t)) /\ NameAfterEnable(Window!NodeMessages(t))
         /\ Covers(Window!NodeMessages(t), t)
         /\ \A i \in 1..Len(Window!NodesOf(t)) : ~IsType(Window!NodeMessages(t)[i])
         /\ ~Says(Window!NodeMessages(t), "_type")
<1> DEFINE p == Window!NodesOf(t)
           q == Window!NodeMessages(t)
<1>1. /\ p \in Seq(Window!Node) /\ Len(p) \in Nat /\ DOMAIN p = 1..Len(p)
      /\ \A i \in 1..Len(p) : p[i] \in Window!Node
      /\ \A i \in 1..Len(p) : p[i] = "exclusive" => \E j \in 1..(i - 1) : p[j] = "name"
  BY NodesFacts, ElementOfSeq, LenProperties
<1> HIDE DEF p
<1>2. q = [i \in 1..Len(p) |-> [node |-> p[i]]]
  BY <1>1 DEF Window!NodeMessages, p
<1>3. \A n \in Window!Node : [node |-> n] \in Messages
  BY DEF Messages
<1>4. q \in Seq(Messages) /\ Len(q) = Len(p) /\ \A i \in 1..Len(p) : q[i].node = p[i]
  BY <1>1, <1>2, <1>3
<1> HIDE DEF q
<1>5. \A i \in 1..Len(p) : q[i].node \notin {"_type", "name of the strip"}
  BY <1>1, <1>4 DEF Window!Node
<1>6. ExclusiveAfterName(q)
  <2> SUFFICES ASSUME NEW i \in 1..Len(p), p[i] = "exclusive"
               PROVE  \E j \in 1..(i - 1) : q[j].node = "name"
    BY <1>4 DEF ExclusiveAfterName, Preceded
  <2>1. PICK j \in 1..(i - 1) : p[j] = "name"
    BY <1>1
  <2>2. j \in 1..Len(p)
    BY <1>1
  <2> QED
    BY <1>4, <2>1, <2>2
<1>7. NameAfterEnable(q)
  BY <1>4, <1>5 DEF NameAfterEnable, Preceded
<1>8. Covers(q, t)
  BY <1>1, <1>4 DEF Covers, Says, p
<1>9. \A i \in 1..Len(p) : ~IsType(q[i])
  BY <1>5 DEF IsType
<1> QED
  BY <1>1, <1>4, <1>6, <1>7, <1>8, <1>9 DEF p, q, Says, IsType

\* A chunk of messages that tells the type and the values of its endpoint.
Complete(u, t) ==
    /\ u \in Seq(Messages) /\ Contained(u) /\ ExclusiveAfterName(u) /\ NameAfterEnable(u)
    /\ \A x : Latest(u, x) => x = t
    /\ Says(u, "_type") /\ Covers(u, t)

\* What is told when a type is set: the values of the new endpoint, then its type.
LEMMA Changed ==
  ASSUME NEW t \in Window!Type
  PROVE  Complete(Window!NodeMessages(t) \o <<Window!TypeMessage(t)>>, t)
<1> DEFINE q == Window!NodeMessages(t)
           m == Window!TypeMessage(t)
           w == q \o <<m>>
           L == Len(q)
<1>1. m \in Messages /\ IsType(m) /\ m.type = t /\ ~IsNode(m) /\ m.node = "_type"
  BY MessagesAre
<1>2. /\ q \in Seq(Messages) /\ L = Len(Window!NodesOf(t)) /\ ExclusiveAfterName(q) /\ NameAfterEnable(q)
      /\ \A i \in 1..L : q[i].node = Window!NodesOf(t)[i]
      /\ \A i \in 1..L : ~IsType(q[i])
      /\ \A i \in 1..L : Window!BoxOf[q[i].node] \in Window!BoxesOf(t)
      /\ Covers(q, t)
  BY NodeMessagesFacts, NodesFacts
<1> HIDE DEF q, m
<1>3. /\ <<m>> \in Seq(Messages) /\ Len(<<m>>) = 1 /\ <<m>>[1] = m
      /\ ExclusiveAfterName(<<m>>) /\ NameAfterEnable(<<m>>)
      /\ \A x : Latest(<<m>>, x) => x = t
      /\ \A n : Says(<<m>>, n) <=> m.node = n
  BY <1>1, Single
<1>4. /\ w \in Seq(Messages) /\ L \in Nat /\ Len(w) = L + 1
      /\ \A i \in 1..L : w[i] = q[i]
      /\ w[L + 1] = m
  BY <1>2, <1>3, JoinedAre
<1>5. ExclusiveAfterName(w) /\ NameAfterEnable(w)
  BY <1>2, <1>3, OrderedConcat
<1>6. /\ \A x : Latest(w, x) => x = t
      /\ Says(w, "_type") /\ Covers(w, t)
  <2>1. /\ \A x : Latest(w, x) => IF Says(<<m>>, "_type") THEN Latest(<<m>>, x) ELSE Latest(q, x)
        /\ \A n : Says(w, n) <=> Says(q, n) \/ Says(<<m>>, n)
    BY <1>2, <1>3, Appended
  <2> HIDE DEF w
  <2> QED
    BY <1>1, <1>2, <1>3, <2>1 DEF Covers
<1> HIDE DEF w, L
<1>7. Contained(w)
  <2> SUFFICES ASSUME NEW i \in 1..(L + 1), IsNode(w[i])
               PROVE  Window!BoxOf[w[i].node] \in Window!BoxesOf(t) /\ Upcoming(w, i, t)
    BY <1>4 DEF Contained
  <2>1. i \in 1..L
    BY <1>1, <1>4
  <2>2. L + 1 \in (i + 1)..Len(w) /\ IsType(w[L + 1]) /\ w[L + 1].type = t
    BY <1>1, <1>4
  <2>3. \A k \in (i + 1)..((L + 1) - 1) : ~IsType(w[k])
    BY <1>2, <1>4
  <2>4. Upcoming(w, i, t)
    BY <2>2, <2>3 DEF Upcoming
  <2> QED
    BY <1>2, <1>4, <2>1, <2>4
<1> QED
  BY <1>4, <1>5, <1>6, <1>7 DEF Complete, w, q, m

\* What a dump tells: the type, the values of its endpoint, the enabling and the name.
LEMMA Dumped ==
  ASSUME NEW t \in Window!Type, NEW b \in BOOLEAN
  PROVE  Complete(<<Window!TypeMessage(t)>> \o Window!NodeMessages(t)
           \o <<Window!EnableMessage(b), Window!NameMessage>>, t)
<1> DEFINE q == Window!NodeMessages(t)
           m == Window!TypeMessage(t)
           v == <<m>> \o q
           o == Window!EnableMessage(b)
           e == <<o, Window!NameMessage>>
           w == v \o e
           L == Len(q)
<1>1. m \in Messages /\ IsType(m) /\ m.type = t /\ ~IsNode(m) /\ m.node = "_type"
  BY MessagesAre
<1>2. /\ q \in Seq(Messages) /\ L = Len(Window!NodesOf(t)) /\ ExclusiveAfterName(q) /\ NameAfterEnable(q)
      /\ \A i \in 1..L : q[i].node = Window!NodesOf(t)[i]
      /\ \A i \in 1..L : ~IsType(q[i])
      /\ \A i \in 1..L : Window!BoxOf[q[i].node] \in Window!BoxesOf(t)
      /\ Covers(q, t) /\ ~Says(q, "_type")
  BY NodeMessagesFacts, NodesFacts
<1>3. /\ o \in Messages /\ ~IsType(o) /\ ~IsNode(o) /\ o.node = "enable"
      /\ Window!NameMessage \in Messages /\ ~IsType(Window!NameMessage) /\ ~IsNode(Window!NameMessage)
      /\ Window!NameMessage.node = "name of the strip"
  BY MessagesAre
<1> HIDE DEF q, m, o
<1>4. /\ <<m>> \in Seq(Messages) /\ Len(<<m>>) = 1 /\ <<m>>[1] = m
      /\ ExclusiveAfterName(<<m>>) /\ NameAfterEnable(<<m>>)
      /\ \A x : Latest(<<m>>, x) => x = t
      /\ \A n : Says(<<m>>, n) <=> m.node = n
  BY <1>1, Single
<1>5. /\ e \in Seq(Messages) /\ Contained(e) /\ ExclusiveAfterName(e) /\ NameAfterEnable(e)
      /\ ~Says(e, "_type")
  <2>1. e \in Seq(Messages) /\ Len(e) = 2 /\ e[1] = o /\ e[2] = Window!NameMessage
    <3>1. \A x, y \in Messages : <<x, y>> \in Seq(Messages) 
      OBVIOUS
    <3>2. \A x, y : Len(<<x, y>>) = 2 /\ <<x, y>>[1] = x /\ <<x, y>>[2] = y
      OBVIOUS
    <3> QED
      BY <1>3, <3>1, <3>2, Zenon
  <2> HIDE DEF e
  <2>2. \A i \in 1..2 : i = 1 \/ i = 2
    OBVIOUS
  <2>3. 1 \in 1..(2 - 1)
    OBVIOUS
  <2>4. NameAfterEnable(e)
    BY <1>3, <2>1, <2>2, <2>3 DEF NameAfterEnable, Preceded
  <2>5. ExclusiveAfterName(e) /\ ~Says(e, "_type")
    BY <1>3, <2>1, <2>2 DEF ExclusiveAfterName, Preceded, Says
  <2>6. Contained(e)
    BY <1>3, <2>1, <2>2 DEF Contained
  <2> QED
    BY <2>1, <2>4, <2>5, <2>6
<1> HIDE DEF e
<1>6. /\ v \in Seq(Messages) /\ L \in Nat /\ Len(v) = 1 + L
      /\ v[1] = m
      /\ \A i \in 1..L : v[1 + i] = q[i]
  <2>1. 1 \in 1..1
    OBVIOUS
  <2> QED
    BY <1>2, <1>4, <2>1, JoinedAre
<1>7. /\ \A x : Latest(v, x) => x = t
      /\ Says(v, "_type") /\ Covers(v, t)
  <2>1. /\ \A x : Latest(v, x) => IF Says(q, "_type") THEN Latest(q, x) ELSE Latest(<<m>>, x)
        /\ \A n : Says(v, n) <=> Says(<<m>>, n) \/ Says(q, n)
    BY <1>2, <1>4, Appended
  <2> HIDE DEF v
  <2> QED
    BY <1>1, <1>2, <1>4, <2>1 DEF Covers
<1>8. ExclusiveAfterName(v) /\ NameAfterEnable(v)
  BY <1>2, <1>4, OrderedConcat
<1> HIDE DEF v, L
<1>9. Contained(v)
  <2> SUFFICES ASSUME NEW i \in 1..(1 + L), IsNode(v[i])
               PROVE  Window!BoxOf[v[i].node] \in Window!BoxesOf(t) /\ Within(v, i, t)
    BY <1>6 DEF Contained
  <2>1. i # 1
    BY <1>1, <1>6
  <2> DEFINE h == i - 1
  <2>2. h \in 1..L /\ i = 1 + h
    BY <1>6, <2>1
  <2>3. ASSUME NEW k \in (1 + 1)..h
        PROVE  ~IsType(v[k])
    <3>1. k - 1 \in 1..L /\ 1 + (k - 1) = k
      BY <1>6, <2>2
    <3> QED
      BY <1>2, <1>6, <3>1
  <2>4. 1 \in 1..h /\ IsType(v[1]) /\ v[1].type = t /\ h = i - 1
    BY <1>1, <1>6, <2>2
  <2>5. Within(v, i, t)
    BY <2>3, <2>4 DEF Within
  <2> HIDE DEF h
  <2> QED
    BY <1>2, <1>6, <2>2, <2>5
<1>10. /\ w \in Seq(Messages) /\ Contained(w) /\ ExclusiveAfterName(w) /\ NameAfterEnable(w)
  BY <1>5, <1>6, <1>8, <1>9, OrderedConcat, BoxedConcat, JoinedAre
<1>11. /\ \A x : Latest(w, x) => x = t
       /\ Says(w, "_type") /\ Covers(w, t)
  <2>1. /\ \A x : Latest(w, x) => IF Says(e, "_type") THEN Latest(e, x) ELSE Latest(v, x)
        /\ \A n : Says(w, n) <=> Says(v, n) \/ Says(e, n)
    BY <1>5, <1>6, Appended
  <2> HIDE DEF w
  <2> QED
    BY <1>5, <1>7, <2>1 DEF Covers
<1> QED
  BY <1>10, <1>11 DEF Complete, w, v, e, q, m, o

\* What is told of a strip that is made.
LEMMA CreatedComplete == Complete(Window!Created, "None")
<1> DEFINE o == Window!EnableMessage(FALSE)
           m == Window!TypeMessage("None")
           w == <<o, m, Window!NameMessage>>
<1>1. /\ o \in Messages /\ ~IsType(o) /\ ~IsNode(o) /\ o.node = "enable"
      /\ m \in Messages /\ IsType(m) /\ ~IsNode(m) /\ m.node = "_type" /\ m.type = "None"
      /\ Window!NameMessage \in Messages /\ ~IsType(Window!NameMessage) /\ ~IsNode(Window!NameMessage)
      /\ Window!NameMessage.node = "name of the strip"
  BY MessagesAre DEF Window!Type
<1> HIDE DEF o, m
<1>2. w \in Seq(Messages) /\ Len(w) = 3 /\ w[1] = o /\ w[2] = m /\ w[3] = Window!NameMessage
  <2>1. \A x, y, z \in Messages : <<x, y, z>> \in Seq(Messages)
    OBVIOUS
  <2>2. \A x, y, z : Len(<<x, y, z>>) = 3 /\ <<x, y, z>>[1] = x /\ <<x, y, z>>[2] = y /\ <<x, y, z>>[3] = z
    OBVIOUS
  <2> QED
    BY <1>1, <2>1, <2>2, Zenon
<1> HIDE DEF w
<1>3. \A i \in 1..3 : i = 1 \/ i = 2 \/ i = 3
  OBVIOUS
<1>4. Contained(w) /\ ExclusiveAfterName(w)
  BY <1>1, <1>2, <1>3 DEF Contained, ExclusiveAfterName, Preceded
<1>5. NameAfterEnable(w)
  <2>1. 1 \in 1..(3 - 1)
    OBVIOUS
  <2> QED
    BY <1>1, <1>2, <1>3, <2>1 DEF NameAfterEnable, Preceded
<1>6. Says(w, "_type")
  <2>1. 2 \in 1..3
    OBVIOUS
  <2> QED
    BY <1>1, <1>2, <2>1 DEF Says
<1>7. ASSUME NEW x, Latest(w, x)
      PROVE  x = "None"
  <2>1. Len(w) + 1 - 1 = 3
    BY <1>2
  <2>2. \E j \in 1..(Len(w) + 1 - 1) : IsType(w[j]) /\ w[j].type = x
    BY <1>7 DEF Latest, Within
  <2> QED
    BY <1>1, <1>2, <1>3, <2>1, <2>2
<1>8. Covers(w, "None")
  BY DEF Covers, Window!NodesOf
<1> QED
  BY <1>2, <1>4, <1>5, <1>6, <1>7, <1>8 DEF Complete, Window!Created, w, o, m

\* A chunk that tells a type may follow another one, or be followed by an enabling.
LEMMA CompleteConcat ==
  ASSUME NEW a, NEW t, NEW u, Complete(u, a), NEW v, v \in Seq(Messages)
  PROVE  /\ Complete(v, t) => Complete(u \o v, t)
         /\ Contained(v) /\ ExclusiveAfterName(v) /\ NameAfterEnable(v) /\ ~Says(v, "_type")
              => Complete(u \o v, a)
<1>1. u \in Seq(Messages)
  BY DEF Complete
<1>2. u \o v \in Seq(Messages)
  BY <1>1, JoinedAre
<1>3. /\ \A x : Latest(u \o v, x) => IF Says(v, "_type") THEN Latest(v, x) ELSE Latest(u, x)
      /\ \A n : Says(u \o v, n) <=> Says(u, n) \/ Says(v, n)
  BY <1>1, Appended
<1>4. ASSUME Contained(v), ExclusiveAfterName(v), NameAfterEnable(v)
      PROVE  Contained(u \o v) /\ ExclusiveAfterName(u \o v) /\ NameAfterEnable(u \o v)
  BY <1>1, <1>4, OrderedConcat, BoxedConcat DEF Complete
<1> QED
  BY <1>2, <1>3, <1>4, Zenon DEF Complete, Covers

Strip == [exists : BOOLEAN, type : Window!Type, enabled : BOOLEAN, running : BOOLEAN, fresh : BOOLEAN]

\* A strip that was never given a type has none.
ServerOK ==
    /\ server \in Strip
    /\ server.fresh => server.type = "None"
    /\ ~server.exists => server = [Window!Fresh EXCEPT !.exists = FALSE]

\* What the server says fits what the strip becomes.
Answers(u, s, z) ==
    /\ u \in Seq(Messages) /\ Contained(u) /\ ExclusiveAfterName(u)
    /\ \A x : Latest(u, x) => x = z.type
    /\ (s.type = z.type /\ s.exists = z.exists /\ s.fresh = z.fresh) \/ Complete(u, z.type)

\* No message.
LEMMA Nothing ==
  /\ <<>> \in Seq(Messages) /\ Contained(<<>>) /\ ExclusiveAfterName(<<>>) /\ NameAfterEnable(<<>>)
  /\ \A x : ~Latest(<<>>, x)
  /\ \A n : ~Says(<<>>, n)
  /\ \A i, t : ~Upcoming(<<>>, 0, t)
  /\ \A c : Boxed(<<>>, c)
<1> DEFINE w == <<>>
<1>1. w \in Seq(Messages) /\ Len(w) = 0
  OBVIOUS
<1>2. \A i \in 1..0 : FALSE
  OBVIOUS
<1>3. Len(w) + 1 - 1 = 0 /\ 0 + 1 = 1
  BY <1>1
<1> HIDE DEF w
<1>4. Contained(w) /\ ExclusiveAfterName(w) /\ NameAfterEnable(w)
  BY <1>1, <1>2 DEF Contained, ExclusiveAfterName, NameAfterEnable, Preceded
<1>5. \A x : ~Latest(w, x)
  BY <1>2, <1>3 DEF Latest, Within
<1>6. (\A n : ~Says(w, n)) /\ (\A i, t : ~Upcoming(w, 0, t)) /\ (\A c : Boxed(w, c))
  BY <1>1, <1>2, <1>3 DEF Says, Upcoming, Boxed
<1> QED
  BY <1>1, <1>4, <1>5, <1>6 DEF w

\* What the server says when a type is set fits what the strip becomes; its enabling stays.
LEMMA SetTypeAnswers ==
  ASSUME ServerOK, windowDown \in Seq(Messages), NEW t \in Window!Type, Window!SetType(t)
  PROVE  /\ server' \in Strip /\ ServerOK'
         /\ server.exists => server'.enabled = server.enabled /\ server'.running = server.running
         /\ ~server.exists => ~server'.enabled
         /\ server'.exists
         /\ \E u : /\ Window!Broadcast(u) /\ Answers(u, server, server') /\ NameAfterEnable(u)
                   /\ Says(u, "_type") \/ (server.exists /\ t = server.type /\ ~server.fresh)
<1> USE DEF ServerOK
<1>1. /\ Window!Reached \in Strip /\ Window!Reached.exists /\ (server.exists => Window!Reached = server)
      /\ (~server.exists => Window!Reached = Window!Fresh) /\ Window!Fresh \in Strip /\ Window!Fresh.exists
           /\ ~Window!Fresh.enabled
      /\ ~Window!Fresh.running /\ Window!Fresh.fresh
           /\ (Window!Reached.fresh => Window!Reached.type = "None")
  BY DEF Window!Reached, Window!Fresh, Strip, Window!Type
<1>2. CASE t = Window!Reached.type /\ ~Window!Reached.fresh
  <2>1. server' = server /\ windowDown' = windowDown
    BY <1>2 DEF Window!SetType
  <2>2. server.exists /\ t = server.type /\ ~server.fresh
    BY <1>1, <1>2
  <2>3. Window!Broadcast(<<>>)
    BY <2>1, ConcatEmptySeq DEF Window!Broadcast
  <2>4. Answers(<<>>, server, server') /\ NameAfterEnable(<<>>)
    BY <2>1, Nothing DEF Answers
  <2> QED
    BY <2>1, <2>2, <2>3, <2>4
<1>3. CASE ~(t = Window!Reached.type /\ ~Window!Reached.fresh) /\ Window!Reached.running
  <2>1. server' = server /\ Window!Broadcast(<<Window!TypeMessage(server.type)>>)
    BY <1>3 DEF Window!SetType
  <2>2. server.exists
    BY <1>1, <1>3
  <2>3. server.type \in Window!Type
    BY DEF Strip
  <2>4. /\ Window!TypeMessage(server.type) \in Messages /\ ~IsNode(Window!TypeMessage(server.type))
        /\ Window!TypeMessage(server.type).node = "_type"
             /\ Window!TypeMessage(server.type).type = server.type
    BY <2>3, MessagesAre
  <2> DEFINE m == Window!TypeMessage(server.type)
  <2>7. m \in Messages /\ ~IsNode(m) /\ m.node = "_type" /\ m.type = server.type
    BY <2>4
  <2> HIDE DEF m
  <2>5. /\ <<m>> \in Seq(Messages) /\ Contained(<<m>>) /\ ExclusiveAfterName(<<m>>)
             /\ NameAfterEnable(<<m>>)
        /\ \A x : Latest(<<m>>, x) => x = server.type
        /\ Says(<<m>>, "_type")
    <3>1. m.type \in Window!Type
      BY <2>3, <2>7
    <3> QED
      BY ONLY <2>7, <3>1, Single
  <2>6. Answers(<<m>>, server, server')
    BY <2>1, <2>5 DEF Answers
  <2> QED
    BY <2>1, <2>2, <2>5, <2>6 DEF m
<1>4. CASE ~(t = Window!Reached.type /\ ~Window!Reached.fresh) /\ ~Window!Reached.running
  <2> DEFINE v == Window!NodeMessages(t) \o <<Window!TypeMessage(t)>>
             u == Window!Making \o Window!NodeMessages(t) \o <<Window!TypeMessage(t)>>
  <2>1. server' = [Window!Reached EXCEPT !.type = t, !.fresh = FALSE] /\ Window!Broadcast(u)
    BY <1>4 DEF Window!SetType
  <2>2. /\ server' \in Strip /\ server'.exists /\ server'.type = t /\ ~server'.fresh
        /\ server'.enabled = Window!Reached.enabled /\ server'.running = Window!Reached.running
    BY <1>1, <2>1 DEF Strip
  <2>3. Complete(v, t)
    BY Changed
  <2>4. Complete(u, t)
    <3>1. CASE server.exists
      <4>1. Window!Making = <<>> /\ Window!NodeMessages(t) \in Seq(Messages)
        BY <3>1, NodeMessagesFacts DEF Window!Making
      <4>2. <<>> \o Window!NodeMessages(t) = Window!NodeMessages(t)
        BY <4>1, ConcatEmptySeq
      <4> QED
        BY <2>3, <4>1, <4>2
    <3>2. CASE ~server.exists
      <4>1. Window!Making = Window!Created /\ Window!Created \in Seq(Messages) /\ v \in Seq(Messages)
        BY <2>3, <3>2, CreatedComplete DEF Window!Making, Complete
      <4>2. Window!TypeMessage(t) \in Messages /\ Window!NodeMessages(t) \in Seq(Messages)
        BY MessagesAre, NodeMessagesFacts
      <4>3. <<Window!TypeMessage(t)>> \in Seq(Messages)
        BY <4>2
      <4>4. u = Window!Created \o v
        BY <4>1, <4>2, <4>3, ConcatAssociative
      <4>5. Complete(Window!Created \o v, t)
        BY <2>3, <4>1, CreatedComplete, CompleteConcat
      <4> QED
        BY <4>4, <4>5
    <3> QED
      BY <3>1, <3>2
  <2> HIDE DEF u, v
  <2>5. Answers(u, server, server') /\ NameAfterEnable(u) /\ Says(u, "_type")
    BY <2>2, <2>4 DEF Answers, Complete
  <2>6. ServerOK'
    BY <2>2
  <2> QED
    BY <1>1, <2>1, <2>2, <2>5, <2>6
<1> QED
  BY <1>2, <1>3, <1>4

\* The same when it is enabled or disabled; only a request enables it.
LEMMA SetEnableAnswers ==
  ASSUME ServerOK, windowDown \in Seq(Messages), NEW on \in BOOLEAN, Window!SetEnable(on)
  PROVE  /\ server' \in Strip /\ ServerOK'
         /\ server'.exists
         /\ server'.enabled => on \/ server.enabled
         /\ \E u : /\ Window!Broadcast(u) /\ Answers(u, server, server') /\ NameAfterEnable(u)
                   /\ Says(u, "_type") \/ server.exists
<1> USE DEF ServerOK
<1>1. /\ Window!Reached \in Strip /\ Window!Reached.exists /\ (server.exists => Window!Reached = server)
      /\ (~server.exists => Window!Reached = Window!Fresh) /\ Window!Fresh \in Strip /\ Window!Fresh.exists
           /\ ~Window!Fresh.enabled
      /\ ~Window!Fresh.running /\ Window!Fresh.fresh /\ Window!Fresh.type = "None"
           /\ (Window!Reached.fresh => Window!Reached.type = "None")
  BY DEF Window!Reached, Window!Fresh, Strip, Window!Type
<1>S. /\ server'.exists /\ server'.type = Window!Reached.type /\ server'.fresh = Window!Reached.fresh
      /\ server' \in Strip
  <2>1. ASSUME NEW started \in BOOLEAN,
               server' = [Window!Reached EXCEPT !.enabled = on, !.running = on /\ started]
        PROVE  /\ server'.exists /\ server'.type = Window!Reached.type
                    /\ server'.fresh = Window!Reached.fresh
               /\ server' \in Strip
    <3>1. (on /\ started) \in BOOLEAN
      OBVIOUS
    <3> DEFINE z == on /\ started
    <3> HIDE DEF z
    <3>2. server' = [Window!Reached EXCEPT !.enabled = on, !.running = z] /\ z \in BOOLEAN
      BY <2>1, <3>1 DEF z
    <3> QED
      BY <1>1, <3>2 DEF Strip
  <2>2. server' = Window!Reached \/ \E started \in BOOLEAN :
               server' = [Window!Reached EXCEPT !.enabled = on, !.running = on /\ started]
    BY Zenon DEF Window!SetEnable
  <2> QED
    BY <1>1, <2>1, <2>2
<1>E. server'.enabled => on \/ Window!Reached.enabled
  <2>1. ASSUME NEW started \in BOOLEAN,
               server' = [Window!Reached EXCEPT !.enabled = on, !.running = on /\ started]
        PROVE  server'.enabled = on
    BY <1>1, <2>1 DEF Strip
  <2>2. server' = Window!Reached \/ \E started \in BOOLEAN :
               server' = [Window!Reached EXCEPT !.enabled = on, !.running = on /\ started]
    BY Zenon DEF Window!SetEnable
  <2> QED
    BY <2>1, <2>2
<1>T. ServerOK'
  BY <1>1, <1>S
<1>2. \E e : /\ Window!Broadcast(Window!Making \o e) /\ e \in Seq(Messages) /\ Contained(e)
                  /\ ExclusiveAfterName(e)
             /\ NameAfterEnable(e) /\ ~Says(e, "_type") /\ (\A x : ~Latest(e, x))
  <2>1. ASSUME NEW b \in BOOLEAN, Window!Broadcast(Window!Making \o <<Window!EnableMessage(b)>>)
        PROVE  \E e : /\ Window!Broadcast(Window!Making \o e) /\ e \in Seq(Messages) /\ Contained(e)
                           /\ ExclusiveAfterName(e)
                      /\ NameAfterEnable(e) /\ ~Says(e, "_type") /\ (\A x : ~Latest(e, x))
    <3> DEFINE m == Window!EnableMessage(b)
    <3>1. m \in Messages /\ ~IsType(m) /\ ~IsNode(m) /\ m.node = "enable"
      BY MessagesAre
    <3>2. Window!Broadcast(Window!Making \o <<m>>)
      BY <2>1
    <3> HIDE DEF m
    <3>3. /\ <<m>> \in Seq(Messages) /\ Contained(<<m>>) /\ ExclusiveAfterName(<<m>>)
               /\ NameAfterEnable(<<m>>)
          /\ ~Says(<<m>>, "_type") /\ \A x : ~Latest(<<m>>, x)
      BY <3>1, Single
    <3> QED
      BY <3>2, <3>3
  <2>2. CASE Window!Broadcast(Window!Making)
    <3>1. Window!Making \in Seq(Messages)
      BY Nothing, CreatedComplete DEF Window!Making, Complete
    <3>2. Window!Making \o <<>> = Window!Making
      BY <3>1, ConcatEmptySeq
    <3>3. Window!Broadcast(Window!Making \o <<>>)
      BY <2>2, <3>2
    <3> QED
      BY <3>3, Nothing
  <2>3. Window!Broadcast(Window!Making)
          \/ \E b \in BOOLEAN : Window!Broadcast(Window!Making \o <<Window!EnableMessage(b)>>)
    BY Zenon DEF Window!SetEnable
  <2> QED
    BY <2>1, <2>2, <2>3
<1>3. PICK e : /\ Window!Broadcast(Window!Making \o e) /\ e \in Seq(Messages) /\ Contained(e)
                    /\ ExclusiveAfterName(e)
               /\ NameAfterEnable(e) /\ ~Says(e, "_type") /\ (\A x : ~Latest(e, x))
  BY <1>2
<1>4. CASE server.exists
  <2>1. Window!Making \o e = e
    BY <1>3, <1>4, ConcatEmptySeq DEF Window!Making
  <2>2. Answers(e, server, server')
    BY <1>1, <1>3, <1>4, <1>S DEF Answers
  <2> QED
    BY <1>1, <1>3, <1>4, <1>S, <1>E, <1>T, <2>1, <2>2
<1>5. CASE ~server.exists
  <2>1. Window!Making = Window!Created
    BY <1>5 DEF Window!Making
  <2>2. Complete(Window!Created \o e, "None")
    BY <1>3, CreatedComplete, CompleteConcat
  <2>3. server'.type = "None"
    BY <1>1, <1>5, <1>S
  <2>4. Answers(Window!Created \o e, server, server') /\ NameAfterEnable(Window!Created \o e)
          /\ Says(Window!Created \o e, "_type")
    BY <2>2, <2>3 DEF Answers, Complete
  <2>5. Window!Broadcast(Window!Created \o e)
    BY <1>3, <2>1
  <2>6. server'.enabled => on
    BY <1>1, <1>5, <1>E
  <2> QED
    BY <1>S, <1>T, <2>4, <2>5, <2>6
<1> QED
  BY <1>4, <1>5

\* What is on its way is lost when the connection ends.
Sent ==
    /\ windowUp \in Seq(Requests) /\ windowDown \in Seq(Messages)
    /\ ~windowConnected => windowUp = <<>> /\ windowDown = <<>>

\* A name is told after an enabling; nobody asked for an enabling yet unless a user did.
EnableInv ==
    /\ ~early => ~enable.default \/ NameAfterEnable(windowDown)
    /\ ~asked /\ ~early => /\ ~server.enabled
                           /\ \A i \in 1..Len(windowUp) : windowUp[i].node = "enable" => ~windowUp[i].on

\* The boxes are those of the type or the next type told is another one.
BoxesInv ==
    /\ Window!BoxesOf(type) \subseteq shown
    /\ "exclusive" \in shown /\ ~windows => "name" \in shown
    /\ "name" \in shown \/ ExclusiveAfterName(windowDown)
    /\ ~raced => /\ Boxed(windowDown, type)
                 /\ shown \cap Window!Box \subseteq Window!BoxesOf(type)
                      \/ \E t \in Window!Type \ {type} : Upcoming(windowDown, 0, t)

\* The server's type is on its way, or known, or a request for another one is.
TypeInv ==
    windowConnected /\ server.exists =>
        /\ \A t : Latest(windowDown, t) => t = server.type
        /\ ~Says(windowDown, "_type") /\ ~Says(windowUp, "dump") =>
               \/ type = server.type
               \/ \E t : Latest(windowUp, t) /\ (t # server.type \/ server.fresh)

\* Each value of the endpoint is shown or on its way.
NodesInv ==
    windowConnected /\ server.exists /\ ~Says(windowUp, "dump") =>
        \A i \in DOMAIN Window!NodesOf(server.type) :
            Window!NodesOf(server.type)[i] # "exclusive" =>
                Window!NodesOf(server.type)[i] \in shown \/ Says(windowDown, Window!NodesOf(server.type)[i])

WInv == Window!TypeOK /\ ServerOK /\ Sent /\ EnableInv /\ BoxesInv /\ TypeInv /\ NodesInv

\* What the server says keeps what is known of types and boxes.
LEMMA Say ==
  ASSUME ServerOK, Sent, BoxesInv, TypeInv, NodesInv, NEW u, Answers(u, server, server'),
           Window!Broadcast(u),
         UNCHANGED <<windowConnected, windows, type, shown, raced>>, windowUp' \in Seq(Requests),
         \/ Says(u, "_type")
         \/ \A t : Latest(windowUp, t) /\ (t # server.type \/ server.fresh) => Latest(windowUp', t),
         Says(windowUp, "dump") => Says(windowUp', "dump") \/ Complete(u, server'.type) \/ ~server'.exists
  PROVE  windowDown' \in Seq(Messages) /\ BoxesInv' /\ TypeInv' /\ NodesInv'
<1>1. CASE ~windowConnected
  <2>1. windowDown' = windowDown /\ ~windowConnected'
    BY <1>1 DEF Window!Broadcast
  <2>2. BoxesInv'
    BY <2>1 DEF BoxesInv
  <2> QED
    BY <2>1, <2>2 DEF TypeInv, NodesInv, Sent
<1>2. CASE windowConnected
  <2>1. /\ windowDown' = windowDown \o u /\ windowConnected' /\ u \in Seq(Messages) /\ Contained(u)
             /\ ExclusiveAfterName(u)
        /\ windowDown \in Seq(Messages)
    BY <1>2 DEF Window!Broadcast, Answers, Sent
  <2>2. /\ windowDown' \in Seq(Messages)
        /\ \A t : Upcoming(windowDown, 0, t) => Upcoming(windowDown', 0, t)
        /\ \A t : Latest(windowDown', t) => IF Says(u, "_type") THEN Latest(u, t) ELSE Latest(windowDown, t)
        /\ \A n : Says(windowDown', n) <=> Says(windowDown, n) \/ Says(u, n)
    <3>1. Len(windowDown) \in Nat /\ 0 \in 0..Len(windowDown)
      BY <2>1, LenProperties
    <3>2. \A t : Upcoming(windowDown, 0, t) => Upcoming(windowDown \o u, 0, t)
      BY <2>1, <3>1, Appended
    <3>3. /\ \A t : Latest(windowDown \o u, t) => IF Says(u, "_type") THEN Latest(u, t)
               ELSE Latest(windowDown, t)
          /\ \A n : Says(windowDown \o u, n) <=> Says(windowDown, n) \/ Says(u, n)
      BY <2>1, Appended
    <3> QED
      BY <2>1, <3>2, <3>3, JoinedAre
  <2>3. BoxesInv'
    <3>1. Boxed(windowDown, type) => Boxed(windowDown \o u, type)
      BY <2>1, BoxedConcat
    <3>2. ExclusiveAfterName(windowDown) => ExclusiveAfterName(windowDown \o u)
      BY <2>1, OrderedConcat
    <3> QED
      BY <2>1, <2>2, <3>1, <3>2 DEF BoxesInv
  <2>4. CASE Complete(u, server'.type)
    <3>1. Says(u, "_type") /\ Covers(u, server'.type) /\ \A t : Latest(u, t) => t = server'.type
      BY <2>4 DEF Complete
    <3> QED
      BY <2>1, <2>2, <2>3, <3>1 DEF TypeInv, NodesInv, Covers
  <2>5. CASE ~Complete(u, server'.type)
    <3>1. /\ server'.type = server.type /\ server'.exists = server.exists /\ server'.fresh = server.fresh
          /\ \A t : Latest(u, t) => t = server.type
      BY <2>5 DEF Answers
    <3>2. server.exists => (Says(windowUp, "dump") => Says(windowUp', "dump"))
      BY <2>5, <3>1
    <3>3. TypeInv'
      <4> SUFFICES ASSUME server.exists
                   PROVE  /\ \A t : Latest(windowDown', t) => t = server.type
                          /\ ~Says(windowDown', "_type") /\ ~Says(windowUp', "dump") =>
                                \/ type = server.type
                                \/ \E t : Latest(windowUp', t) /\ (t # server.type \/ server.fresh)
        BY <3>1 DEF TypeInv
      <4>1. /\ \A t : Latest(windowDown, t) => t = server.type
            /\ ~Says(windowDown, "_type") /\ ~Says(windowUp, "dump") =>
                   \/ type = server.type
                   \/ \E t : Latest(windowUp, t) /\ (t # server.type \/ server.fresh)
        BY <1>2 DEF TypeInv
      <4> QED
        BY <2>2, <3>1, <3>2, <4>1
    <3>4. NodesInv'
      BY <1>2, <2>1, <2>2, <3>1, <3>2 DEF NodesInv
    <3> QED
      BY <2>2, <2>3, <3>3, <3>4
  <2> QED
    BY <2>4, <2>5
<1> QED
  BY <1>1, <1>2

\* What is known of messages stays so for the rest when the first is received.
LEMMA Heard ==
  ASSUME NEW s \in Seq(Messages), s # <<>>, NEW c, NEW d,
         IF IsType(s[1]) THEN d = s[1].type ELSE d = c
  PROVE  /\ Boxed(s, c) => Boxed(Tail(s), d)
         /\ \A n, b : Preceded(s, n, b) /\ s[1].node # b => Preceded(Tail(s), n, b) /\ s[1].node # n
<1> DEFINE r == Tail(s)
<1>1. /\ Len(s) \in Nat \ {0} /\ Len(r) = Len(s) - 1
      /\ \A i \in 1..Len(r) : r[i] = s[i + 1]
  BY RestOf
<1>2. /\ \A i \in 1..Len(r) : \A t : InForce(s, c, i + 1, t) => InForce(r, d, i, t)
      /\ \A i \in 1..Len(r) : \A t : Upcoming(s, i + 1, t) => Upcoming(r, i, t)
  BY Received
<1> HIDE DEF r
<1>3. ASSUME Boxed(s, c)
      PROVE  Boxed(r, d)
  <2> SUFFICES ASSUME NEW i \in 1..Len(r), IsNode(r[i])
               PROVE  \E t \in Window!Type :
                          Window!BoxOf[r[i].node] \in Window!BoxesOf(t)
                            /\ (InForce(r, d, i, t) \/ Upcoming(r, i, t))
    BY DEF Boxed
  <2>1. i + 1 \in 1..Len(s) /\ r[i] = s[i + 1]
    BY <1>1
  <2> DEFINE k == i + 1
  <2>2. k \in 1..Len(s) /\ r[i] = s[k]
    BY <2>1
  <2>3. \A t : (InForce(s, c, k, t) => InForce(r, d, i, t)) /\ (Upcoming(s, k, t) => Upcoming(r, i, t))
    BY <1>2
  <2> HIDE DEF k
  <2>4. PICK t \in Window!Type : Window!BoxOf[s[k].node] \in Window!BoxesOf(t)
               /\ (InForce(s, c, k, t) \/ Upcoming(s, k, t))
    BY <1>3, <2>2 DEF Boxed
  <2> QED
    BY <2>2, <2>3, <2>4
<1>4. ASSUME NEW n, NEW b, Preceded(s, n, b), s[1].node # b
      PROVE  Preceded(r, n, b) /\ s[1].node # n
  <2>1. 1 \in 1..Len(s) /\ \A j \in 1..(1 - 1) : FALSE
    BY <1>1
  <2>2. s[1].node # n
    BY <1>4, <2>1 DEF Preceded
  <2>3. ASSUME NEW i \in 1..Len(r), r[i].node = n
        PROVE  \E j \in 1..(i - 1) : r[j].node = b
    <3> DEFINE k == i + 1
    <3>1. k \in 1..Len(s) /\ r[i] = s[k] /\ k - 1 = i
      BY <1>1
    <3> HIDE DEF k
    <3>2. PICK j \in 1..(k - 1) : s[j].node = b
      BY <1>4, <2>3, <3>1 DEF Preceded
    <3>3. j # 1
      BY <1>4, <3>2
    <3>4. j - 1 \in 1..(i - 1) /\ j - 1 \in 1..Len(r) /\ (j - 1) + 1 = j
      BY <1>1, <3>1, <3>2, <3>3
    <3>5. r[j - 1].node = b
      BY <1>1, <3>2, <3>4
    <3> QED
      BY <3>4, <3>5
  <2> QED
    BY <2>2, <2>3 DEF Preceded
<1> QED
  BY <1>3, <1>4 DEF r

\* The boxes after a type was told are those of the type.
LEMMA BoxesFollow ==
  ASSUME NEW t \in Window!Type, "exclusive" \in shown /\ ~windows => "name" \in shown, windows \in BOOLEAN
  PROVE  /\ Window!GroupBoxes(t, shown) \cap Window!Box = Window!BoxesOf(t)
         /\ "exclusive" \in Window!GroupBoxes(t, shown) => windows
         /\ \A n \in Window!Node \ {"exclusive"} : n \in Window!GroupBoxes(t, shown) <=> n \in shown
         /\ shown \subseteq Window!Node \cup Window!Box
              => Window!GroupBoxes(t, shown) \subseteq Window!Node \cup Window!Box
<1> DEFINE boxes == (shown \ Window!Box) \cup Window!BoxesOf(t)
<1>1. /\ Window!BoxesOf(t) \subseteq Window!Box /\ \A n \in Window!Node : n \notin Window!Box
      /\ "exclusive" \in Window!Node /\ "name" \in Window!Node /\ "name" # "exclusive"
      /\ Window!BoxOf["exclusive"] = "device" /\ Window!BoxOf["name"] = "device" /\ "device" \in Window!Box
      /\ t # "Device" => "device" \notin Window!BoxesOf(t)
  BY NodesFacts DEF Window!Node, Window!Box, Window!BoxOf, Window!BoxesOf, Window!Type
<1>2. /\ boxes \cap Window!Box = Window!BoxesOf(t)
      /\ \A n \in Window!Node : n \in boxes <=> n \in shown
      /\ shown \subseteq Window!Node \cup Window!Box => boxes \subseteq Window!Node \cup Window!Box
  BY <1>1
<1> HIDE DEF boxes
<1>3. Window!GroupBoxes(t, shown) = IF t = "Device" /\ windows THEN boxes \cup {"exclusive"}
                             ELSE Window!HiddenWith("exclusive", boxes)
  BY DEF Window!GroupBoxes, boxes
<1>4. CASE t = "Device" /\ windows
  BY <1>1, <1>2, <1>3, <1>4
<1>5. CASE ~(t = "Device" /\ windows)
  <2> DEFINE rest == boxes \ {"exclusive"}
             g == Window!GroupBoxes(t, shown)
  <2>1. g = rest \/ (g = rest \ {"device"} /\ "exclusive" \in boxes /\ "name" \notin rest)
    BY <1>1, <1>3, <1>5 DEF Window!HiddenWith
  <2>2. "exclusive" \notin Window!Box /\ "device" \notin Window!Node
    BY <1>1
  <2>3. g = rest \ {"device"} /\ "exclusive" \in boxes /\ "name" \notin rest
          => "device" \notin Window!BoxesOf(t)
    BY <1>1, <1>2, <1>5
  <2>4. rest \cap Window!Box = Window!BoxesOf(t)
    BY <1>2, <2>2
  <2> HIDE DEF g
  <2> QED
    BY <1>1, <1>2, <2>1, <2>2, <2>3, <2>4 DEF g
<1> QED
  BY <1>4, <1>5

\* What a GUI's message of no type leaves known.
LEMMA Asked ==
  ASSUME NEW s \in Seq(Requests), NEW m \in Requests
  PROVE  /\ Append(s, m) \in Seq(Requests)
         /\ \A n : Says(Append(s, m), n) <=> Says(s, n) \/ m.node = n
         /\ ~IsType(m) => \A t : Latest(s, t) => Latest(Append(s, m), t)
         /\ IsType(m) => Latest(Append(s, m), m.type)
         /\ (\A i \in 1..Len(s) : s[i].node = "enable" => ~s[i].on) /\ (m.node = "enable" => ~m.on)
              => \A i \in 1..Len(Append(s, m)) : Append(s, m)[i].node = "enable" => ~Append(s, m)[i].on
<1> DEFINE u == <<m>>
           w == Append(s, m)
<1>1. u \in Seq(Requests) /\ Len(u) = 1 /\ u[1] = m
  OBVIOUS
<1>2. /\ w \in Seq(Requests) /\ w = s \o u /\ Len(s) \in Nat /\ Len(w) = Len(s) + 1 /\ w[Len(s) + 1] = m
      /\ \A i \in 1..Len(s) : w[i] = s[i]
  BY AppendProperties, AppendIsConcat, LenProperties
<1> HIDE DEF u, w
<1>3. \A n : Says(u, n) <=> m.node = n
  BY <1>1 DEF Says
<1>4. IsType(m) => Latest(u, m.type)
  <2>1. Len(u) + 1 - 1 = 1 /\ 1 \in 1..1 /\ \A k \in (1 + 1)..1 : FALSE
    BY <1>1
  <2>2. IsType(m) => \E j \in 1..1 : IsType(u[j]) /\ u[j].type = m.type
          /\ \A k \in (j + 1)..1 : ~IsType(u[k])
    BY <1>1, <2>1
  <2>3. IsType(m) => \E j \in 1..(Len(u) + 1 - 1) :
            IsType(u[j]) /\ u[j].type = m.type /\ \A k \in (j + 1)..(Len(u) + 1 - 1) : ~IsType(u[k])
    BY <2>1, <2>2
  <2> QED
    BY <2>3 DEF Latest, Within
<1>5. /\ \A t : Latest(u, t) => Latest(w, t)
      /\ \A t : Latest(s, t) /\ ~Says(u, "_type") => Latest(w, t)
      /\ \A n : Says(w, n) <=> Says(s, n) \/ Says(u, n)
  BY <1>1, <1>2, Appended
<1>6. (\A i \in 1..Len(s) : s[i].node = "enable" => ~s[i].on) /\ (m.node = "enable" => ~m.on)
              => \A i \in 1..Len(w) : w[i].node = "enable" => ~w[i].on
  <2>1. \A i \in 1..Len(w) : i \in 1..Len(s) \/ i = Len(s) + 1
    BY <1>2
  <2> HIDE DEF w
  <2> QED
    BY <1>2, <2>1, Zenon
<1> QED
  BY <1>2, <1>3, <1>4, <1>5, <1>6 DEF w, IsType

\* A step of the server keeps the types of the GUI's variables.
LEMMA ServerTypes ==
  ASSUME Window!TypeOK, server' \in Strip, UNCHANGED <<windowConnected, Window!gui, asked, early, raced>>
  PROVE  Window!TypeOK'
BY Zenon DEF Window!TypeOK, Strip, Window!gui, Window!widgets

\* The server handles a message of the GUI.
LEMMA ServerReceiveKeeps ==
  ASSUME WInv, Window!ServerReceive
  PROVE  WInv'
<1> USE DEF WInv
<1>1. /\ windowUp \in Seq(Requests) /\ windowDown \in Seq(Messages) /\ windowUp # <<>>
           /\ windowUp' = Tail(windowUp) /\ windowConnected
  BY DEF Sent, Window!ServerReceive
<1>2. /\ UNCHANGED <<windowConnected, Window!gui, asked, early, raced, Window!bounds>>
      /\ UNCHANGED <<windows, type, shown, enable>>
  BY DEF Window!ServerReceive, Window!gui, Window!widgets
<1> DEFINE m == Head(windowUp)
<1>3. /\ Len(windowUp) \in Nat \ {0} /\ m = windowUp[1] /\ m \in Requests /\ windowUp' \in Seq(Requests)
      /\ Len(windowUp') = Len(windowUp) - 1 /\ \A i \in 1..Len(windowUp') : windowUp'[i] = windowUp[i + 1]
  BY <1>1, RestOf
<1>4. /\ \A t : Latest(windowUp, t) /\ ~(IsType(m) /\ m.type = t) => Latest(windowUp', t)
      /\ \A n : Says(windowUp, n) => m.node = n \/ Says(windowUp', n)
  <2>1. \E d : IF IsType(windowUp[1]) THEN d = windowUp[1].type ELSE d = type
    OBVIOUS
  <2>2. PICK d : IF IsType(windowUp[1]) THEN d = windowUp[1].type ELSE d = type
    BY <2>1
  <2>3. /\ \A t : Latest(windowUp, t) /\ ~(IsType(windowUp[1]) /\ windowUp[1].type = t)
             => Latest(Tail(windowUp), t)
        /\ \A n : Says(windowUp, n) => windowUp[1].node = n \/ Says(Tail(windowUp), n)
    BY <1>1, <2>2, Received
  <2> QED
    BY <1>1, <1>3, <2>3
<1>5. /\ IsType(m) => m.type \in Window!Type
      /\ m.node = "enable" => m.on \in BOOLEAN
  BY <1>3, RequestFacts
<1>6. ~asked /\ ~early => \A i \in 1..Len(windowUp') : windowUp'[i].node = "enable" => ~windowUp'[i].on
  <2>1. \A i \in 1..Len(windowUp') : i + 1 \in 1..Len(windowUp)
    BY <1>3
  <2>2. ASSUME ~asked, ~early, NEW i \in 1..Len(windowUp'), windowUp'[i].node = "enable"
        PROVE  ~windowUp'[i].on
    <3>1. windowUp'[i] = windowUp[i + 1] /\ i + 1 \in 1..Len(windowUp)
      BY <1>3, <2>1
    <3> QED
      BY <2>2, <3>1, Zenon DEF EnableInv
  <2> QED
    BY <2>2, Zenon
<1>7. m.node = "enable" /\ ~asked /\ ~early => ~m.on
  <2>1. 1 \in 1..Len(windowUp)
    BY <1>3
  <2> QED
    BY <1>3, <2>1, Zenon DEF EnableInv
<1> HIDE DEF m
<1>8. /\ server' \in Strip /\ ServerOK'
      /\ ~asked /\ ~early => ~server'.enabled
      /\ \E u : /\ Answers(u, server, server') /\ NameAfterEnable(u) /\ Window!Broadcast(u)
                /\ \/ Says(u, "_type")
                   \/ ~IsType(m)
                   \/ server.exists /\ m.type = server.type /\ ~server.fresh
                /\ m.node = "dump" => Complete(u, server'.type) \/ ~server'.exists
  <2> USE DEF ServerOK
  <2>1. CASE m.node = "dump"
    <3>1. Window!Broadcast(Window!DumpOf(server)) /\ server' = server
      BY <2>1 DEF Window!ServerReceive, m
    <3>2. CASE server.exists
      <4>1. server.type \in Window!Type /\ server.enabled \in BOOLEAN
        BY DEF Strip
      <4> DEFINE b == server.enabled
      <4> HIDE DEF b
      <4>2. Complete(<<Window!TypeMessage(server.type)>> \o Window!NodeMessages(server.type)
              \o <<Window!EnableMessage(b), Window!NameMessage>>, server.type)
        BY <4>1, Dumped DEF b
      <4>3. Complete(Window!DumpOf(server), server.type)
        BY <3>2, <4>2 DEF Window!DumpOf, b
      <4> QED
        BY <3>1, <4>3, Zenon DEF Answers, Complete, EnableInv
    <3>3. CASE ~server.exists
      <4>1. Window!DumpOf(server) = <<>>
        BY <3>3 DEF Window!DumpOf
      <4>2. Answers(<<>>, server, server') /\ NameAfterEnable(<<>>)
        BY <3>1, Nothing DEF Answers
      <4>3. ~IsType(m)
        BY <2>1 DEF IsType
      <4> QED
        BY <3>1, <3>3, <4>1, <4>2, <4>3, Zenon DEF EnableInv
    <3> QED
      BY <3>2, <3>3
  <2>2. CASE m.node = "keys"
    <3>1. ~IsType(m) /\ m.node # "dump"
      BY <2>2 DEF IsType
    <3>2. CASE server.exists
      <4>1. server' = server /\ windowDown' = windowDown
        BY <2>2, <3>2 DEF Window!ServerReceive, m
      <4>2. Window!Broadcast(<<>>)
        BY <1>1, <4>1, ConcatEmptySeq DEF Window!Broadcast
      <4>3. Answers(<<>>, server, server') /\ NameAfterEnable(<<>>)
        BY <4>1, Nothing DEF Answers
      <4> QED
        BY <3>1, <4>1, <4>2, <4>3, Zenon DEF EnableInv
    <3>3. CASE ~server.exists
      <4>1. server' = Window!Fresh /\ Window!Broadcast(Window!Created)
        BY <2>2, <3>3 DEF Window!ServerReceive, m
      <4>2. Window!Fresh \in Strip /\ Window!Fresh.type = "None" /\ ~Window!Fresh.enabled
              /\ Window!Fresh.exists
        BY DEF Window!Fresh, Strip, Window!Type
      <4>3. Answers(Window!Created, server, server') /\ NameAfterEnable(Window!Created)
              /\ Says(Window!Created, "_type")
        BY <4>1, <4>2, CreatedComplete DEF Answers, Complete
      <4> QED
        BY <3>1, <4>1, <4>2, <4>3
    <3> QED
      BY <3>2, <3>3
  <2>3. CASE m.node = "_type"
    <3>1. m.type \in Window!Type /\ Window!SetType(m.type) /\ m.node # "dump"
      BY <1>5, <2>3 DEF Window!ServerReceive, m, IsType
    <3>2. /\ server' \in Strip /\ ServerOK'
          /\ server.exists => server'.enabled = server.enabled
          /\ ~server.exists => ~server'.enabled
          /\ \E u : /\ Window!Broadcast(u) /\ Answers(u, server, server') /\ NameAfterEnable(u)
                    /\ Says(u, "_type") \/ (server.exists /\ m.type = server.type /\ ~server.fresh)
      BY <1>1, <3>1, SetTypeAnswers
    <3>3. ~asked /\ ~early => ~server'.enabled
      BY <3>2, Zenon DEF EnableInv
    <3> QED
      BY <3>1, <3>2, <3>3
  <2>4. CASE m.node = "enable"
    <3>1. m.on \in BOOLEAN /\ Window!SetEnable(m.on) /\ m.node # "dump" /\ ~IsType(m)
      BY <1>5, <2>4 DEF Window!ServerReceive, m, IsType
    <3>2. /\ server' \in Strip /\ ServerOK'
          /\ server'.enabled => m.on \/ server.enabled
          /\ \E u : Window!Broadcast(u) /\ Answers(u, server, server') /\ NameAfterEnable(u)
      <4> DEFINE on == m.on
      <4>1. on \in BOOLEAN /\ Window!SetEnable(on)
        BY <3>1
      <4> HIDE DEF on
      <4>2. /\ server' \in Strip /\ ServerOK'
            /\ server'.enabled => on \/ server.enabled
            /\ \E u : Window!Broadcast(u) /\ Answers(u, server, server') /\ NameAfterEnable(u)
        BY <1>1, <4>1, SetEnableAnswers
      <4> QED
        BY <4>2 DEF on
    <3>3. ~asked /\ ~early => ~server'.enabled
      BY <1>7, <2>4, <3>2, Zenon DEF EnableInv
    <3> QED
      BY <3>1, <3>2, <3>3
  <2> QED
    BY <2>1, <2>2, <2>3, <2>4 DEF Window!ServerReceive, m
<1>9. PICK u : /\ Answers(u, server, server') /\ NameAfterEnable(u) /\ Window!Broadcast(u)
               /\ \/ Says(u, "_type")
                  \/ ~IsType(m)
                  \/ server.exists /\ m.type = server.type /\ ~server.fresh
               /\ m.node = "dump" => Complete(u, server'.type) \/ ~server'.exists
  BY <1>8
<1>10. windowDown' \in Seq(Messages) /\ BoxesInv' /\ TypeInv' /\ NodesInv'
  <2>1. \/ Says(u, "_type")
        \/ \A t : Latest(windowUp, t) /\ (t # server.type \/ server.fresh) => Latest(windowUp', t)
    BY <1>4, <1>9
  <2>2. Says(windowUp, "dump") => Says(windowUp', "dump") \/ Complete(u, server'.type) \/ ~server'.exists
    BY <1>4, <1>9
  <2> QED
    BY <1>2, <1>3, <1>9, <2>1, <2>2, Say
<1>11. EnableInv'
  <2>1. windowDown' = windowDown \o u /\ u \in Seq(Messages)
    BY <1>1, <1>9 DEF Window!Broadcast, Answers
  <2>2. NameAfterEnable(windowDown) => NameAfterEnable(windowDown')
    BY <1>1, <1>9, <2>1, OrderedConcat
  <2> QED
    BY <1>2, <1>6, <1>8, <2>2, Zenon DEF EnableInv
<1>12. Window!TypeOK'
  BY <1>2, <1>8, ServerTypes
<1>13. Sent'
  BY <1>1, <1>2, <1>3, <1>10 DEF Sent
<1> QED
  BY <1>8, <1>10, <1>11, <1>12, <1>13

\* Another client sets the type or the name of the strip.
LEMMA ClientKeeps ==
  ASSUME WInv, NEW t \in Window!Type, Window!ClientSetsType(t) \/ Window!ClientSetsName
  PROVE  WInv'
<1> USE DEF WInv
<1>1. /\ UNCHANGED <<windowUp, windowConnected, Window!gui, asked, raced>> /\ windowUp' \in Seq(Requests)
      /\ UNCHANGED <<windows, type, shown, enable>>
      /\ windowDown \in Seq(Messages) /\ server.exists
  BY DEF Sent, Window!ClientSetsType, Window!ClientSetsName, Window!gui, Window!widgets
<1>2. /\ server' \in Strip /\ ServerOK' /\ early' \in BOOLEAN
      /\ server'.enabled = server.enabled /\ (early => early')
      /\ \E u : /\ Window!Broadcast(u) /\ Answers(u, server, server')
                /\ NameAfterEnable(u) \/ early' \/ ~windowConnected \/ ~enable.default
  <2>1. CASE Window!ClientSetsType(t)
    <3>1. /\ server' \in Strip /\ ServerOK'
          /\ server.exists => server'.enabled = server.enabled
          /\ \E u : Window!Broadcast(u) /\ Answers(u, server, server') /\ NameAfterEnable(u)
      BY <1>1, <2>1, SetTypeAnswers DEF Window!ClientSetsType
    <3>2. early' = early
      BY <2>1 DEF Window!ClientSetsType
    <3>3. early' \in BOOLEAN
      BY <3>2, Zenon DEF Window!TypeOK
    <3> QED
      BY <1>1, <3>1, <3>2, <3>3
  <2>2. CASE Window!ClientSetsName
    <3>1. server' = server /\ Window!Broadcast(<<Window!NameMessage>>)
            /\ early' = (early \/ (windowConnected /\ enable.default))
      BY <2>2 DEF Window!ClientSetsName
    <3>2. Window!NameMessage \in Messages /\ ~IsNode(Window!NameMessage) /\ ~IsType(Window!NameMessage)
      BY MessagesAre
    <3>3. /\ <<Window!NameMessage>> \in Seq(Messages) /\ Contained(<<Window!NameMessage>>)
          /\ ExclusiveAfterName(<<Window!NameMessage>>) /\ \A x : ~Latest(<<Window!NameMessage>>, x)
      BY <3>2, Single
    <3>4. Answers(<<Window!NameMessage>>, server, server')
      BY <3>1, <3>3 DEF Answers
    <3>5. early' \in BOOLEAN /\ (early => early') /\ (early' \/ ~windowConnected \/ ~enable.default)
      BY <3>1, Zenon
    <3> QED
      BY <3>1, <3>4, <3>5 DEF ServerOK
  <2> QED
    BY <2>1, <2>2
<1>3. PICK u : /\ Window!Broadcast(u) /\ Answers(u, server, server')
               /\ NameAfterEnable(u) \/ early' \/ ~windowConnected \/ ~enable.default
  BY <1>2
<1>4. windowDown' \in Seq(Messages) /\ BoxesInv' /\ TypeInv' /\ NodesInv'
  <2>1. \A x : Latest(windowUp, x) /\ (x # server.type \/ server.fresh) => Latest(windowUp', x)
    BY <1>1
  <2>2. Says(windowUp, "dump") => Says(windowUp', "dump") \/ Complete(u, server'.type) \/ ~server'.exists
    BY <1>1
  <2> QED
    BY <1>1, <1>3, <2>1, <2>2, Say
<1>5. EnableInv'
  <2>1. u \in Seq(Messages) /\ (windowDown' = windowDown \/ windowDown' = windowDown \o u)
        /\ (~windowConnected => windowDown' = windowDown)
    BY <1>3 DEF Window!Broadcast, Answers
  <2>2. NameAfterEnable(windowDown) /\ NameAfterEnable(u) => NameAfterEnable(windowDown')
    BY <1>1, <2>1, OrderedConcat
  <2>3. ~early' => ~enable'.default \/ NameAfterEnable(windowDown')
    BY <1>1, <1>2, <1>3, <2>1, <2>2, Zenon DEF EnableInv
  <2> QED
    BY <1>1, <1>2, <2>3, Zenon DEF EnableInv
<1>6. Window!TypeOK'
  BY <1>1, <1>2, Zenon DEF Window!TypeOK, Strip, Window!gui, Window!widgets
<1>7. Sent'
  BY <1>1, <1>3, <1>4 DEF Sent, Window!Broadcast
<1> QED
  BY <1>2, <1>4, <1>5, <1>6, <1>7

\* The messages of a GUI are requests.
LEMMA RequestsAre ==
  /\ \A t \in Window!Type : Window!TypeMessage(t) \in Requests /\ IsType(Window!TypeMessage(t))
       /\ Window!TypeMessage(t).type = t
                     /\ Window!TypeMessage(t).node = "_type"
  /\ \A b \in BOOLEAN : Window!EnableMessage(b) \in Requests /\ ~IsType(Window!EnableMessage(b))
                        /\ Window!EnableMessage(b).node = "enable" /\ Window!EnableMessage(b).on = b
  /\ [node |-> "keys"] \in Requests /\ ~IsType([node |-> "keys"])
  /\ Window!DumpMessage \in Requests /\ ~IsType(Window!DumpMessage) /\ Window!DumpMessage.node = "dump"
<1>1. \A t \in Window!Type : Window!TypeMessage(t) \in Requests /\ IsType(Window!TypeMessage(t))
        /\ Window!TypeMessage(t).type = t
                     /\ Window!TypeMessage(t).node = "_type"
  BY DEF Window!TypeMessage, Requests, IsType
<1>2. ASSUME NEW b \in BOOLEAN
      PROVE  Window!EnableMessage(b) \in Requests /\ ~IsType(Window!EnableMessage(b))
             /\ Window!EnableMessage(b).node = "enable" /\ Window!EnableMessage(b).on = b
  <2>1. Window!EnableMessage(b) \in Requests
    BY Zenon DEF Requests
  <2>2. Window!EnableMessage(b).node = "enable"
    BY DEF Window!EnableMessage
  <2>3. Window!EnableMessage(b).on = b
    BY Zenon DEF Window!EnableMessage
  <2> QED
    BY <2>1, <2>2, <2>3 DEF IsType
<1>3. [node |-> "keys"] \in Requests /\ ~IsType([node |-> "keys"])
  BY DEF Requests, IsType
<1>4. Window!DumpMessage \in Requests /\ ~IsType(Window!DumpMessage) /\ Window!DumpMessage.node = "dump"
  BY DEF Requests, IsType, Window!DumpMessage
<1> QED
  BY <1>1, <1>2, <1>3, <1>4

\* The GUI receives a value, a type, an enabling or a name.
LEMMA GuiReceiveKeeps ==
  ASSUME WInv, Window!GuiReceive
  PROVE  WInv'
<1> USE DEF WInv
<1>1. /\ windowUp \in Seq(Requests) /\ windowDown \in Seq(Messages) /\ windowDown # <<>>
           /\ windowDown' = Tail(windowDown) /\ windowConnected
  BY DEF Sent, Window!GuiReceive
<1>2. UNCHANGED <<server, windowConnected, windows, showDisabled, asked, early, raced, Window!bounds>>
                  /\ present' = TRUE
  BY DEF Window!GuiReceive
<1> DEFINE m == Head(windowDown)
<1>3. /\ Len(windowDown) \in Nat \ {0} /\ m = windowDown[1] /\ m \in Messages
           /\ windowDown' \in Seq(Messages)
  BY <1>1, RestOf
<1>4. /\ IsType(m) => m.type \in Window!Type /\ ~IsNode(m)
      /\ \/ IsType(m)
         \/ m.node = "enable" /\ m.on \in BOOLEAN /\ ~IsNode(m)
         \/ m.node = "name of the strip" /\ ~IsNode(m)
         \/ IsNode(m) /\ m.node # "_type" /\ m.node # "enable" /\ m.node # "name of the strip"
  BY <1>3, MessageFacts
<1>5. /\ IsType(m) => m.node = "_type"
      /\ ~IsType(m) => m.node # "_type"
      /\ IsNode(m) => m.node \in Window!Node
      /\ "name" \in Window!Node /\ "exclusive" \in Window!Node
  BY DEF IsType, IsNode, Window!Node
<1> DEFINE d == IF IsType(m) THEN m.type ELSE type
<1>6. /\ Boxed(windowDown, type) => Boxed(windowDown', d)
      /\ \A n, b : Preceded(windowDown, n, b) /\ m.node # b => Preceded(windowDown', n, b) /\ m.node # n
      /\ \A i \in 1..Len(windowDown') : \A t : Upcoming(windowDown, i + 1, t) => Upcoming(windowDown', i, t)
      /\ \A t : Upcoming(windowDown, 0, t) => IF IsType(m) THEN t = m.type ELSE Upcoming(windowDown', 0, t)
      /\ \A t : Latest(windowDown', t) => Latest(windowDown, t)
      /\ IsType(m) /\ ~Says(windowDown', "_type") => Latest(windowDown, m.type)
      /\ \A n : Says(windowDown, n) => m.node = n \/ Says(windowDown', n)
      /\ \A n : Says(windowDown', n) => Says(windowDown, n)
  <2>1. IF IsType(windowDown[1]) THEN d = windowDown[1].type ELSE d = type
    BY <1>3
  <2> HIDE DEF d, m
  <2> QED
    BY <1>1, <1>3, <2>1, Heard, Received
<1>7. \A t : Upcoming(windowDown, 1, t) => Upcoming(windowDown', 0, t)
  <2> SUFFICES ASSUME NEW t, Upcoming(windowDown, 1, t)
               PROVE  Upcoming(windowDown', 0, t)
    OBVIOUS
  <2> DEFINE r == windowDown'
  <2>1. /\ Len(r) = Len(windowDown) - 1 /\ \A i \in 1..Len(r) : r[i] = windowDown[i + 1]
    BY <1>1, RestOf
  <2> HIDE DEF r
  <2>2. PICK j \in (1 + 1)..Len(windowDown) : /\ IsType(windowDown[j]) /\ windowDown[j].type = t
                                        /\ \A k \in (1 + 1)..(j - 1) : ~IsType(windowDown[k])
    BY DEF Upcoming
  <2> DEFINE h == j - 1
  <2>3. h \in (0 + 1)..Len(r) /\ r[h] = windowDown[j] /\ j = h + 1 /\ j - 1 = h
    BY <1>3, <2>1, <2>2
  <2> HIDE DEF h
  <2>4. \A k \in (0 + 1)..(h - 1) : ~IsType(r[k])
    <3> SUFFICES ASSUME NEW k \in (0 + 1)..(h - 1)
                 PROVE  ~IsType(r[k])
      OBVIOUS
    <3>1. k \in 1..Len(r) /\ k + 1 \in (1 + 1)..(j - 1)
      BY <1>3, <2>1, <2>3
    <3> QED
      BY <2>1, <2>2, <3>1
  <2>5. Upcoming(r, 0, t)
    BY <2>2, <2>3, <2>4 DEF Upcoming
  <2> QED
    BY <2>5 DEF r
<1>8. /\ Window!BoxesOf(type) \subseteq shown
      /\ "exclusive" \in shown /\ ~windows => "name" \in shown
      /\ "name" \in shown \/ ExclusiveAfterName(windowDown)
      /\ ~raced => /\ Boxed(windowDown, type)
                   /\ shown \cap Window!Box \subseteq Window!BoxesOf(type)
                        \/ \E t \in Window!Type \ {type} : Upcoming(windowDown, 0, t)
  BY DEF BoxesInv
<1>9. /\ server.exists => \A t : Latest(windowDown, t) => t = server.type
      /\ server.exists /\ ~Says(windowDown, "_type") /\ ~Says(windowUp, "dump") =>
             \/ type = server.type
             \/ \E t : Latest(windowUp, t) /\ (t # server.type \/ server.fresh)
      /\ server.exists /\ ~Says(windowUp, "dump") =>
           \A i \in DOMAIN Window!NodesOf(server.type) :
               Window!NodesOf(server.type)[i] # "exclusive" =>
                   Window!NodesOf(server.type)[i] \in shown
                     \/ Says(windowDown, Window!NodesOf(server.type)[i])
  BY <1>1 DEF TypeInv, NodesInv
<1>10. /\ type \in Window!Type /\ windows \in BOOLEAN /\ shown \subseteq Window!Node \cup Window!Box
  BY DEF Window!TypeOK
<1>11. /\ ~early => ~enable.default \/ NameAfterEnable(windowDown)
       /\ ~asked /\ ~early => ~server.enabled
       /\ ~asked /\ ~early => \A i \in 1..Len(windowUp) : windowUp[i].node = "enable" => ~windowUp[i].on
  BY DEF EnableInv
\* A value is received.
<1>12. CASE IsNode(m)
  <2>1. /\ shown' = IF m.node \in shown THEN shown ELSE shown \cup {m.node, Window!BoxOf[m.node]}
        /\ UNCHANGED <<type, enable, named, dialog, controller, windowUp>>
    BY <1>4, <1>5, <1>12 DEF Window!GuiReceive, m, Window!Node
  <2>2. ~IsType(m) /\ m.node \in Window!Node /\ d = type /\ m.node # "_type" /\ m.node # "enable"
    BY <1>4, <1>5, <1>12
  <2>3. Window!BoxOf[m.node] \in Window!Box /\ \A n \in Window!Node : n \notin Window!Box
    BY <2>2 DEF Window!BoxOf, Window!Box, Window!Node
  <2> HIDE DEF m, d
  <2>4. /\ shown \subseteq shown' /\ shown' \subseteq Window!Node \cup Window!Box /\ m.node \in shown'
        /\ shown' \cap Window!Box \subseteq (shown \cap Window!Box) \cup {Window!BoxOf[m.node]}
        /\ \A n \in Window!Node : n \in shown' => n \in shown \/ n = m.node
    BY <1>10, <2>1, <2>2, <2>3
  <2>5. "exclusive" \in shown' /\ ~windows => "name" \in shown'
    <3>1. CASE m.node = "exclusive" /\ "name" \notin shown
      <4>1. Preceded(windowDown, "exclusive", "name")
        BY <1>8, <3>1 DEF ExclusiveAfterName
      <4> QED
        BY <1>6, <3>1, <4>1
    <3>2. CASE ~(m.node = "exclusive" /\ "name" \notin shown)
      BY <1>5, <1>8, <2>4, <3>2
    <3> QED
      BY <3>1, <3>2
  <2>6. "name" \in shown' \/ ExclusiveAfterName(windowDown')
    BY <1>6, <1>8, <2>4 DEF ExclusiveAfterName
  <2>7. ~raced => /\ Boxed(windowDown', type)
                  /\ shown' \cap Window!Box \subseteq Window!BoxesOf(type)
                       \/ \E t \in Window!Type \ {type} : Upcoming(windowDown', 0, t)
    <3> SUFFICES ASSUME ~raced
                 PROVE  /\ Boxed(windowDown', type)
                        /\ shown' \cap Window!Box \subseteq Window!BoxesOf(type)
                             \/ \E t \in Window!Type \ {type} : Upcoming(windowDown', 0, t)
      OBVIOUS
    <3>1. Boxed(windowDown', type)
      BY <1>6, <1>8, <2>2
    <3>2. CASE \E t \in Window!Type \ {type} : Upcoming(windowDown, 0, t)
      BY <1>6, <2>2, <3>1, <3>2
    <3>3. CASE shown \cap Window!Box \subseteq Window!BoxesOf(type)
      <4>1. 1 \in 1..Len(windowDown)
        BY <1>3
      <4>2. PICK t \in Window!Type : Window!BoxOf[m.node] \in Window!BoxesOf(t)
                   /\ (InForce(windowDown, type, 1, t) \/ Upcoming(windowDown, 1, t))
        BY <1>3, <1>8, <1>12, <4>1 DEF Boxed
      <4>3. InForce(windowDown, type, 1, t) => t = type
        <5>1. \A j \in 1..(1 - 1) : FALSE
          OBVIOUS
        <5> QED
          BY <5>1 DEF InForce, Within
      <4>4. CASE t = type
        BY <2>4, <3>1, <3>3, <4>2, <4>4
      <4>5. CASE t # type
        BY <1>7, <3>1, <4>2, <4>3, <4>5
      <4> QED
        BY <4>4, <4>5
    <3> QED
      BY <1>8, <3>2, <3>3
  <2>8. BoxesInv'
    BY <1>2, <1>8, <2>1, <2>4, <2>5, <2>6, <2>7 DEF BoxesInv
  <2>9. TypeInv'
    BY <1>2, <1>6, <1>9, <2>1, <2>2 DEF TypeInv
  <2>10. NodesInv'
    BY <1>2, <1>6, <1>9, <2>1, <2>4 DEF NodesInv
  <2>11. EnableInv'
    <3>1. NameAfterEnable(windowDown) => NameAfterEnable(windowDown')
      BY <1>6, <2>2 DEF NameAfterEnable
    <3> QED
      BY <1>2, <1>11, <2>1, <3>1, Zenon DEF EnableInv
  <2>12. Window!TypeOK'
    BY <1>2, <2>1, <2>4, Zenon DEF Window!TypeOK
  <2> QED
    BY <1>1, <1>2, <1>3, <2>1, <2>8, <2>9, <2>10, <2>11, <2>12 DEF Sent, ServerOK
\* A type is received.
<1>13. CASE IsType(m)
  <2>1. /\ type' = m.type
        /\ shown' = IF m.type = type THEN shown ELSE Window!GroupBoxes(m.type, shown)
        /\ UNCHANGED <<enable, named, dialog, controller, windowUp>>
    BY <1>4, <1>5, <1>13 DEF Window!GuiReceive, m, Window!Node
  <2>2. m.type \in Window!Type /\ d = type' /\ m.node = "_type"
    BY <1>4, <1>5, <1>13, <2>1
  <2> HIDE DEF m, d
  <2>3. /\ Window!GroupBoxes(m.type, shown) \cap Window!Box = Window!BoxesOf(m.type)
        /\ "exclusive" \in Window!GroupBoxes(m.type, shown) => windows
        /\ \A n \in Window!Node \ {"exclusive"} : n \in Window!GroupBoxes(m.type, shown) <=> n \in shown
        /\ Window!GroupBoxes(m.type, shown) \subseteq Window!Node \cup Window!Box
    BY <1>8, <1>10, <2>2, BoxesFollow
  <2>4. /\ shown' \subseteq Window!Node \cup Window!Box
        /\ \A n \in Window!Node \ {"exclusive"} : n \in shown' <=> n \in shown
        /\ "exclusive" \in shown' /\ ~windows => "name" \in shown'
        /\ Window!BoxesOf(type') \subseteq shown'
        /\ m.type # type => shown' \cap Window!Box \subseteq Window!BoxesOf(type')
    BY <1>5, <1>8, <1>10, <2>1, <2>3
  <2>5. "name" \in shown' \/ ExclusiveAfterName(windowDown')
    BY <1>5, <1>6, <1>8, <2>2, <2>4 DEF ExclusiveAfterName
  <2>6. ~raced => Boxed(windowDown', type') /\ shown' \cap Window!Box \subseteq Window!BoxesOf(type')
    <3>1. CASE m.type = type
      BY <1>6, <1>8, <1>13, <2>1, <2>2, <3>1
    <3>2. CASE m.type # type
      BY <1>6, <1>8, <2>2, <2>4, <3>2
    <3> QED
      BY <3>1, <3>2
  <2>7. BoxesInv'
    BY <1>2, <2>4, <2>5, <2>6 DEF BoxesInv
  <2>8. TypeInv'
    BY <1>2, <1>6, <1>9, <1>13, <2>1 DEF TypeInv
  <2>9. NodesInv'
    <3>1. server.type \in Window!Type
      BY DEF ServerOK, Strip
    <3>2. \A i \in DOMAIN Window!NodesOf(server.type) : Window!NodesOf(server.type)[i] \in Window!Node
      BY <3>1, NodesFacts, ElementOfSeq, LenProperties
    <3>3. \A i \in DOMAIN Window!NodesOf(server.type) : Window!NodesOf(server.type)[i] # "_type"
      BY <3>2 DEF Window!Node
    <3> QED
      BY <1>2, <1>6, <1>9, <2>1, <2>2, <2>4, <3>2, <3>3 DEF NodesInv
  <2>10. EnableInv'
    <3>1. NameAfterEnable(windowDown) => NameAfterEnable(windowDown')
      BY <1>6, <2>2 DEF NameAfterEnable
    <3> QED
      BY <1>2, <1>11, <2>1, <3>1, Zenon DEF EnableInv
  <2>11. Window!TypeOK'
    BY <1>2, <2>1, <2>2, <2>4, Zenon DEF Window!TypeOK
  <2> QED
    BY <1>1, <1>2, <1>3, <2>1, <2>7, <2>8, <2>9, <2>10, <2>11 DEF Sent, ServerOK
\* An enabling or a name is received.
<1>14. CASE ~IsNode(m) /\ ~IsType(m)
  <2>1. /\ (m.node = "enable" /\ m.on \in BOOLEAN) \/ m.node = "name of the strip"
        /\ m.node # "_type" /\ d = type /\ m.node \notin Window!Node
    BY <1>4, <1>5, <1>14 DEF IsNode
  <2>2. /\ type' = type /\ shown' = shown /\ dialog' = dialog
        /\ \/ /\ m.node = "enable"
              /\ enable' = [on |-> m.on, default |-> FALSE]
              /\ controller' = IF m.on = enable.on THEN controller
                   ELSE Window!Controller(showDisabled, m.on)
              /\ UNCHANGED <<named, windowUp>>
           \/ /\ m.node = "name of the strip"
              /\ named' = TRUE
              /\ IF enable.default /\ ~enable.on
                 THEN /\ enable' = [enable EXCEPT !.on = TRUE]
                      /\ controller' = TRUE
                      /\ windowUp' = IF windowConnected THEN Append(windowUp, Window!EnableMessage(TRUE))
                           ELSE windowUp
                 ELSE UNCHANGED <<enable, controller, windowUp>>
    BY <1>4, <1>5, <1>14, <2>1, Zenon DEF Window!GuiReceive, m
  <2>3. /\ windowUp' \in Seq(Requests)
        /\ \A n : n # "enable" => (Says(windowUp', n) <=> Says(windowUp, n))
        /\ \A t : Latest(windowUp, t) => Latest(windowUp', t)
        /\ windowUp' = windowUp \/ (m.node = "name of the strip" /\ enable.default)
    <3>1. CASE windowUp' = windowUp
      BY <1>1, <3>1
    <3>2. CASE windowUp' = Append(windowUp, Window!EnableMessage(TRUE)) /\ m.node = "name of the strip"
                 /\ enable.default
      <4> DEFINE e == Window!EnableMessage(TRUE)
      <4>1. e \in Requests /\ ~IsType(e) /\ e.node = "enable"
        BY RequestsAre
      <4>2. windowUp' = Append(windowUp, e) /\ m.node = "name of the strip" /\ enable.default
        BY <3>2
      <4> HIDE DEF e
      <4> QED
        BY <1>1, <4>1, <4>2, Asked
    <3> QED
      BY <2>2, <3>1, <3>2
  <2> HIDE DEF m, d
  <2>4. BoxesInv'
    <3>1. "name" \in shown \/ ExclusiveAfterName(windowDown')
      BY <1>5, <1>6, <1>8, <2>1 DEF ExclusiveAfterName
    <3>2. ~raced => Boxed(windowDown', type)
      BY <1>6, <1>8, <2>1
    <3>3. \A t : Upcoming(windowDown, 0, t) => Upcoming(windowDown', 0, t)
      BY <1>6, <1>14
    <3> QED
      BY <1>2, <1>8, <2>2, <3>1, <3>2, <3>3 DEF BoxesInv
  <2>5. TypeInv'
    BY <1>2, <1>6, <1>9, <2>1, <2>2, <2>3 DEF TypeInv
  <2>6. NodesInv'
    <3>1. server.type \in Window!Type
      BY DEF ServerOK, Strip
    <3>2. \A i \in DOMAIN Window!NodesOf(server.type) : Window!NodesOf(server.type)[i] \in Window!Node
      BY <3>1, NodesFacts, ElementOfSeq, LenProperties
    <3> QED
      BY <1>2, <1>6, <1>9, <2>1, <2>2, <2>3, <3>2 DEF NodesInv
  <2>7. EnableInv'
    <3>1. ~early /\ m.node = "name of the strip" => ~enable.default
      BY <1>6, <1>11 DEF NameAfterEnable
    <3>2. ~early => windowUp' = windowUp
      BY <2>3, <3>1
    <3>3. ~early => ~enable'.default
      <4>1. CASE m.node = "enable"
        BY <2>2, <4>1
      <4>2. CASE m.node = "name of the strip"
        BY <2>2, <3>1, <4>2
      <4> QED
        BY <2>1, <4>1, <4>2
    <3> QED
      BY <1>2, <1>11, <3>2, <3>3, Zenon DEF EnableInv
  <2>8. Window!TypeOK'
    <3>1. enable' \in [on : BOOLEAN, default : BOOLEAN]
      <4>1. enable \in [on : BOOLEAN, default : BOOLEAN]
        BY DEF Window!TypeOK
      <4>2. ASSUME NEW o \in BOOLEAN, enable' = [on |-> o, default |-> FALSE]
            PROVE  enable' \in [on : BOOLEAN, default : BOOLEAN]
        BY <4>2
      <4>3. enable' = [enable EXCEPT !.on = TRUE] => enable' \in [on : BOOLEAN, default : BOOLEAN]
        BY <4>1
      <4>4. \/ m.on \in BOOLEAN /\ enable' = [on |-> m.on, default |-> FALSE]
            \/ enable' = [enable EXCEPT !.on = TRUE] \/ enable' = enable
        <5>1. "enable" # "name of the strip"
          OBVIOUS
        <5> QED
          BY <2>1, <2>2, <5>1, Zenon
      <4> QED
        BY <4>1, <4>2, <4>3, <4>4, Zenon
    <3>2. controller' \in BOOLEAN /\ named' \in BOOLEAN
      <4>1. controller \in BOOLEAN /\ named \in BOOLEAN
        BY DEF Window!TypeOK
      <4>2. Window!Controller(showDisabled, m.on) \in BOOLEAN
        BY Zenon DEF Window!Controller
      <4>3. controller' \in {controller, TRUE, Window!Controller(showDisabled, m.on)}
        BY <2>2, Zenon
      <4>4. named' = named \/ named' = TRUE
        BY <2>2
      <4> QED
        BY <4>1, <4>2, <4>3, <4>4, Zenon
    <3> QED
      BY <1>2, <2>2, <3>1, <3>2, Zenon DEF Window!TypeOK
  <2> QED
    BY <1>1, <1>2, <1>3, <2>3, <2>4, <2>5, <2>6, <2>7, <2>8 DEF Sent, ServerOK
<1> QED
  BY <1>12, <1>13, <1>14

\* The user picks a type: the boxes follow, and the server is asked for it.
LEMMA PickTypeKeeps ==
  ASSUME WInv, NEW t \in Window!Type, Window!PickType(t)
  PROVE  WInv'
<1> USE DEF WInv
<1>1. /\ UNCHANGED <<server, windowDown, windowConnected, windows, present, enable, named, dialog,
           controller,
                     showDisabled, asked, early>>
      /\ type' = t /\ shown' = Window!GroupBoxes(t, shown)
      /\ windowUp' = IF windowConnected THEN Append(windowUp, Window!TypeMessage(t)) ELSE windowUp
      /\ raced' = (raced \/ \E i \in DOMAIN windowDown : windowDown[i].node \in Window!Node)
  BY DEF Window!PickType, Window!Send
<1>2. /\ windowUp \in Seq(Requests) /\ windowDown \in Seq(Messages)
           /\ (~windowConnected => windowUp = <<>> /\ windowDown = <<>>)
      /\ windows \in BOOLEAN /\ shown \subseteq Window!Node \cup Window!Box
  BY DEF Sent, Window!TypeOK
<1>3. /\ Window!TypeMessage(t) \in Requests /\ IsType(Window!TypeMessage(t))
           /\ Window!TypeMessage(t).type = t
      /\ Window!TypeMessage(t).node = "_type"
  BY RequestsAre
<1> DEFINE m == Window!TypeMessage(t)
<1> HIDE DEF m
<1>4. /\ windowUp' \in Seq(Requests)
      /\ \A n : Says(windowUp, n) => Says(windowUp', n)
      /\ windowConnected => Latest(windowUp', t)
      /\ (\A i \in 1..Len(windowUp) : windowUp[i].node = "enable" => ~windowUp[i].on)
           => \A i \in 1..Len(windowUp') : windowUp'[i].node = "enable" => ~windowUp'[i].on
  <2>1. CASE windowConnected
    <3>1. windowUp' = Append(windowUp, m) /\ m \in Requests /\ IsType(m) /\ m.type = t /\ m.node # "enable"
      BY <1>1, <1>3, <2>1 DEF m
    <3> QED
      BY <1>2, <3>1, Asked
  <2>2. CASE ~windowConnected
    BY <1>1, <1>2, <2>2
  <2> QED
    BY <2>1, <2>2
<1>5. /\ Window!GroupBoxes(t, shown) \cap Window!Box = Window!BoxesOf(t)
      /\ "exclusive" \in Window!GroupBoxes(t, shown) => windows
      /\ \A n \in Window!Node \ {"exclusive"} : n \in Window!GroupBoxes(t, shown) <=> n \in shown
      /\ Window!GroupBoxes(t, shown) \subseteq Window!Node \cup Window!Box
  BY <1>2, BoxesFollow DEF BoxesInv
<1>6. BoxesInv'
  <2>1. ~raced' => Boxed(windowDown, t)
    <3>1. DOMAIN windowDown = 1..Len(windowDown)
      BY <1>2, LenProperties
    <3>2. ~raced' => \A i \in 1..Len(windowDown) : ~IsNode(windowDown[i])
      BY <1>1, <3>1, Zenon DEF IsNode
    <3> QED
      BY <3>2 DEF Boxed
  <2>2. "name" \in shown' \/ ExclusiveAfterName(windowDown)
    BY <1>1, <1>5 DEF BoxesInv, Window!Node
  <2>3. Window!BoxesOf(t) \subseteq shown' /\ shown' \cap Window!Box \subseteq Window!BoxesOf(t)
          /\ ("exclusive" \in shown' => windows)
    BY <1>1, <1>5
  <2> QED
    BY <1>1, <2>1, <2>2, <2>3 DEF BoxesInv
<1>7. TypeInv'
  BY <1>1, <1>4 DEF TypeInv
<1>8. NodesInv'
  <2>1. server.type \in Window!Type
    BY DEF ServerOK, Strip
  <2>2. \A i \in DOMAIN Window!NodesOf(server.type) : Window!NodesOf(server.type)[i] \in Window!Node
    BY <2>1, NodesFacts, ElementOfSeq, LenProperties
  <2> QED
    BY <1>1, <1>4, <1>5, <2>2 DEF NodesInv
<1>9. EnableInv'
  BY <1>1, <1>4, Zenon DEF EnableInv
<1>10. Window!TypeOK'
  <2>1. raced' \in BOOLEAN
    BY <1>1, Zenon
  <2>2. shown' \subseteq Window!Node \cup Window!Box
    BY <1>1, <1>5
  <2> QED
    BY <1>1, <2>1, <2>2, Zenon DEF Window!TypeOK
<1>11. Sent'
  BY <1>1, <1>2, <1>4 DEF Sent
<1> QED
  BY <1>1, <1>6, <1>7, <1>8, <1>9, <1>10, <1>11 DEF ServerOK

\* Nothing that concerns types or boxes: the rest of the GUI, with a message of no type.
LEMMA OthersKeep ==
  ASSUME WInv, NEW e \in Requests, ~IsType(e),
         UNCHANGED <<server, windowDown, windowConnected, windows, type, shown, early, raced>>,
         windowUp' = windowUp \/ windowUp' = (IF windowConnected THEN Append(windowUp, e) ELSE windowUp),
         enable'.default = enable.default, asked' \in BOOLEAN, asked => asked',
         ~asked' => windowUp' = windowUp \/ e.node # "enable",
         {present', named', dialog', controller', showDisabled'} \subseteq BOOLEAN,
         enable' \in [on : BOOLEAN, default : BOOLEAN]
  PROVE  WInv'
<1> USE DEF WInv
<1>1. windowUp \in Seq(Requests) /\ windowDown \in Seq(Messages)
        /\ (~windowConnected => windowUp = <<>> /\ windowDown = <<>>)
  BY DEF Sent
<1>2. /\ windowUp' \in Seq(Requests)
      /\ \A n : Says(windowUp, n) => Says(windowUp', n)
      /\ \A t : Latest(windowUp, t) => Latest(windowUp', t)
      /\ ~asked' /\ (\A i \in 1..Len(windowUp) : windowUp[i].node = "enable" => ~windowUp[i].on)
           => \A i \in 1..Len(windowUp') : windowUp'[i].node = "enable" => ~windowUp'[i].on
  <2>1. CASE windowUp' = windowUp
    BY <1>1, <2>1
  <2>2. CASE windowUp' # windowUp
    <3>1. windowUp' = Append(windowUp, e)
      BY <2>2
    <3> QED
      BY <1>1, <2>2, <3>1, Asked
  <2> QED
    BY <2>1, <2>2
<1>3. BoxesInv'
  BY DEF BoxesInv
<1>4. TypeInv'
  BY <1>2 DEF TypeInv
<1>5. NodesInv'
  BY <1>2 DEF NodesInv
<1>6. EnableInv'
  BY <1>2, Zenon DEF EnableInv
<1>7. Window!TypeOK'
  BY Zenon DEF Window!TypeOK
<1>8. Sent'
  BY <1>1, <1>2 DEF Sent
<1> QED
  BY <1>3, <1>4, <1>5, <1>6, <1>7, <1>8 DEF ServerOK

\* The user adds the strip, enables or disables it, opens or closes its dialog, or shows
\* the disabled strips.
LEMMA UserKeeps ==
  ASSUME WInv, Window!Add \/ Window!ToggleEnable \/ Window!ToggleShowDisabled \/ Window!ToggleDialog
  PROVE  WInv'
<1>1. /\ {windowConnected, windows, present, named, dialog, controller, showDisabled, asked, early,
           raced} \subseteq BOOLEAN
      /\ enable \in [on : BOOLEAN, default : BOOLEAN] /\ enable.on \in BOOLEAN /\ enable.default \in BOOLEAN
  BY DEF WInv, Window!TypeOK
<1>2. CASE Window!Add
  <2>1. /\ UNCHANGED <<server, windowDown, windowConnected, windows, type, enable, named, shown,
             showDisabled,
                   asked, early, raced>>
        /\ present' = TRUE /\ dialog' = TRUE /\ controller' = TRUE
        /\ windowUp' = IF windowConnected THEN Append(windowUp, [node |-> "keys"]) ELSE windowUp
    BY <1>2 DEF Window!Add, Window!Send
  <2>2. [node |-> "keys"] \in Requests /\ ~IsType([node |-> "keys"]) /\ [node |-> "keys"].node # "enable"
    BY RequestsAre
  <2>3. {present', named', dialog', controller', showDisabled'} \subseteq BOOLEAN /\ asked' \in BOOLEAN
    BY <1>1, <2>1, Zenon
  <2> DEFINE e == [node |-> "keys"]
  <2>4. e \in Requests /\ ~IsType(e) /\ e.node # "enable"
          /\ windowUp' = IF windowConnected THEN Append(windowUp, e) ELSE windowUp
    BY <2>1, <2>2
  <2> HIDE DEF e
  <2> QED
    BY <1>1, <2>1, <2>3, <2>4, OthersKeep
<1>3. CASE Window!ToggleEnable
  <2> DEFINE b == ~enable.on
             e == Window!EnableMessage(b)
  <2>1. /\ UNCHANGED <<server, windowDown, windowConnected, windows, present, type, named, shown, dialog,
                   showDisabled, early, raced>>
        /\ asked' = TRUE
        /\ controller' = Window!Controller(showDisabled, b)
        /\ windowUp' = IF windowConnected THEN Append(windowUp, e) ELSE windowUp
    BY <1>3, Zenon DEF Window!ToggleEnable, Window!Send
  <2>2. enable' = [enable EXCEPT !.on = ~@]
    BY <1>3 DEF Window!ToggleEnable
  <2>3. b \in BOOLEAN
    BY <1>1, Zenon
  <2>4. e \in Requests /\ ~IsType(e)
    <3> HIDE DEF b
    <3> QED
      BY <2>3, RequestsAre
  <2> HIDE DEF b, e
  <2>5. {present', named', dialog', controller', showDisabled'} \subseteq BOOLEAN /\ asked' \in BOOLEAN
    <3>1. Window!Controller(showDisabled, b) \in BOOLEAN
      BY <1>1, Zenon DEF Window!Controller
    <3> QED
      BY <1>1, <2>1, <3>1, Zenon
  <2>6. enable' \in [on : BOOLEAN, default : BOOLEAN] /\ enable'.default = enable.default
    BY <1>1, <2>2
  <2> QED
    BY <2>1, <2>4, <2>5, <2>6, OthersKeep
<1>4. CASE Window!ToggleShowDisabled \/ Window!ToggleDialog
  <2>1. UNCHANGED <<server, windowUp, windowDown, windowConnected, windows, present, type, enable, named,
                    shown, asked, early, raced>>
    BY <1>4 DEF Window!ToggleShowDisabled, Window!ToggleDialog
  <2>2. dialog' \in BOOLEAN /\ controller' \in BOOLEAN /\ showDisabled' \in BOOLEAN
    <3>1. Window!Controller(~showDisabled, enable.on) \in BOOLEAN
      BY <1>1, Zenon DEF Window!Controller
    <3>2. \/ dialog' = dialog /\ showDisabled' = (~showDisabled)
             /\ controller' = IF present THEN Window!Controller(~showDisabled, enable.on) ELSE controller
          \/ dialog' = (~dialog) /\ controller' = controller /\ showDisabled' = showDisabled
      BY <1>4, Zenon DEF Window!ToggleShowDisabled, Window!ToggleDialog
    <3> QED
      BY <1>1, <3>1, <3>2, Zenon
  <2>3. {present', named', dialog', controller', showDisabled'} \subseteq BOOLEAN /\ asked' \in BOOLEAN
    BY <1>1, <2>1, <2>2, Zenon
  <2>4. Window!DumpMessage \in Requests /\ ~IsType(Window!DumpMessage)
    BY RequestsAre
  <2> QED
    BY <1>1, <2>1, <2>3, <2>4, OthersKeep
<1> QED
  BY <1>2, <1>3, <1>4

\* The connection is made, which asks for a dump, or ends, which loses what is on its way.
LEMMA ConnectionKeeps ==
  ASSUME WInv, Window!Connect \/ Window!Disconnect
  PROVE  WInv'
<1> USE DEF WInv
<1>1. UNCHANGED <<server, windows, present, type, enable, named, shown, dialog, controller, showDisabled,
                  asked, early>>
  BY DEF Window!Connect, Window!Disconnect, Window!gui, Window!widgets
<1>2. CASE Window!Connect
  <2> DEFINE u == <<Window!DumpMessage>>
  <2>1. windowUp' = u /\ windowConnected' = TRUE /\ windowDown' = <<>> /\ windowDown = <<>>
          /\ raced' = raced
    BY <1>2 DEF Window!Connect, Sent
  <2>2. u \in Seq(Requests) /\ Len(u) = 1 /\ u[1] = Window!DumpMessage /\ Window!DumpMessage.node = "dump"
    BY RequestsAre
  <2> HIDE DEF u
  <2>3. Says(u, "dump") /\ \A i \in 1..Len(u) : u[i].node # "enable"
    BY <2>2 DEF Says
  <2>4. BoxesInv' /\ NodesInv'
    BY <1>1, <2>1, <2>3 DEF BoxesInv, NodesInv
  <2>5. TypeInv'
    BY <1>1, <2>1, <2>3, Nothing DEF TypeInv
  <2>6. EnableInv'
    BY <1>1, <2>1, <2>3, Zenon DEF EnableInv
  <2>7. Sent'
    BY <2>1, <2>2, Nothing DEF Sent
  <2>8. Window!TypeOK'
    BY <1>1, <2>1, Zenon DEF Window!TypeOK
  <2> QED
    BY <1>1, <2>4, <2>5, <2>6, <2>7, <2>8 DEF ServerOK
<1>3. CASE Window!Disconnect
  <2>1. windowUp' = <<>> /\ windowDown' = <<>> /\ windowConnected' = FALSE
          /\ raced' = (raced \/ windowDown # <<>>)
    BY <1>3 DEF Window!Disconnect
  <2>2. raced' \in BOOLEAN /\ (~raced' => ~raced /\ windowDown = <<>>)
    BY <2>1, Zenon
  <2>3. BoxesInv'
    BY <1>1, <2>1, <2>2, Nothing DEF BoxesInv
  <2>4. TypeInv' /\ NodesInv'
    BY <2>1 DEF TypeInv, NodesInv
  <2>5. EnableInv'
    <3>1. NameAfterEnable(<<>>) /\ \A i \in 1..Len(<<>>) : FALSE
      BY Nothing
    <3> QED
      BY <1>1, <2>1, <3>1, Zenon DEF EnableInv
  <2>6. Sent'
    BY <2>1, Nothing DEF Sent
  <2>7. Window!TypeOK'
    BY <1>1, <2>1, <2>2, Zenon DEF Window!TypeOK
  <2> QED
    BY <1>1, <2>3, <2>4, <2>5, <2>6, <2>7 DEF ServerOK
<1> QED
  BY <1>2, <1>3

\* The types, orders and boxes on the way to a GUI are those that its window needs, however
\* the steps of users, clients, the server and the connection interleave.
THEOREM WindowInductive == Window!Spec => []WInv
<1>1. Window!Init => WInv
  <2> SUFFICES ASSUME Window!Init PROVE WInv
    OBVIOUS
  <2>1. windowUp = <<>> /\ windowDown = <<>> /\ windowConnected = FALSE /\ type = "Loopback" /\ shown = {}
          /\ raced = FALSE
        /\ asked = FALSE /\ early = FALSE
    BY DEF Window!Init
  <2>2. ServerOK /\ ~server.enabled
    <3>1. Window!Fresh \in Strip /\ Window!Fresh.type = "None" /\ ~Window!Fresh.enabled
            /\ Window!Fresh.exists
      BY DEF Window!Fresh, Strip, Window!Type
    <3>2. ASSUME NEW t \in Window!Type, server = [Window!Fresh EXCEPT !.type = t, !.fresh = FALSE]
          PROVE  server \in Strip /\ server.exists /\ ~server.fresh /\ ~server.enabled
      BY <3>1, <3>2 DEF Strip
    <3>3. [Window!Fresh EXCEPT !.exists = FALSE] \in Strip
            /\ ~[Window!Fresh EXCEPT !.exists = FALSE].enabled
          /\ [Window!Fresh EXCEPT !.exists = FALSE].type = "None"
      BY <3>1 DEF Strip
    <3>4. \/ server = Window!Fresh \/ server = [Window!Fresh EXCEPT !.exists = FALSE]
          \/ \E t \in Window!Type : server = [Window!Fresh EXCEPT !.type = t, !.fresh = FALSE]
      BY DEF Window!Init
    <3> QED
      BY <3>1, <3>2, <3>3, <3>4 DEF ServerOK
  <2>3. Sent
    BY <2>1, Nothing DEF Sent
  <2>4. BoxesInv
    BY <2>1, Nothing DEF BoxesInv, Window!BoxesOf
  <2>5. TypeInv /\ NodesInv
    BY <2>1 DEF TypeInv, NodesInv
  <2>6. EnableInv
    <3>1. NameAfterEnable(<<>>) /\ \A i \in 1..Len(<<>>) : FALSE
      BY Nothing
    <3> QED
      BY <2>1, <2>2, <3>1, Zenon DEF EnableInv
  <2>7. Window!TypeOK
    <3>1. server \in Strip
      BY <2>2 DEF ServerOK
    <3>2. {windowConnected, windows, present, named, dialog, controller, showDisabled, asked, early,
            raced} \subseteq BOOLEAN
      BY Zenon DEF Window!Init
    <3>3. enable \in [on : BOOLEAN, default : BOOLEAN] /\ type \in Window!Type
            /\ shown \subseteq Window!Node \cup Window!Box
      BY DEF Window!Init, Window!Type
    <3> QED
      BY <3>1, <3>2, <3>3 DEF Window!TypeOK, Strip
  <2> QED
    BY <2>2, <2>3, <2>4, <2>5, <2>6, <2>7 DEF WInv
<1>2. WInv /\ [Window!Next]_(Window!vars) => WInv'
  <2> SUFFICES ASSUME WInv, [Window!Next]_(Window!vars)
               PROVE  WInv'
    OBVIOUS
  <2>1. ASSUME NEW t \in Window!Type, Window!ClientSetsType(t) \/ Window!PickType(t)
        PROVE  WInv'
    BY <2>1, ClientKeeps, PickTypeKeeps
  <2>2. CASE Window!ClientSetsName
    BY <2>2, ClientKeeps DEF Window!Type
  <2>3. CASE UNCHANGED Window!vars
    BY <2>3 DEF Window!vars, Window!gui, Window!widgets, WInv, Window!TypeOK, ServerOK, Sent, EnableInv,
         BoxesInv, TypeInv, NodesInv
  <2> QED
    BY <2>1, <2>2, <2>3, ServerReceiveKeeps, GuiReceiveKeeps, UserKeeps, ConnectionKeeps DEF Window!Next
<1> QED
  BY <1>1, <1>2, PTL DEF Window!Spec

\* What the properties say of a window with nothing on its way.
LEMMA Follows == WInv => BoxesFollowType /\ EnabledByUser
<1> SUFFICES ASSUME WInv
             PROVE  BoxesFollowType /\ EnabledByUser
  OBVIOUS
<1> USE DEF WInv
<1>1. EnabledByUser
  BY Zenon DEF EnableInv, EnabledByUser, Window!EnabledByUser
<1>2. BoxesFollowType
  <2> SUFFICES ASSUME Window!Quiet, ~raced
               PROVE  /\ shown \cap Window!Box = Window!BoxesOf(server.type)
                      /\ ToSet(Window!NodesOf(server.type)) \ {"exclusive"} \subseteq shown
    BY DEF BoxesFollowType, Window!BoxesFollowType, Window!ToSet, ToSet
  <2>1. windowUp = <<>> /\ windowDown = <<>> /\ windowConnected /\ server.exists
    BY DEF Window!Quiet
  <2>2. type = server.type /\ type \in Window!Type
    BY <2>1, Nothing DEF TypeInv, Window!TypeOK
  <2>3. shown \cap Window!Box = Window!BoxesOf(type)
    <3>1. Window!BoxesOf(type) \subseteq Window!Box
      BY <2>2, NodesFacts
    <3> QED
      BY <2>1, <3>1, Nothing DEF BoxesInv
  <2>4. ToSet(Window!NodesOf(server.type)) \ {"exclusive"} \subseteq shown
    BY <2>1, Nothing DEF NodesInv, ToSet
  <2> QED
    BY <2>2, <2>3, <2>4
<1> QED
  BY <1>1, <1>2

\* With nothing on its way, a dialog shows the boxes of its strip's type and each
\* setting of its endpoint, whatever users and other clients do and however often
\* the connection ends: the dump, the answers and the two mechanisms that hide and
\* show boxes agree.  Every variable of the window keeps its type.
THEOREM BoxesShown == Window!Spec => []BoxesFollowType
<1>1. WInv => BoxesFollowType
  BY Follows
<1> QED
  BY <1>1, WindowInductive, PTL

\* The GUI's rule for devices without an enabling takes no strip of the server for
\* one: the dump tells the enabling of a strip before its name.
THEOREM OnlyUsersEnable == Window!Spec => []EnabledByUser
<1>1. WInv => EnabledByUser
  BY Follows
<1> QED
  BY <1>1, WindowInductive, PTL
=============================================================================
