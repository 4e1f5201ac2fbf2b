---------------------------- MODULE StreamProofs ----------------------------
(***************************************************************************)
(* Proofs about what passes from one end to another: of MCRing,            *)
(* DeviceStream, for any lists of devices, any names and rates, and any    *)
(* length of the period over which the latency is averaged, and PeakMeter, *)
(* for any numbers of channels, peaks and blocks; of MCGui, EqualizerFile, *)
(* for any keys and any lines of foreign files, and OscWire, for any       *)
(* messages, whatever their addresses, arguments and bytes.                *)
(***************************************************************************)
EXTENDS DeviceStream, PeakMeter, GuiInstances, SequencesExt, SequenceTheorems,
        FiniteSetTheorems, FunctionTheorems, WellFoundedInduction, TLAPS

(***************************************************************************)
(* The stream of a device.                                                 *)
(***************************************************************************)

\* Numbers that are not empty have a least one.
LEMMA MinIsMember ==
    ASSUME NEW S \in SUBSET Nat, S # {}
    PROVE  Min(S) \in S
<1> DEFINE less == {ss \in Nat \X Nat : ss[1] < ss[2]}
<1>1. IsWellFoundedOn(less, Nat)
  BY NatLessThanWellFounded, Zenon DEF OpToRel
<1>2. \E x \in S : \A y \in S : ~(<<y, x>> \in less)
  <2> HIDE DEF less
  <2> QED
    BY <1>1, WFMin
<1>3. PICK x \in S : \A y \in S : ~(<<y, x>> \in less)
  BY <1>2
<1>4. ASSUME NEW y \in S
      PROVE  x <= y
  <2>1. <<y, x>> \in Nat \X Nat /\ <<y, x>>[1] = y /\ <<y, x>>[2] = x
    OBVIOUS
  <2>2. ~(<<y, x>>[1] < <<y, x>>[2])
    BY <1>3, <2>1, Zenon
  <2>3. ~(y < x)
    BY <2>1, <2>2
  <2> QED
    BY <2>3
<1> QED
  BY <1>4 DEF Min

\* No other name is as similar to a name as the name itself.
LEMMA SameNameIsMostSimilar ==
    ASSUME NEW Letter, NEW a \in Seq(Letter), NEW b \in Seq(Letter), a # b
    PROVE  Similarity(a, b) < Similarity(b, b)
<1> DEFINE Equal(c) == {i \in DOMAIN c \cap DOMAIN b : c[i] = b[i]}
<1>1. /\ Len(b) \in Nat /\ DOMAIN b = 1..Len(b) /\ DOMAIN a = 1..Len(a) /\ Len(a) \in Nat
  BY LenProperties
<1>2. IsFiniteSet(DOMAIN b) /\ Cardinality(DOMAIN b) = Len(b)
  <2>1. IsFiniteSet(1..Len(b)) /\ Cardinality(1..Len(b)) = IF 1 > Len(b) THEN 0 ELSE (Len(b) - 1) + 1
    <3>1. 1 \in Int /\ Len(b) \in Int
      BY <1>1
    <3> QED
      BY <3>1, FS_Interval, Zenon
  <2> QED
    BY <1>1, <2>1
<1>3. Equal(b) = DOMAIN b
  OBVIOUS
<1>4. IsFiniteSet(Equal(a)) /\ Cardinality(Equal(a)) \in Nat /\ Cardinality(Equal(a)) <= Len(b)
  BY <1>2, FS_Subset, FS_CardinalityType
<1>5. /\ Similarity(a, b) = Cardinality(Equal(a)) + (IF Len(a) = Len(b) THEN 1 ELSE 0)
      /\ Similarity(b, b) = Len(b) + 1
  BY <1>2, <1>3 DEF Similarity
<1>6. CASE Len(a) = Len(b)
  <2>1. PICK i \in 1..Len(b) : a[i] # b[i]
    BY <1>6, SeqEqual
  <2>2. Equal(a) # DOMAIN b
    BY <1>1, <1>6, <2>1
  <2>3. Cardinality(Equal(a)) # Cardinality(DOMAIN b)
    BY <1>2, <2>2, FS_Subset
  <2> QED
    BY <1>1, <1>2, <1>4, <1>5, <1>6, <2>3
<1>7. CASE Len(a) # Len(b)
  <2>1. Similarity(a, b) = Cardinality(Equal(a))
    BY <1>4, <1>5, <1>7
  <2>2. Similarity(a, b) \in Nat /\ Similarity(a, b) <= Len(b)
    BY <1>4, <2>1, Zenon
  <2>3. Similarity(b, b) = Len(b) + 1 /\ Len(b) \in Nat
    BY <1>1, <1>5, Zenon
  <2> QED
    BY <2>2, <2>3
<1> QED
  BY <1>6, <1>7

\* The similarity of two names is a number.
LEMMA SimilarityType ==
    ASSUME NEW Letter, NEW a \in Seq(Letter), NEW b \in Seq(Letter)
    PROVE  Similarity(a, b) \in Nat
<1> DEFINE Equal == {i \in DOMAIN a \cap DOMAIN b : a[i] = b[i]}
<1>1. IsFiniteSet(DOMAIN b)
  BY LenProperties, FS_Interval
<1>2. Cardinality(Equal) \in Nat
  BY <1>1, FS_Subset, FS_CardinalityType
<1> QED
  BY <1>2 DEF Similarity

\* A device that has the name of the settings is not passed over for another one.
LEMMA DeviceFound ==
    ASSUME NEW Letter, DeviceAssumption(Letter), IInv, DeviceIndex # 0,
           NEW i \in DOMAIN devices, devices[i] = name
    PROVE  devices[DeviceIndex] = name
<1> DEFINE similarity == [j \in DOMAIN devices |-> Similarity(devices[j], name)]
           best == {j \in DOMAIN devices : \A k \in DOMAIN devices : similarity[j] >= similarity[k]}
<1>1. devices \in Seq(Seq(Letter)) /\ name # DefaultIn
  BY DEF DeviceAssumption, IInv
<1>2. name \in Seq(Letter) /\ \A j \in DOMAIN devices : devices[j] \in Seq(Letter)
  <2>1. \A j \in DOMAIN devices : devices[j] \in Seq(Letter)
    BY <1>1, LenProperties, ElementOfSeq
  <2> QED
    BY <2>1
<1>3. best # {} /\ DeviceIndex = Min(best)
  <2> HIDE DEF best
  <2>1. DeviceIndex = IF best = {} \/ \E j \in best : similarity[j] = 0 THEN 0 ELSE Min(best)
    BY <1>1 DEF DeviceIndex, best
  <2> QED
    BY <2>1
<1>4. DeviceIndex \in best
  <2>1. best \in SUBSET Nat
    BY <1>1, LenProperties
  <2> HIDE DEF best
  <2> QED
    BY <1>3, <2>1, MinIsMember
<1>5. Similarity(devices[DeviceIndex], name) >= Similarity(name, name)
  BY <1>4
<1>6. Similarity(devices[DeviceIndex], name) \in Nat /\ Similarity(name, name) \in Nat
  BY <1>2, <1>4, SimilarityType
<1> QED
  BY <1>2, <1>4, <1>5, <1>6, SameNameIsMostSimilar

\* Steps that leave the stream, the latencies and what is compared with them alone.
LEMMA OtherSteps ==
    ASSUME IInv, UNCHANGED <<devices, name, rate, stream, source, latency, opened, gaps>>
    PROVE  IInv'
  BY DEF IInv, AsConfigured, LatenciesWhole, latency

\* A stream is opened on the device that is found, and its latencies are measured anew.
LEMMA StartInv ==
    ASSUME NEW Letter, DeviceAssumption(Letter), IInv, NEW opens \in BOOLEAN, Start(opens)
    PROVE  IInv'
<1>1. UNCHANGED <<devices, name, rate>> /\ source' = IF DeviceIndex = 0 THEN source ELSE rate
  BY DEF Start, settings
<1>2. CASE DeviceIndex # 0 /\ opens
  <2>1. /\ stream' = [name |-> devices[DeviceIndex], rate |-> rate]
        /\ gaps' = gaps + 1 /\ opened' = gaps + 1
        /\ history' = <<>> /\ previous' = 0 /\ drift' = None
    BY <1>2 DEF Start
  <2>2. \A i \in DOMAIN devices : devices[i] = name => devices[DeviceIndex] = name
    BY <1>2, DeviceFound
  <2>3. AsConfigured'
    BY <1>1, <1>2, <2>1, <2>2 DEF AsConfigured
  <2>4. LatenciesWhole'
    BY <2>1 DEF IInv, LatenciesWhole
  <2> QED
    BY <1>1, <2>3, <2>4 DEF IInv
<1>3. CASE ~(DeviceIndex # 0 /\ opens)
  <2>1. UNCHANGED <<stream, gaps, opened, history, previous, drift>>
    BY <1>3 DEF Start, latency
  <2>2. AsConfigured'
    BY <1>1, <2>1 DEF IInv, AsConfigured
  <2>3. LatenciesWhole'
    BY <2>1 DEF IInv, LatenciesWhole
  <2> QED
    BY <1>1, <2>2, <2>3 DEF IInv
<1> QED
  BY <1>2, <1>3

\* A latency is kept, or ends a period and makes an average.
LEMMA MeasureInv ==
    ASSUME IInv, MeasureLatency
    PROVE  IInv'
<1>1. UNCHANGED <<devices, name, rate, stream, source, opened, gaps>>
  BY DEF MeasureLatency, settings
<1>2. CASE Len(history) + 1 < Period
  <2>1. history' = Append(history, gaps) /\ previous' = previous /\ drift' = drift
    BY <1>2 DEF MeasureLatency
  <2>2. history' \in Seq(Nat) /\ \A i \in DOMAIN history' : history'[i] = gaps
    BY <2>1 DEF IInv, LatenciesWhole
  <2>3. LatenciesWhole'
    BY <1>1, <2>1, <2>2 DEF IInv, LatenciesWhole
  <2> QED
    BY <1>1, <2>3 DEF IInv, AsConfigured
<1>3. CASE ~(Len(history) + 1 < Period)
  <2>1. /\ history' = <<>> /\ previous' = gaps
        /\ drift' \in IF previous = 0 THEN {drift} ELSE {<<previous, gaps>>, None}
    BY <1>3 DEF MeasureLatency
  <2>2. drift' # None => drift'[1] >= opened
    BY <2>1 DEF IInv, LatenciesWhole
  <2>3. LatenciesWhole'
    BY <1>1, <2>1, <2>2 DEF IInv, LatenciesWhole
  <2> QED
    BY <1>1, <2>3 DEF IInv, AsConfigured
<1> QED
  BY <1>2, <1>3

\* Every step of the main thread, of JACK's and of PortAudio's keeps the invariant; a
\* change of the settings is refused while there is a stream.
LEMMA StepInv ==
    ASSUME NEW Letter, DeviceAssumption(Letter), IInv, [Next]_streamVars
    PROVE  IInv'
<1>1. ASSUME NEW n \in Name, SetName(n) PROVE IInv'
  <2>1. /\ UNCHANGED <<devices, rate, source, stream, history, previous, drift, opened, gaps>>
        /\ name' \in Name \cup {DefaultIn} /\ (stream # Closed => name' = name)
    BY <1>1 DEF SetName, latency, IInv
  <2> QED
    BY <2>1 DEF IInv, AsConfigured, LatenciesWhole
<1>2. ASSUME NEW r \in Rate, SetRate(r) PROVE IInv'
  <2>1. /\ UNCHANGED <<devices, name, stream, history, previous, drift, opened, gaps>>
        /\ stream # Closed => UNCHANGED <<rate, source>>
    BY <1>2 DEF SetRate, latency
  <2> QED
    BY <2>1 DEF IInv, AsConfigured, LatenciesWhole
<1>3. ASSUME NEW opens \in BOOLEAN, Start(opens) PROVE IInv'
  BY <1>3, StartInv
<1>4. CASE Stop
  <2>1. stream' = Closed /\ UNCHANGED <<devices, name, history, previous, drift, opened, gaps>>
    BY <1>4 DEF Stop, settings, latency
  <2> QED
    BY <2>1 DEF IInv, AsConfigured, LatenciesWhole
<1>5. CASE RenderCallback
  BY <1>5, OtherSteps DEF RenderCallback, settings
<1>6. CASE Underflow
  <2>1. /\ gaps' = gaps + 1 /\ history' = <<>>
        /\ UNCHANGED <<devices, name, rate, stream, source, previous, drift, opened>>
    BY <1>6 DEF Underflow, settings
  <2>2. LatenciesWhole'
    BY <2>1 DEF IInv, LatenciesWhole
  <2> QED
    BY <2>1, <2>2 DEF IInv, AsConfigured
<1>7. CASE MeasureLatency
  BY <1>7, MeasureInv
<1>8. CASE FastTimer
  BY <1>8, OtherSteps DEF FastTimer, settings
<1>9. CASE ClearDrift
  <2>1. /\ drift' = None
        /\ UNCHANGED <<devices, name, rate, stream, source, history, previous, opened, gaps>>
    BY <1>9 DEF ClearDrift, settings
  <2> QED
    BY <2>1 DEF IInv, AsConfigured, LatenciesWhole
<1>10. CASE SlowTimer
  BY <1>10, OtherSteps DEF SlowTimer, settings
<1>11. CASE UNCHANGED streamVars
  BY <1>11, OtherSteps DEF streamVars, settings
<1> QED
  BY <1>1, <1>2, <1>3, <1>4, <1>5, <1>6, <1>7, <1>8, <1>9, <1>10, <1>11 DEF Next

\* What plays is the device and the rate of the settings, and no average and no drift
\* mixes what a gap or another stream separates, for any devices, names, rates and
\* periods (getDeviceIndex, start, postProcessSamples).
THEOREM StreamCorrect ==
    ASSUME NEW Letter, DeviceAssumption(Letter)
    PROVE  Spec => []StreamAsConfigured
<1>1. Init => IInv
  BY EmptySeq DEF Init, IInv, AsConfigured, LatenciesWhole
<1>2. IInv /\ [Next]_streamVars => IInv'
  BY StepInv
<1>3. IInv => StreamAsConfigured
  BY DEF IInv, LatenciesWhole, StreamAsConfigured, AveragesWhole
<1> QED
  BY <1>1, <1>2, <1>3, PTL DEF Spec

-----------------------------------------------------------------------------
\* The variables keep their types, within the bound of the model: the latencies kept are
\* never a whole period (postProcessSamples).
THEOREM StreamTypes ==
    ASSUME DefaultIn \in Name, MaxGaps \in Nat, Period \in Nat \ {0}
    PROVE  Spec => []TypeOK
<1> DEFINE TInv == TypeOK /\ history \in Seq(Nat)
<1>1. Init => TInv
  <2> SUFFICES ASSUME Init PROVE TInv
    OBVIOUS
  <2>1. history \in Seq(Nat) /\ Len(history) < Period
    <3>1. <<>> \in Seq(Nat) /\ Len(<<>>) = 0 /\ 0 < Period
      OBVIOUS
    <3> QED
      BY <3>1 DEF Init
  <2>2. {previous, opened, gaps} \subseteq 0..MaxGaps
    BY DEF Init
  <2>3. /\ devices \in Lists /\ default \in 0..Len(devices)
        /\ name \in Name /\ {rate, source} \subseteq Rate
        /\ {client, clearing, isPaRunning, oscIsRunning} \subseteq BOOLEAN
    BY DEF Init
  <2> QED
    BY <2>1, <2>2, <2>3 DEF TypeOK
<1>2. ASSUME TInv, [Next]_streamVars PROVE TInv'
  <2> USE DEF TypeOK
  <2>1. CASE \E n \in Name : SetName(n)
    BY <1>2, <2>1 DEF SetName, latency
  <2>2. CASE \E r \in Rate : SetRate(r)
    BY <1>2, <2>2 DEF SetRate, latency
  <2>3. CASE \E opens \in BOOLEAN : Start(opens)
    <3>1. /\ UNCHANGED <<devices, default, name, rate, clearing, oscIsRunning>>
          /\ client' = TRUE /\ source' \in Rate
      BY <1>2, <2>3 DEF Start, settings
    <3>2. CASE UNCHANGED <<stream, gaps, opened, latency, isPaRunning>>
      BY <1>2, <3>1, <3>2 DEF latency
    <3>3. CASE /\ gaps' = gaps + 1 /\ opened' = gaps + 1 /\ gaps < MaxGaps
               /\ history' = <<>> /\ previous' = 0 /\ isPaRunning' = FALSE
      <4>1. history' \in Seq(Nat) /\ Len(history') < Period
        <5>1. <<>> \in Seq(Nat) /\ Len(<<>>) = 0 /\ 0 < Period
          OBVIOUS
        <5> QED
          BY <3>3, <5>1
      <4>2. {previous', opened', gaps'} \subseteq 0..MaxGaps
        BY <1>2, <3>3
      <4>3. /\ devices' \in Lists /\ default' \in 0..Len(devices')
            /\ name' \in Name /\ {rate', source'} \subseteq Rate
            /\ {client', clearing', isPaRunning', oscIsRunning'} \subseteq BOOLEAN
        BY <1>2, <3>1, <3>3
      <4> QED
        BY <4>1, <4>2, <4>3
    <3> QED
      BY <2>3, <3>2, <3>3 DEF Start
  <2>4. CASE Stop
    BY <1>2, <2>4 DEF Stop, settings, latency
  <2>5. CASE RenderCallback
    BY <1>2, <2>5 DEF RenderCallback, settings, latency
  <2>6. CASE Underflow
    <3>1. <<>> \in Seq(Nat) /\ Len(<<>>) = 0
      OBVIOUS
    <3>2. {previous', opened', gaps'} \subseteq 0..MaxGaps
      BY <1>2, <2>6 DEF Underflow
    <3> QED
      BY <1>2, <2>6, <3>1, <3>2 DEF Underflow, settings
  <2>7. CASE MeasureLatency
    <3>1. UNCHANGED <<settings, client, source, clearing, isPaRunning, oscIsRunning, opened, gaps>>
      BY <2>7 DEF MeasureLatency
    <3>2. CASE Len(history) + 1 < Period /\ history' = Append(history, gaps) /\ previous' = previous
      <4>1. history' \in Seq(Nat) /\ Len(history') = Len(history) + 1
        BY <1>2, <3>2, AppendProperties
      <4> QED
        BY <1>2, <3>1, <3>2, <4>1 DEF settings
    <3>3. CASE history' = <<>> /\ previous' = gaps
      <4>1. history' \in Seq(Nat) /\ Len(history') = 0
        BY <3>3
      <4> QED
        BY <1>2, <3>1, <3>3, <4>1 DEF settings
    <3> QED
      BY <2>7, <3>2, <3>3 DEF MeasureLatency
  <2>8. CASE FastTimer \/ ClearDrift \/ SlowTimer
    BY <1>2, <2>8 DEF FastTimer, ClearDrift, SlowTimer, settings, latency
  <2>9. CASE UNCHANGED streamVars
    BY <1>2, <2>9 DEF streamVars, settings, latency
  <2> QED
    BY <1>2, <2>1, <2>2, <2>3, <2>4, <2>5, <2>6, <2>7, <2>8, <2>9 DEF Next
<1>3. TInv => TypeOK
  OBVIOUS
<1> QED
  BY <1>1, <1>2, <1>3, PTL DEF Spec

(***************************************************************************)
(* The meters of a strip.                                                  *)
(***************************************************************************)

\* What MeterTypeOK says of one channel.
LEMMA ChannelTypes ==
    ASSUME PeakMeterAssumption, MeterTypeOK, NEW c \in Channel
    PROVE  /\ peaks[c] \in Nat /\ levels[c] \in Nat /\ ideal[c] \in Nat /\ samples \in Nat
           /\ taken # Nothing => taken.samples \in 0..MaxSamples /\ taken.peaks[c] \in Nat
  BY DEF PeakMeterAssumption, MeterTypeOK

\* The meters start silent, with nothing played.
LEMMA MeterInitInv ==
    ASSUME PeakMeterAssumption, MeterInit
    PROVE  MeterInv
<1>1. MeterTypeOK
  <2>1. channels \in 1..MaxChannel /\ samples \in 0..MaxSamples
    BY DEF PeakMeterAssumption, MeterInit
  <2>2. peaks \in [Channel -> Nat] /\ levels \in [Channel -> Nat] /\ ideal \in [Channel -> Nat]
    BY DEF MeterInit
  <2>3. sampleRateKnown \in BOOLEAN /\ active \in BOOLEAN /\ taken = Nothing
    BY DEF MeterInit
  <2> QED
    BY <2>1, <2>2, <2>3 DEF MeterTypeOK
<1>2. NotLost
  BY DEF MeterInit, NotLost, Larger, Fallen
<1>3. NotAbove
  BY DEF PeakMeterAssumption, MeterInit, NotAbove
<1>4. RateKnown
  BY DEF MeterInit, RateKnown
<1> QED
  BY <1>1, <1>2, <1>3, <1>4 DEF MeterInv

\* A change of the number of channels: new ones are silent.
LEMMA ChangeChannelsInv ==
    ASSUME PeakMeterAssumption, MeterInv, NEW n \in 1..MaxChannel, ChangeChannels(n)
    PROVE  MeterInv'
<1> USE DEF MeterInv
<1>1. /\ taken = Nothing /\ taken' = Nothing /\ samples' = samples
      /\ channels' = n /\ Channel' = 1..n
  BY DEF ChangeChannels, Channel
<1>2. ASSUME NEW c \in 1..n
      PROVE  \/ /\ c \in Channel /\ peaks'[c] = peaks[c] /\ levels'[c] = levels[c] /\ ideal'[c] = ideal[c]
             \/ /\ peaks'[c] = 0 /\ levels'[c] = 0 /\ ideal'[c] = 0
  BY DEF ChangeChannels, Resized, MeterTypeOK
<1>3. MeterTypeOK'
  <2>1. /\ peaks' = [c \in 1..n |-> peaks'[c]]
        /\ levels' = [c \in 1..n |-> levels'[c]]
        /\ ideal' = [c \in 1..n |-> ideal'[c]]
    BY DEF ChangeChannels, Resized
  <2>2. \A c \in 1..n : peaks'[c] \in Nat /\ levels'[c] \in Nat /\ ideal'[c] \in Nat
    BY <1>2, ChannelTypes
  <2>3. /\ peaks' \in [Channel' -> Nat]
        /\ levels' \in [Channel' -> Nat]
        /\ ideal' \in [Channel' -> Nat]
    BY <1>1, <2>1, <2>2
  <2> QED
    BY <1>1, <2>3 DEF MeterTypeOK, ChangeChannels
<1>4. NotLost'
  <2> SUFFICES ASSUME NEW c \in 1..n
               PROVE  ideal'[c] <= Larger(peaks'[c], Fallen(levels'[c], samples))
    BY <1>1 DEF NotLost
  <2> QED
    BY <1>1, <1>2, ChannelTypes DEF NotLost, MeterTypeOK, Larger, Fallen
<1>5. NotAbove'
  <2> SUFFICES ASSUME NEW c \in 1..n
               PROVE  /\ peaks'[c] > 0 => peaks'[c] < ideal'[c] + samples
                      /\ levels'[c] - samples - 0 < ideal'[c] + MaxSamples
    BY <1>1 DEF NotAbove
  <2>1. levels'[c] \in Nat /\ ideal'[c] \in Nat /\ samples \in 0..MaxSamples
    BY <1>1, <1>3 DEF MeterTypeOK
  <2>2. CASE peaks'[c] = 0 /\ levels'[c] = 0 /\ ideal'[c] = 0
    BY <2>1, <2>2 DEF PeakMeterAssumption
  <2>3. CASE c \in Channel /\ peaks'[c] = peaks[c] /\ levels'[c] = levels[c] /\ ideal'[c] = ideal[c]
    BY <1>1, <2>1, <2>3 DEF PeakMeterAssumption, NotAbove
  <2> QED
    BY <1>2, <2>2, <2>3
<1>6. RateKnown'
  BY DEF ChangeChannels, RateKnown
<1> QED
  BY <1>3, <1>4, <1>5, <1>6

\* A block of samples lets the levels fall and the peaks rise alike.
LEMMA ProcessPeaksInv ==
    ASSUME PeakMeterAssumption, MeterInv, NEW n \in Block, NEW peak \in [Channel -> Peak], ProcessPeaks(peak, n)
    PROVE  MeterInv'
<1> USE DEF MeterInv
<1>1. n \in Nat /\ n > 0 /\ samples \in Nat /\ \A c \in Channel : peak[c] \in Nat
  <2>1. n \in Nat /\ n > 0
    BY DEF PeakMeterAssumption
  <2>2. samples \in Nat
    BY DEF PeakMeterAssumption, MeterTypeOK
  <2>3. \A c \in Channel : peak[c] \in Nat
    BY DEF PeakMeterAssumption
  <2> QED
    BY <2>1, <2>2, <2>3
<1>2. /\ samples' = samples + n /\ samples + n <= MaxSamples
      /\ Channel' = Channel /\ taken' = taken /\ levels' = levels
  BY DEF ProcessPeaks, Channel
<1>3. \A c \in Channel : /\ peaks'[c] = Larger(peak[c], peaks[c])
                         /\ ideal'[c] = Larger(peak[c], Fallen(ideal[c], n))
  BY DEF ProcessPeaks
<1>4. MeterTypeOK'
  <2>1. \A c \in Channel : Larger(peak[c], peaks[c]) \in Nat /\ Larger(peak[c], Fallen(ideal[c], n)) \in Nat
    BY <1>1, ChannelTypes DEF Larger, Fallen
  <2>2. peaks' \in [Channel -> Nat] /\ ideal' \in [Channel -> Nat]
    BY <2>1 DEF ProcessPeaks
  <2>3. samples' \in 0..MaxSamples
    BY <1>1, <1>2 DEF PeakMeterAssumption
  <2> QED
    BY <1>2, <2>2, <2>3 DEF MeterTypeOK, ProcessPeaks
<1>5. NotLost'
  <2> SUFFICES ASSUME NEW c \in Channel
               PROVE  ideal'[c] <= Larger(peaks'[c],
                          IF taken = Nothing THEN Fallen(levels[c], samples + n)
                          ELSE Fallen(Larger(taken.peaks[c], Fallen(levels[c], taken.samples)), samples + n))
    BY <1>2 DEF NotLost
  <2> QED
    BY <1>1, <1>3, ChannelTypes DEF NotLost, Larger, Fallen
<1>6. NotAbove'
  <2> SUFFICES ASSUME NEW c \in Channel
               PROVE  /\ peaks'[c] > 0 => peaks'[c] < ideal'[c] + (samples + n)
                      /\ taken # Nothing /\ taken.peaks[c] > 0
                             => taken.peaks[c] < ideal'[c] + taken.samples + (samples + n)
                      /\ levels[c] - (samples + n) - (IF taken = Nothing THEN 0 ELSE taken.samples)
                             < ideal'[c] + MaxSamples
    BY <1>2 DEF NotAbove
  <2> QED
    BY <1>1, <1>3, ChannelTypes DEF PeakMeterAssumption, NotAbove, Larger, Fallen
<1>7. RateKnown'
  BY DEF ProcessPeaks, RateKnown
<1> QED
  BY <1>4, <1>5, <1>6, <1>7

\* The timer takes peaks and samples together.
LEMMA TakeInv ==
    ASSUME PeakMeterAssumption, MeterInv, Take
    PROVE  MeterInv'
<1> USE DEF MeterInv
<1>1. /\ active /\ taken = Nothing /\ taken' = [samples |-> samples, peaks |-> peaks]
      /\ taken'.samples = samples /\ taken'.peaks = peaks
      /\ samples' = 0 /\ peaks' = [c \in Channel |-> 0]
      /\ Channel' = Channel /\ levels' = levels /\ ideal' = ideal /\ sampleRateKnown' = sampleRateKnown
  BY DEF Take, Channel
<1>2. taken' # Nothing
  BY <1>1 DEF PeakMeterAssumption, MeterTypeOK, Nothing
<1>3. MeterTypeOK'
  <2>1. taken' \in [samples : 0..MaxSamples, peaks : [Channel -> Nat]]
    BY <1>1 DEF MeterTypeOK
  <2>2. peaks' \in [Channel -> Nat] /\ samples' \in 0..MaxSamples
    BY <1>1 DEF PeakMeterAssumption
  <2> QED
    BY <1>1, <2>1, <2>2 DEF MeterTypeOK, Take
<1>4. NotLost'
  <2> SUFFICES ASSUME NEW c \in Channel
               PROVE  ideal[c] <= Larger(0, Fallen(Larger(peaks[c], Fallen(levels[c], samples)), 0))
    BY <1>1, <1>2 DEF NotLost
  <2> QED
    BY <1>1, ChannelTypes DEF NotLost, Larger, Fallen
<1>5. NotAbove'
  <2> SUFFICES ASSUME NEW c \in Channel
               PROVE  /\ peaks[c] > 0 => peaks[c] < ideal[c] + samples + 0
                      /\ levels[c] - 0 - samples < ideal[c] + MaxSamples
    BY <1>1, <1>2 DEF NotAbove
  <2> QED
    BY <1>1, ChannelTypes DEF PeakMeterAssumption, NotAbove
<1>6. RateKnown'
  BY <1>1 DEF RateKnown, Take
<1> QED
  BY <1>3, <1>4, <1>5, <1>6

\* The timer sends the levels, while peaks and samples of later blocks may be waiting.
LEMMA SendInv ==
    ASSUME PeakMeterAssumption, MeterInv, Send
    PROVE  MeterInv'
<1> USE DEF MeterInv
<1>1. /\ sampleRateKnown /\ taken # Nothing /\ taken' = Nothing
      /\ samples' = samples /\ peaks' = peaks /\ ideal' = ideal /\ Channel' = Channel
      /\ levels' = [c \in Channel |-> Larger(taken.peaks[c], Fallen(levels[c], taken.samples))]
  BY DEF Send, RateKnown, Channel
<1>2. \A c \in Channel : levels'[c] = Larger(taken.peaks[c], Fallen(levels[c], taken.samples))
  BY <1>1
<1>3. MeterTypeOK'
  <2>1. \A c \in Channel : Larger(taken.peaks[c], Fallen(levels[c], taken.samples)) \in Nat
    BY <1>1, ChannelTypes DEF Larger, Fallen
  <2>2. levels' \in [Channel -> Nat]
    BY <1>1, <2>1
  <2> QED
    BY <1>1, <2>2 DEF MeterTypeOK, Send
<1>4. NotLost'
  <2> SUFFICES ASSUME NEW c \in Channel
               PROVE  ideal[c] <= Larger(peaks[c], Fallen(levels'[c], samples))
    BY <1>1 DEF NotLost
  <2> QED
    BY <1>1, <1>2, ChannelTypes DEF NotLost
<1>5. NotAbove'
  <2> SUFFICES ASSUME NEW c \in Channel
               PROVE  /\ peaks[c] > 0 => peaks[c] < ideal[c] + samples
                      /\ levels'[c] - samples < ideal[c] + MaxSamples
    BY <1>1, <1>3, ChannelTypes DEF NotAbove, MeterTypeOK
  <2> QED
    BY <1>1, <1>2, ChannelTypes DEF PeakMeterAssumption, NotAbove, Larger, Fallen
<1>6. RateKnown'
  BY <1>1 DEF RateKnown, Send
<1> QED
  BY <1>3, <1>4, <1>5, <1>6

\* Every step of the audio thread, of the timer and of the main thread keeps the
\* invariant.
LEMMA MeterStepInv ==
    ASSUME PeakMeterAssumption, MeterInv, [MeterNext]_meterVars
    PROVE  MeterInv'
<1>1. ASSUME NEW n \in 1..MaxChannel, ChangeChannels(n) PROVE MeterInv'
  BY <1>1, ChangeChannelsInv
<1>2. CASE StartMeter
  BY <1>2 DEF StartMeter, MeterInv, MeterTypeOK, NotLost, NotAbove, RateKnown, Channel
<1>3. CASE StopMeter
  BY <1>3 DEF StopMeter, MeterInv, MeterTypeOK, NotLost, NotAbove, RateKnown, Channel
<1>4. ASSUME NEW n \in Block, NEW peak \in [Channel -> Peak], ProcessPeaks(peak, n) PROVE MeterInv'
  BY <1>4, ProcessPeaksInv
<1>5. CASE Take
  BY <1>5, TakeInv
<1>6. CASE Send
  BY <1>6, SendInv
<1>7. CASE UNCHANGED meterVars
  BY <1>7 DEF meterVars, MeterInv, MeterTypeOK, NotLost, NotAbove, RateKnown, Channel
<1> QED
  BY <1>1, <1>2, <1>3, <1>4, <1>5, <1>6, <1>7 DEF MeterNext

\* A level sent is at least what the peaks taken and the fall since then leave of it.
LEMMA InvFollows ==
    ASSUME PeakMeterAssumption, MeterInv
    PROVE  LevelsFollowPeaks
<1> SUFFICES ASSUME NEW c \in Channel
             PROVE  LET pending == samples + (IF taken = Nothing THEN 0 ELSE taken.samples)
                        loudest == Larger(peaks[c], IF taken = Nothing THEN 0 ELSE taken.peaks[c])
                    IN  /\ Larger(levels[c] - pending, loudest) >= ideal[c]
                        /\ levels[c] - pending < ideal[c] + MaxSamples
  BY DEF LevelsFollowPeaks
<1> QED
  BY ChannelTypes DEF PeakMeterAssumption, MeterInv, NotLost, NotAbove, Larger, Fallen

\* The strengthening holds in every reachable state (processSamples, onFastTimer).
THEOREM MeterInductive ==
    ASSUME PeakMeterAssumption
    PROVE  MeterSpec => []MeterInv
<1>1. MeterInit => MeterInv
  BY MeterInitInv
<1>2. MeterInv /\ [MeterNext]_meterVars => MeterInv'
  BY MeterStepInv
<1> QED
  BY <1>1, <1>2, PTL DEF MeterSpec

\* No peak is lost and no sample counted twice, for any order of blocks and ticks
\* (processSamples against onFastTimer).
THEOREM NoPeakLost ==
    ASSUME PeakMeterAssumption
    PROVE  MeterSpec => []LevelsFollowPeaks
<1>1. MeterInv => LevelsFollowPeaks
  BY InvFollows
<1> QED
  BY <1>1, MeterInductive, PTL

(***************************************************************************)
(* The files of equalizers and the bytes of OSC.                           *)
(* Induction over natural numbers, recursive functions over 0..n (the LET  *)
(* functions of the models) and sequences put one behind the other.        *)
(***************************************************************************)

\* A set of natural numbers that holds 0 and the successor of each member holds all.
LEMMA NatSetInduction ==
  ASSUME NEW S, 0 \in S, \A n \in Nat : n \in S => n + 1 \in S
  PROVE  \A n \in Nat : n \in S
<1> SUFFICES ASSUME NEW n \in Nat, n \notin S
             PROVE  FALSE
  OBVIOUS
<1> DEFINE T == {k \in Nat : k \notin S}
           R == {ss \in Nat \X Nat : ss[1] < ss[2]}
<1>1. IsWellFoundedOn(R, Nat)
  BY NatLessThanWellFounded DEF OpToRel
<1>2. PICK x \in T : \A y \in T : ~(<<y, x>> \in R)
  <2>1. T \subseteq Nat /\ n \in T
    OBVIOUS
  <2> HIDE DEF R, T
  <2> QED
    BY <1>1, <2>1, WFMin
<1>3. x # 0
  OBVIOUS
<1>4. x - 1 \in Nat /\ x - 1 \notin T
  <2>1. x - 1 \in Nat
    BY <1>3
  <2>2. <<x - 1, x>> \in R
    BY <2>1
  <2> QED
    BY <1>2, <2>1, <2>2
<1>5. (x - 1) + 1 \in S
  BY <1>4
<1> QED
  BY <1>5

\* A run of 0..n steps from x: step[k] gives the k-th value from the one before.
IsRun(h, n, x, step) == h[0] = x /\ \A k \in 1..n : h[k] = step[k][h[k - 1]]

\* A recursion over 0..n that stays in a set defines a function.
LEMMA RunExists ==
  ASSUME NEW n \in Nat, NEW X, NEW x \in X, NEW step \in [1..n -> [X -> X]]
  PROVE  \E h \in [0..n -> X] : IsRun(h, n, x, step)
<1> DEFINE D == {m \in Nat : m <= n => \E h \in [0..m -> X] : IsRun(h, m, x, step)}
<1>1. 0 \in D
  <2> DEFINE h == [k \in 0..0 |-> x]
  <2>1. h \in [0..0 -> X] /\ IsRun(h, 0, x, step)
    BY DEF IsRun
  <2> QED
    BY <2>1
<1>2. ASSUME NEW m \in Nat, m \in D
      PROVE  m + 1 \in D
  <2> SUFFICES ASSUME m + 1 <= n
               PROVE  \E h \in [0..(m + 1) -> X] : IsRun(h, m + 1, x, step)
    OBVIOUS
  <2>1. PICK h \in [0..m -> X] : IsRun(h, m, x, step)
    BY <1>2
  <2> DEFINE new == step[m + 1][h[m]]
             H == [k \in 0..(m + 1) |-> IF k <= m THEN h[k] ELSE new]
  <2>2. new \in X
    <3>1. m \in 0..m /\ m + 1 \in 1..n
      OBVIOUS
    <3>2. h[m] \in X /\ step[m + 1] \in [X -> X]
      BY <3>1
    <3> QED
      BY <3>2
  <2> HIDE DEF new
  <2>3. H \in [0..(m + 1) -> X]
    BY <2>2
  <2>4. H[0] = x /\ \A k \in 1..m : H[k] = h[k] /\ H[k - 1] = h[k - 1]
    BY <2>1 DEF IsRun
  <2>5. H[m + 1] = new /\ H[(m + 1) - 1] = h[m]
    OBVIOUS
  <2>6. \A k \in 1..(m + 1) : k \in 1..m \/ k = m + 1
    OBVIOUS
  <2> HIDE DEF H
  <2>7. \A k \in 1..(m + 1) : H[k] = step[k][H[k - 1]]
    BY <2>1, <2>4, <2>5, <2>6 DEF new, IsRun
  <2> QED
    BY <2>3, <2>4, <2>7 DEF IsRun
<1>3. n \in D
  <2> HIDE DEF D
  <2> QED
    BY <1>1, <1>2, NatSetInduction
<1> QED
  BY <1>3

\* The parts of a sequence of sequences are put one behind the other.
LEMMA FlattenFacts ==
  ASSUME NEW S, NEW ss \in Seq(Seq(S))
  PROVE  \E flat \in [0..Len(ss) -> Seq(S)] :
            /\ flat[0] = <<>> /\ flat[Len(ss)] = FlattenSeq(ss)
            /\ \A i \in 1..Len(ss) : flat[i] = flat[i - 1] \o ss[i]
<1> DEFINE n == Len(ss)
           Body(f, i) == IF i = 1 THEN ss[i] ELSE f[i - 1] \o ss[i]
           flatten == CHOOSE f : f = [i \in 1..n |-> Body(f, i)]
           step == [k \in 1..n |-> [s \in Seq(S) |-> s \o ss[k]]]
<1>1. n \in Nat /\ \A i \in 1..n : ss[i] \in Seq(S)
  OBVIOUS
<1>2. FlattenSeq(ss) = IF n = 0 THEN ss ELSE flatten[n]
  BY DEF FlattenSeq
<1> HIDE DEF n
<1>3. step \in [1..n -> [Seq(S) -> Seq(S)]]
  BY <1>1
<1>4. PICK h \in [0..n -> Seq(S)] :
        h[0] = <<>> /\ \A k \in 1..n : h[k] = step[k][h[k - 1]]
  <2> DEFINE X == Seq(S)
             x == <<>>
  <2>1. x \in X /\ step \in [1..n -> [X -> X]]
    BY <1>3
  <2> HIDE DEF step, x, X
  <2>2. \E h \in [0..n -> X] : IsRun(h, n, x, step)
    BY <1>1, <2>1, RunExists
  <2> QED
    BY <2>2 DEF x, X, IsRun
<1>5. h[0] = <<>> /\ \A i \in 1..n : h[i - 1] \in Seq(S) /\ h[i] = h[i - 1] \o ss[i]
  <2>1. h[0] = <<>>
    BY <1>1, <1>4
  <2>2. ASSUME NEW i \in 1..n
        PROVE  h[i - 1] \in Seq(S) /\ h[i] = h[i - 1] \o ss[i]
    <3>1. i \in 0..n /\ i # 0 /\ i - 1 \in 0..n
      BY <1>1
    <3>2. h[i] = step[i][h[i - 1]]
      BY <1>4, <3>1
    <3>3. h[i - 1] \in Seq(S)
      BY <3>1
    <3> QED
      BY <3>2, <3>3
  <2> QED
    BY <2>1, <2>2
<1>6. \E f : f = [i \in 1..n |-> Body(f, i)]
  <2> DEFINE f == [i \in 1..n |-> h[i]]
  <2>1. \A i \in 1..n : f[i] = Body(f, i)
    <3> SUFFICES ASSUME NEW i \in 1..n
                 PROVE  f[i] = Body(f, i)
      OBVIOUS
    <3>1. CASE i = 1
      <4>1. h[1] = h[0] \o ss[1] /\ ss[1] \in Seq(S)
        <5>1. 1 - 1 = 0
          OBVIOUS
        <5> QED
          BY <1>1, <1>5, <3>1, <5>1
      <4> QED
        BY <1>5, <3>1, <4>1
    <3>2. CASE i # 1
      <4>1. i - 1 \in 1..n
        BY <1>1, <3>2
      <4> QED
        BY <1>5, <3>2, <4>1
    <3> QED
      BY <3>1, <3>2
  <2>2. f = [i \in 1..n |-> f[i]]
    OBVIOUS
  <2> HIDE DEF f
  <2>3. f = [i \in 1..n |-> Body(f, i)]
    BY <2>1, <2>2
  <2> QED
    BY <2>3
<1>7. flatten = [i \in 1..n |-> Body(flatten, i)]
  <2> HIDE DEF Body
  <2> QED
    BY <1>6, Zenon
<1>8. \A i \in 1..n : flatten[i] = Body(flatten, i)
  <2> HIDE DEF Body, flatten
  <2> QED
    BY <1>7, Zenon
<1> HIDE DEF flatten
<1> DEFINE D == {m \in Nat : m + 1 <= n => flatten[m + 1] = h[m + 1]}
<1>9. 0 \in D
  <2> SUFFICES ASSUME 1 <= n
               PROVE  flatten[1] = h[1]
    OBVIOUS
  <2>1. 1 \in 1..n /\ 1 - 1 = 0
    BY <1>1
  <2>2. flatten[1] = ss[1] /\ ss[1] \in Seq(S)
    BY <1>1, <1>8, <2>1
  <2>3. h[1] = h[1 - 1] \o ss[1] /\ h[1 - 1] = <<>>
    BY <1>5, <2>1
  <2>4. \A s \in Seq(S) : <<>> \o s = s
    OBVIOUS
  <2> QED
    BY <2>2, <2>3, <2>4
<1>10. ASSUME NEW m \in Nat, m \in D
       PROVE  m + 1 \in D
  <2> SUFFICES ASSUME (m + 1) + 1 <= n
               PROVE  flatten[(m + 1) + 1] = h[(m + 1) + 1]
    OBVIOUS
  <2> DEFINE i == (m + 1) + 1
  <2>1. i \in 1..n /\ i # 1 /\ i - 1 = m + 1 /\ m + 1 <= n
    BY <1>1
  <2>2. flatten[m + 1] = h[m + 1]
    BY <1>10, <2>1
  <2> HIDE DEF i
  <2>3. h[i] = h[m + 1] \o ss[i]
    BY <1>5, <2>1
  <2>4. flatten[i] = flatten[m + 1] \o ss[i]
    BY <1>8, <2>1
  <2> QED
    BY <2>2, <2>3, <2>4 DEF i
<1>11. n # 0 => flatten[n] = h[n]
  <2> SUFFICES ASSUME n # 0
               PROVE  flatten[n] = h[n]
    OBVIOUS
  <2>1. n - 1 \in Nat /\ (n - 1) + 1 = n
    BY <1>1
  <2>2. n - 1 \in D
    <3> HIDE DEF D
    <3> QED
      BY <1>9, <1>10, <2>1, NatSetInduction
  <2> QED
    BY <1>1, <2>1, <2>2
<1>12. h[n] = FlattenSeq(ss)
  <2>1. n = 0 => ss = <<>>
    BY DEF n
  <2> QED
    BY <1>1, <1>2, <1>5, <1>11, <2>1
<1> QED
  BY <1>5, <1>12 DEF n

\* Two sequences put one behind the other.
LEMMA Concat ==
  ASSUME NEW S, NEW s \in Seq(S), NEW t \in Seq(S)
  PROVE  /\ s \o t \in Seq(S) /\ Len(s \o t) = Len(s) + Len(t)
         /\ \A i \in 1..Len(s) : (s \o t)[i] = s[i] /\ i \in 1..Len(s \o t)
         /\ \A j \in 1..Len(t) : (s \o t)[Len(s) + j] = t[j] /\ Len(s) + j \in 1..Len(s \o t)
         /\ \A i \in 1..Len(s \o t) : i \in 1..Len(s) \/ \E j \in 1..Len(t) : i = Len(s) + j
<1>1. s \o t \in Seq(S) /\ Len(s \o t) = Len(s) + Len(t) /\ Len(s) \in Nat /\ Len(t) \in Nat
  OBVIOUS
<1>2. ASSUME NEW i \in 1..Len(s)
      PROVE  (s \o t)[i] = s[i] /\ i \in 1..Len(s \o t)
  <2>1. i \in 1..(Len(s) + Len(t)) /\ i <= Len(s)
    BY <1>1
  <2> QED
    BY <1>1, <2>1
<1>3. ASSUME NEW j \in 1..Len(t)
      PROVE  (s \o t)[Len(s) + j] = t[j] /\ Len(s) + j \in 1..Len(s \o t)
  <2>1. Len(s) + j \in 1..(Len(s) + Len(t)) /\ ~(Len(s) + j <= Len(s)) /\ (Len(s) + j) - Len(s) = j
    BY <1>1
  <2> QED
    BY <1>1, <2>1
<1>4. ASSUME NEW i \in 1..Len(s \o t), i \notin 1..Len(s)
      PROVE  \E j \in 1..Len(t) : i = Len(s) + j
  <2>1. i - Len(s) \in 1..Len(t) /\ i = Len(s) + (i - Len(s))
    BY <1>1, <1>4
  <2> QED
    BY <2>1
<1> QED
  BY <1>1, <1>2, <1>3, <1>4

\* v is s and then t.
IsConcat(v, s, t, S) ==
    /\ v \in Seq(S) /\ Len(v) = Len(s) + Len(t)
    /\ \A i \in 1..Len(s) : v[i] = s[i]
    /\ \A j \in 1..Len(t) : v[Len(s) + j] = t[j]

\* The second of two sequences is behind the first.
LEMMA ConcatPlaces ==
  ASSUME NEW S, NEW s \in Seq(S), NEW t \in Seq(S)
  PROVE  IsConcat(s \o t, s, t, S)
<1>1. s \o t \in Seq(S) /\ Len(s \o t) = Len(s) + Len(t)
  BY Concat
<1>2. \A i \in 1..Len(s) : (s \o t)[i] = s[i]
  BY Concat
<1>3. \A j \in 1..Len(t) : (s \o t)[Len(s) + j] = t[j]
  BY Concat
<1> QED
  BY <1>1, <1>2, <1>3 DEF IsConcat

\* Some sequence.
IsSeq(r) == \E M : r \in Seq(M)

\* The elements of a flattened sequence are those of its parts.
LEMMA FlattenMembers ==
  ASSUME NEW S, NEW ss \in Seq(Seq(S))
  PROVE  /\ FlattenSeq(ss) \in Seq(S)
         /\ \A i \in 1..Len(FlattenSeq(ss)) :
               \E k \in 1..Len(ss) : \E j \in 1..Len(ss[k]) : FlattenSeq(ss)[i] = ss[k][j]
         /\ \A k \in 1..Len(ss) : \A j \in 1..Len(ss[k]) :
               \E i \in 1..Len(FlattenSeq(ss)) : FlattenSeq(ss)[i] = ss[k][j]
<1> DEFINE n == Len(ss)
           From(s, m) == \A i \in 1..Len(s) :
                            \E k \in 1..m : \E j \in 1..Len(ss[k]) : s[i] = ss[k][j]
           Holds(s, m) == \A k \in 1..m : \A j \in 1..Len(ss[k]) :
                            \E i \in 1..Len(s) : s[i] = ss[k][j]
<1>1. n \in Nat /\ \A i \in 1..n : ss[i] \in Seq(S)
  OBVIOUS
<1>2. PICK flat \in [0..n -> Seq(S)] :
         /\ flat[0] = <<>> /\ flat[n] = FlattenSeq(ss)
         /\ \A i \in 1..n : flat[i] = flat[i - 1] \o ss[i]
  BY FlattenFacts
<1> HIDE DEF n
<1> DEFINE D == {m \in Nat : m <= n => From(flat[m], m) /\ Holds(flat[m], m)}
<1>3. 0 \in D
  BY <1>2
<1>4. ASSUME NEW m \in Nat, m \in D
      PROVE  m + 1 \in D
  <2> SUFFICES ASSUME m + 1 <= n
               PROVE  From(flat[m + 1], m + 1) /\ Holds(flat[m + 1], m + 1)
    <3> HIDE DEF From, Holds
    <3> QED
      OBVIOUS
  <2> DEFINE s == flat[m]
             t == ss[m + 1]
  <2>1. s \in Seq(S) /\ t \in Seq(S) /\ From(s, m) /\ Holds(s, m)
    <3>1. m <= n /\ m \in 0..n /\ m + 1 \in 1..n
      BY <1>1
    <3>2. s \in Seq(S) /\ t \in Seq(S)
      BY <1>1, <1>2, <3>1
    <3> HIDE DEF From, Holds
    <3> QED
      BY <1>4, <3>1, <3>2
  <2>2. flat[m + 1] = s \o t
    <3>1. m + 1 \in 1..n /\ (m + 1) - 1 = m
      BY <1>1
    <3> QED
      BY <1>2, <3>1
  <2> DEFINE u == s \o t
  <2>3. /\ \A i \in 1..Len(s) : u[i] = s[i] /\ i \in 1..Len(u)
        /\ \A j \in 1..Len(t) : u[Len(s) + j] = t[j] /\ Len(s) + j \in 1..Len(u)
        /\ \A i \in 1..Len(u) : i \in 1..Len(s) \/ \E j \in 1..Len(t) : i = Len(s) + j
    <3>1. s \in Seq(S)
      BY <2>1
    <3>2. t \in Seq(S)
      BY <2>1
    <3> HIDE DEF s, t
    <3> QED
      BY ONLY <3>1, <3>2, Concat
  <2>4. From(u, m + 1)
    <3> SUFFICES ASSUME NEW i \in 1..Len(u)
                 PROVE  \E k \in 1..(m + 1) : \E j \in 1..Len(ss[k]) : u[i] = ss[k][j]
      OBVIOUS
    <3>1. CASE i \in 1..Len(s)
      <4>1. PICK k \in 1..m : \E j \in 1..Len(ss[k]) : s[i] = ss[k][j]
        BY <2>1, <3>1
      <4>2. k \in 1..(m + 1)
        OBVIOUS
      <4> HIDE DEF s, u
      <4> QED
        BY <2>3, <3>1, <4>1, <4>2
    <3>2. CASE \E j \in 1..Len(t) : i = Len(s) + j
      <4>1. PICK j \in 1..Len(t) : i = Len(s) + j
        BY <3>2
      <4>2. u[i] = t[j] /\ m + 1 \in 1..(m + 1)
        <5> HIDE DEF s, t, u
        <5> QED
          BY <2>3, <4>1
      <4> QED
        BY <4>2
    <3> HIDE DEF s, t, u
    <3> QED
      BY <2>3, <3>1, <3>2
  <2>5. Holds(u, m + 1)
    <3> SUFFICES ASSUME NEW k \in 1..(m + 1), NEW j \in 1..Len(ss[k])
                 PROVE  \E i \in 1..Len(u) : u[i] = ss[k][j]
      OBVIOUS
    <3>1. CASE k \in 1..m
      <4>1. PICK i \in 1..Len(s) : s[i] = ss[k][j]
        BY <2>1, <3>1
      <4> HIDE DEF s, u
      <4> QED
        BY <2>3, <4>1
    <3>2. CASE k = m + 1
      <4>1. j \in 1..Len(t) /\ ss[k][j] = t[j]
        BY <3>2
      <4> HIDE DEF s, t, u
      <4> QED
        BY <2>3, <4>1
    <3>3. k \in 1..m \/ k = m + 1
      OBVIOUS
    <3> HIDE DEF u
    <3> QED
      BY <3>1, <3>2, <3>3
  <2>6. flat[m + 1] = u
    BY <2>2
  <2> HIDE DEF u, From, Holds
  <2> QED
    BY <2>4, <2>5, <2>6
<1>5. n \in D
  <2> HIDE DEF D
  <2> QED
    BY <1>1, <1>3, <1>4, NatSetInduction
<1>6. flat[n] \in Seq(S) /\ From(flat[n], n) /\ Holds(flat[n], n)
  <2>1. n \in Nat /\ n <= n
    BY <1>1
  <2> HIDE DEF From, Holds
  <2> QED
    BY <1>2, <1>5, <2>1
<1> QED
  BY <1>2, <1>6 DEF n

\* The sequence of a finite set has its members, each once.
LEMMA SetToSeqFacts ==
  ASSUME NEW S, IsFiniteSet(S)
  PROVE  /\ Cardinality(S) \in Nat
         /\ SetToSeq(S) \in [1..Cardinality(S) -> S] /\ IsInjective(SetToSeq(S))
         /\ \A x \in S : \E i \in 1..Cardinality(S) : SetToSeq(S)[i] = x
<1> DEFINE n == Cardinality(S)
           f == SetToSeq(S)
<1>1. n \in Nat /\ ExistsBijection(1..n, S)
  BY FS_CardinalityType
<1>2. PICK g : g \in Bijection(1..n, S)
  BY <1>1, Fun_ExistsBij, Zenon
<1>3. g \in [1..n -> S] /\ IsInjective(g)
  <2>1. g \in [1..n -> S] /\ \A a, b \in 1..n : g[a] = g[b] => a = b
    <3> HIDE DEF n
    <3> QED
      BY <1>2, Fun_BijectionProperties
  <2> QED
    BY <2>1, Zenon DEF IsInjective
<1>4. f \in [1..n -> S] /\ IsInjective(f)
  BY <1>3, Zenon DEF SetToSeq
<1>5. f \in Injection(1..n, S)
  BY <1>4, Zenon DEF Injection
<1>6. IsFiniteSet(1..n) /\ Cardinality(1..n) = n
  BY <1>1, FS_Interval
<1>7. f \in Surjection(1..n, S)
  <2> HIDE DEF f
  <2> QED
    BY <1>5, <1>6, FS_Injection
<1>8. \A x \in S : \E i \in 1..n : f[i] = x
  <2> HIDE DEF f, n
  <2> QED
    BY <1>7 DEF Surjection
<1> QED
  BY <1>1, <1>4, <1>8

(***************************************************************************)
(* The files of equalizers.                                                *)
(***************************************************************************)

\* A chunk of a line of a file.
FileChunk == [line : FileLine, part : 1..2]

\* The settings that a widget may show.
Shown == [enabled : BOOLEAN, type : Equalizers!FilterType,
          fc : Equalizers!MinFreq..Equalizers!MaxFreq,
          gain : Nat \ {Equalizers!NoGain}, q : Nat \ {0}]

\* The line that an export writes for the i-th equalizer with settings s.
Exported(i, s) ==
    [index |-> i, enabled |-> s.enabled, word |-> Equalizers!WordOf(s.type),
     fc |-> Equalizers!WrittenFreq(s.fc), gain |-> s.gain, width |-> "Q", q |-> s.q]

\* The range of frequencies.
LEMMA FreqRange ==
  /\ Equalizers!MinFreq \in Nat /\ Equalizers!MaxFreq \in Nat
  /\ Equalizers!MinFreq <= Equalizers!MaxFreq
  BY DEF Equalizers!MinFreq, Equalizers!MaxFreq

\* What a line that is applied gives can be shown: its frequency is in range, it has a
\* gain and a width.
LEMMA ReadShown ==
  ASSUME NEW line \in FileLine, NEW contents, Equalizers!Accepted(line, contents)
  PROVE  Equalizers!Read(line) \in Shown
<1> DEFINE kind == Equalizers!TypeOf[line.word]
           corner == kind \in Equalizers!Shelf /\ line.q > 0 /\ line.word \in {"LS", "HS"}
           read == IF corner THEN Equalizers!Corner(line.fc) ELSE line.fc
           fc == IF read < Equalizers!MinFreq THEN Equalizers!MinFreq
                 ELSE IF read > Equalizers!MaxFreq THEN Equalizers!MaxFreq ELSE read
           gain == IF line.gain = Equalizers!NoGain THEN 0 ELSE line.gain
           width == IF line.q = 0 THEN Equalizers!UsualQ(kind) ELSE line.q
           q == IF line.width = "Q" THEN width ELSE Equalizers!FromBandwidth(width)
<1>1. kind \in Equalizers!FilterType
  BY DEF Equalizers!Accepted, Equalizers!TypeOf, Equalizers!FilterType
<1>2. /\ line.enabled \in BOOLEAN /\ line.fc \in Nat /\ line.gain \in Nat /\ line.q \in Nat
  BY DEF FileLine
<1>3. Equalizers!UsualQ(kind) \in Nat \ {0}
  BY DEF Equalizers!UsualQ
<1>4. Equalizers!Read(line) =
        [enabled |-> line.enabled, type |-> kind, fc |-> fc, gain |-> gain, q |-> q]
  BY DEF Equalizers!Read
<1>5. fc \in Equalizers!MinFreq..Equalizers!MaxFreq
  <2>1. read \in Nat
    <3> HIDE DEF corner
    <3> QED
      BY <1>2 DEF Equalizers!Corner
  <2> HIDE DEF read
  <2> QED
    BY <2>1, FreqRange
<1>6. gain \in Nat \ {Equalizers!NoGain}
  BY <1>2 DEF Equalizers!NoGain
<1>7. q \in Nat \ {0}
  <2> HIDE DEF kind
  <2> QED
    BY <1>2, <1>3 DEF Equalizers!FromBandwidth
<1> HIDE DEF kind, fc, gain, q
<1> QED
  BY <1>1, <1>2, <1>4, <1>5, <1>6, <1>7 DEF Shown

\* A line that was exported for settings that a file can hold is applied, and gives them.
LEMMA ReadExported ==
  ASSUME NEW i \in Nat \ {0}, NEW s \in Shown, Equalizers!Exportable(s), NEW contents,
         i - 1 \in DOMAIN contents
  PROVE  /\ Equalizers!Accepted(Exported(i, s), contents)
         /\ Equalizers!Read(Exported(i, s)) = s
<1> DEFINE line == Exported(i, s)
<1>1. /\ s = [enabled |-> s.enabled, type |-> s.type, fc |-> s.fc, gain |-> s.gain, q |-> s.q]
      /\ s.fc \in Equalizers!MinFreq..Equalizers!MaxFreq
      /\ s.gain \in Nat \ {Equalizers!NoGain} /\ s.q \in Nat \ {0}
  BY DEF Shown
<1>2. s.type \in DOMAIN Equalizers!Words /\ Equalizers!WrittenFreq(s.fc) = s.fc
  BY DEF Equalizers!Exportable
<1>3. /\ line.index = i /\ line.enabled = s.enabled /\ line.word = Equalizers!Words[s.type]
      /\ line.fc = s.fc /\ line.gain = s.gain /\ line.width = "Q" /\ line.q = s.q
  BY <1>2 DEF Exported, Equalizers!WordOf
<1>4. /\ line.word \in DOMAIN Equalizers!TypeOf /\ Equalizers!TypeOf[line.word] = s.type
      /\ line.word \notin {"LS", "HS"}
  BY <1>2, <1>3 DEF Equalizers!Words, Equalizers!TypeOf
<1> HIDE DEF line
<1>5. Equalizers!Accepted(line, contents)
  BY <1>1, <1>3, <1>4 DEF Equalizers!Accepted
<1>6. Equalizers!Read(line) =
        [enabled |-> s.enabled, type |-> s.type, fc |-> s.fc, gain |-> s.gain, q |-> s.q]
  BY <1>1, <1>3, <1>4, FreqRange DEF Equalizers!Read, Equalizers!NoGain
<1> QED
  BY <1>1, <1>5, <1>6 DEF line

\* The settings after each chunk of a file that is read.
Reads(read, f, contents) ==
    /\ read[0] = contents /\ read[Len(f)] = Equalizers!Imported(f, contents)
    /\ \A n \in 1..Len(f) :
          read[n] = IF f[n].part = 1 /\ Equalizers!Accepted(f[n].line, read[n - 1])
                    THEN [read[n - 1] EXCEPT ![f[n].line.index - 1] =
                                                 Equalizers!Read(f[n].line)]
                    ELSE read[n - 1]

\* The import reads a file chunk after chunk and keeps settings that can be shown.
LEMMA ImportedFacts ==
  ASSUME NEW K, NEW f \in Seq(FileChunk), NEW contents \in [K -> Shown]
  PROVE  \E read \in [0..Len(f) -> [K -> Shown]] : Reads(read, f, contents)
<1> DEFINE n == Len(f)
           After(k, s) == IF f[k].part = 1 /\ Equalizers!Accepted(f[k].line, s)
                          THEN [s EXCEPT ![f[k].line.index - 1] = Equalizers!Read(f[k].line)]
                          ELSE s
           Body(h, k) == IF k = 0 THEN contents ELSE After(k, h[k - 1])
           X == [K -> Shown]
           step == [k \in 1..n |-> [s \in X |-> After(k, s)]]
           read == CHOOSE h : h = [k \in 0..n |-> Body(h, k)]
<1>1. n \in Nat /\ \A k \in 1..n : f[k].line \in FileLine
  <2>1. n \in Nat /\ \A k \in 1..n : f[k] \in FileChunk
    OBVIOUS
  <2>2. \A c \in FileChunk : c.line \in FileLine
    BY DEF FileChunk
  <2> QED
    BY <2>1, <2>2
<1>2. Equalizers!Imported(f, contents) = read[n]
  BY DEF Equalizers!Imported
<1>3. ASSUME NEW k \in 1..n, NEW s \in X
      PROVE  After(k, s) \in X
  <2>1. CASE f[k].part = 1 /\ Equalizers!Accepted(f[k].line, s)
    <3>1. Equalizers!Read(f[k].line) \in Shown
      BY <1>1, <2>1, ReadShown
    <3> QED
      BY <2>1, <3>1
  <2>2. CASE ~(f[k].part = 1 /\ Equalizers!Accepted(f[k].line, s))
    BY <2>2
  <2> QED
    BY <2>1, <2>2
<1> HIDE DEF n
<1>4. step \in [1..n -> [X -> X]]
  <2> HIDE DEF After, X
  <2> QED
    BY <1>3
<1>5. PICK h \in [0..n -> X] : IsRun(h, n, contents, step)
  <2>1. contents \in X
    OBVIOUS
  <2> HIDE DEF step, X
  <2> QED
    BY <1>1, <1>4, <2>1, RunExists
<1> HIDE DEF After
<1>6. h = [k \in 0..n |-> Body(h, k)]
  <2>1. ASSUME NEW k \in 0..n
        PROVE  h[k] = Body(h, k)
    <3>1. CASE k = 0
      BY <1>5, <3>1 DEF IsRun
    <3>2. CASE k # 0
      <4>1. k \in 1..n /\ k - 1 \in 0..n
        BY <1>1, <3>2
      <4>2. h[k] = step[k][h[k - 1]] /\ h[k - 1] \in X
        BY <1>5, <4>1 DEF IsRun
      <4> HIDE DEF X
      <4> QED
        BY <3>2, <4>1, <4>2
    <3> QED
      BY <3>1, <3>2
  <2> HIDE DEF Body, X
  <2> QED
    BY <2>1
<1>7. read = [k \in 0..n |-> Body(read, k)]
  <2> HIDE DEF Body
  <2> QED
    BY <1>6, Zenon
<1>8. \A k \in 0..n : read[k] = Body(read, k)
  <2> HIDE DEF Body, read
  <2> QED
    BY <1>7, Zenon
<1>9. DOMAIN read = 0..n
  <2> HIDE DEF Body, read
  <2> QED
    BY <1>7, Zenon
<1> HIDE DEF read
<1> DEFINE D == {m \in Nat : m <= n => read[m] \in X}
<1>10. 0 \in D
  BY <1>1, <1>8
<1>11. ASSUME NEW m \in Nat, m \in D
       PROVE  m + 1 \in D
  <2> SUFFICES ASSUME m + 1 <= n
               PROVE  read[m + 1] \in X
    OBVIOUS
  <2>1. m + 1 \in 1..n /\ m + 1 \in 0..n /\ m + 1 # 0 /\ (m + 1) - 1 = m /\ m <= n
    BY <1>1
  <2>2. read[m] \in X
    BY <1>11, <2>1
  <2>3. read[m + 1] = After(m + 1, read[m])
    BY <1>8, <2>1
  <2> HIDE DEF X
  <2> QED
    BY <1>3, <2>1, <2>2, <2>3
<1>12. \A m \in 0..n : read[m] \in X
  <2>1. \A m \in 0..n : m \in D
    <3> HIDE DEF D
    <3> QED
      <4>1. \A m \in Nat : m \in D
        BY <1>10, <1>11, NatSetInduction
      <4> QED
        BY <1>1, <4>1
  <2> HIDE DEF X
  <2> QED
    BY <1>1, <2>1
<1>13. read \in [0..n -> X]
  <2>1. read = [k \in 0..n |-> read[k]]
    <3>1. read = [k \in DOMAIN read |-> read[k]]
      <4> HIDE DEF Body
      <4> QED
        BY <1>7, <1>8, <1>9
    <3> QED
      BY <1>9, <3>1
  <2> HIDE DEF X
  <2> QED
    BY <1>12, <2>1
<1>14. \A k \in 1..n : read[k] = After(k, read[k - 1])
  <2>1. \A k \in 1..n : k \in 0..n /\ k # 0
    BY <1>1
  <2> QED
    BY <1>8, <2>1
<1>15. read[0] = contents /\ read[n] = Equalizers!Imported(f, contents)
  BY <1>1, <1>2, <1>8
<1> QED
  BY <1>13, <1>14, <1>15 DEF n, After, Reads

\* A file holds the lines of some settings: a chunk that starts a line has one of theirs,
\* and each of theirs starts in a chunk.
HoldsExport(f, s) ==
    /\ \A c \in 1..Len(f) : f[c].part = 1 =>
          \E i \in 1..Len(s) : f[c].line = Exported(i, s[i])
    /\ \A i \in 1..Len(s) :
          \E c \in 1..Len(f) : f[c].part = 1 /\ f[c].line = Exported(i, s[i])

\* Whatever the order of the lines: once the line of an equalizer has been read, it has
\* the values that the line was written for.
LEMMA ImportRestores ==
  ASSUME NEW K, NEW f \in Seq(FileChunk), NEW s \in Seq(Shown), HoldsExport(f, s),
         NEW contents \in [K -> Shown], NEW i \in 1..Len(s), i - 1 \in K,
         Equalizers!Exportable(s[i])
  PROVE  Equalizers!Imported(f, contents)[i - 1] = s[i]
<1> DEFINE n == Len(f)
           Starts(c) == f[c].part = 1 /\ f[c].line = Exported(i, s[i])
<1>1. /\ n \in Nat /\ Len(s) \in Nat /\ s[i] \in Shown
      /\ \A k \in 1..Len(s) : s[k] \in Shown
      /\ \A c \in 1..n : f[c] \in FileChunk
  OBVIOUS
<1>2. PICK read \in [0..n -> [K -> Shown]] :
        /\ read[0] = contents /\ read[n] = Equalizers!Imported(f, contents)
        /\ \A c \in 1..n :
              read[c] = IF f[c].part = 1 /\ Equalizers!Accepted(f[c].line, read[c - 1])
                        THEN [read[c - 1] EXCEPT ![f[c].line.index - 1] =
                                                     Equalizers!Read(f[c].line)]
                        ELSE read[c - 1]
  <2>1. \E read \in [0..Len(f) -> [K -> Shown]] : Reads(read, f, contents)
    BY ImportedFacts
  <2> QED
    BY <2>1 DEF Reads
<1>3. \A k \in 1..Len(s) : Exported(k, s[k]).index = k
  BY DEF Exported
<1>4. PICK first \in 1..n : Starts(first)
  BY DEF HoldsExport
<1> HIDE DEF n
<1>5. ASSUME NEW c \in 1..n
      PROVE  /\ Starts(c) => read[c][i - 1] = s[i]
             /\ ~Starts(c) => read[c][i - 1] = read[c - 1][i - 1]
  <2>1. c - 1 \in 0..n /\ c \in 0..n /\ i \in Nat \ {0}
    BY <1>1
  <2>2. read[c - 1] \in [K -> Shown] /\ read[c] \in [K -> Shown]
    BY <2>1
  <2>3. ASSUME Starts(c)
        PROVE  read[c][i - 1] = s[i]
    <3>1. /\ Equalizers!Accepted(f[c].line, read[c - 1])
          /\ Equalizers!Read(f[c].line) = s[i]
      BY <1>1, <2>1, <2>2, <2>3, ReadExported
    <3>2. f[c].line.index = i
      BY <1>3, <2>3
    <3> QED
      BY <1>2, <2>2, <2>3, <3>1, <3>2
  <2>4. ASSUME ~Starts(c)
        PROVE  read[c][i - 1] = read[c - 1][i - 1]
    <3>1. CASE f[c].part = 1 /\ Equalizers!Accepted(f[c].line, read[c - 1])
      <4>1. PICK k \in 1..Len(s) : f[c].line = Exported(k, s[k])
        BY <3>1 DEF HoldsExport, n
      <4>2. f[c].line.index = k /\ k # i
        BY <1>3, <2>4, <3>1, <4>1
      <4>3. k - 1 # i - 1
        BY <1>1, <4>2
      <4> QED
        BY <1>2, <2>2, <3>1, <4>2, <4>3
    <3>2. CASE ~(f[c].part = 1 /\ Equalizers!Accepted(f[c].line, read[c - 1]))
      BY <1>2, <3>2
    <3> QED
      BY <3>1, <3>2
  <2> QED
    BY <2>3, <2>4
<1> HIDE DEF Starts
<1> DEFINE D == {m \in Nat : first + m <= n => read[first + m][i - 1] = s[i]}
<1>6. 0 \in D
  <2>1. first + 0 = first
    BY <1>1
  <2> QED
    BY <1>4, <1>5, <2>1
<1>7. ASSUME NEW m \in Nat, m \in D
      PROVE  m + 1 \in D
  <2> SUFFICES ASSUME first + (m + 1) <= n
               PROVE  read[first + (m + 1)][i - 1] = s[i]
    OBVIOUS
  <2> DEFINE c == first + (m + 1)
  <2>1. c \in 1..n /\ c - 1 = first + m /\ first + m <= n
    BY <1>1
  <2>2. read[c - 1][i - 1] = s[i]
    BY <1>7, <2>1
  <2> HIDE DEF c
  <2>3. read[c][i - 1] = s[i]
    BY <1>5, <2>1, <2>2
  <2> QED
    BY <2>3 DEF c
<1>8. n - first \in Nat /\ first + (n - first) = n
  BY <1>1
<1>9. n - first \in D
  <2> HIDE DEF D
  <2> QED
    BY <1>6, <1>7, <1>8, NatSetInduction
<1>10. read[n][i - 1] = s[i]
  BY <1>1, <1>8, <1>9
<1> QED
  BY <1>2, <1>10

\* A line is written in one or two chunks, of which the first starts it.
LEMMA ChunksFacts ==
  ASSUME NEW line \in FileLine
  PROVE  LET chunks == Equalizers!Chunks(line)
         IN  /\ chunks \in Seq(FileChunk) /\ 1 \in 1..Len(chunks) /\ chunks[1].part = 1
             /\ \A j \in 1..Len(chunks) : chunks[j].line = line
<1> DEFINE m == IF line.fc >= Equalizers!SixDigits THEN 2 ELSE 1
           chunks == [part \in 1..m |-> [line |-> line, part |-> part]]
<1>1. Equalizers!Chunks(line) = chunks
  BY DEF Equalizers!Chunks
<1>2. m \in {1, 2}
  OBVIOUS
<1> HIDE DEF m
<1>3. m \in Nat /\ 1 \in 1..m /\ \A part \in 1..m : part \in 1..2
  BY <1>2
<1>4. \A part \in 1..m : [line |-> line, part |-> part] \in FileChunk
  BY <1>3 DEF FileChunk
<1>5. chunks \in [1..m -> FileChunk]
  BY <1>4
<1>6. chunks \in Seq(FileChunk) /\ Len(chunks) = m
  <2> HIDE DEF chunks
  <2> QED
    BY <1>3, <1>5
<1>7. chunks[1].part = 1 /\ \A j \in 1..m : chunks[j].line = line
  BY <1>3
<1> HIDE DEF chunks
<1> QED
  BY <1>1, <1>3, <1>6, <1>7

\* The instance flattens as the library does.
LEMMA SameFlatten == \A ss : Equalizers!FlattenSeq(ss) = FlattenSeq(ss)
  BY DEF Equalizers!FlattenSeq, FlattenSeq

\* Chunks of lines are the text of a file, in which each line starts.
LEMMA TextFacts ==
  ASSUME NEW lines \in Seq(FileLine)
  PROVE  LET text == FlattenSeq([i \in DOMAIN lines |-> Equalizers!Chunks(lines[i])])
         IN  /\ text \in Seq(FileChunk)
             /\ \A c \in 1..Len(text) : \E i \in 1..Len(lines) : text[c].line = lines[i]
             /\ \A i \in 1..Len(lines) : \E c \in 1..Len(text) :
                   text[c].part = 1 /\ text[c].line = lines[i]
<1> DEFINE n == Len(lines)
           ss == [i \in DOMAIN lines |-> Equalizers!Chunks(lines[i])]
           text == FlattenSeq(ss)
<1>1. n \in Nat /\ DOMAIN lines = 1..n /\ \A i \in 1..n : lines[i] \in FileLine
  OBVIOUS
<1>2. ASSUME NEW i \in 1..n
      PROVE  LET chunks == Equalizers!Chunks(lines[i])
             IN  /\ chunks \in Seq(FileChunk) /\ 1 \in 1..Len(chunks) /\ chunks[1].part = 1
                 /\ \A j \in 1..Len(chunks) : chunks[j].line = lines[i]
  BY <1>1, ChunksFacts
<1>3. ss = [i \in 1..n |-> Equalizers!Chunks(lines[i])]
  BY <1>1
<1>4. \A i \in 1..n : ss[i] = Equalizers!Chunks(lines[i])
  BY <1>3
<1>5. ss \in Seq(Seq(FileChunk)) /\ Len(ss) = n
  <2>1. ss \in [1..n -> Seq(FileChunk)]
    <3> HIDE DEF n
    <3> QED
      BY <1>2, <1>3
  <2> HIDE DEF ss, n
  <2> QED
    BY <1>1, <2>1
<1> HIDE DEF ss, n
<1>6. /\ text \in Seq(FileChunk)
      /\ \A c \in 1..Len(text) : \E i \in 1..n : \E j \in 1..Len(ss[i]) : text[c] = ss[i][j]
      /\ \A i \in 1..n : \A j \in 1..Len(ss[i]) : \E c \in 1..Len(text) : text[c] = ss[i][j]
  <2>1. ss \in Seq(Seq(FileChunk)) /\ Len(ss) = n
    BY <1>5
  <2>2. /\ FlattenSeq(ss) \in Seq(FileChunk)
        /\ \A c \in 1..Len(FlattenSeq(ss)) :
              \E i \in 1..Len(ss) : \E j \in 1..Len(ss[i]) : FlattenSeq(ss)[c] = ss[i][j]
        /\ \A i \in 1..Len(ss) : \A j \in 1..Len(ss[i]) :
              \E c \in 1..Len(FlattenSeq(ss)) : FlattenSeq(ss)[c] = ss[i][j]
    BY <2>1, FlattenMembers, Zenon
  <2> QED
    BY <2>1, <2>2, Zenon
<1> HIDE DEF text
<1>7. \A i \in 1..n :
         /\ 1 \in 1..Len(ss[i]) /\ ss[i][1].part = 1
         /\ \A j \in 1..Len(ss[i]) : ss[i][j].line = lines[i]
  BY <1>2, <1>4
<1>8. ASSUME NEW c \in 1..Len(text)
      PROVE  \E i \in 1..n : text[c].line = lines[i]
  <2>1. PICK i \in 1..n : \E j \in 1..Len(ss[i]) : text[c] = ss[i][j]
    BY <1>6
  <2> QED
    BY <1>7, <2>1
<1>9. ASSUME NEW i \in 1..n
      PROVE  \E c \in 1..Len(text) : text[c].part = 1 /\ text[c].line = lines[i]
  <2>1. 1 \in 1..Len(ss[i]) /\ ss[i][1].part = 1 /\ ss[i][1].line = lines[i]
    BY <1>7
  <2>2. PICK c \in 1..Len(text) : text[c] = ss[i][1]
    BY <1>6, <2>1
  <2> QED
    BY <2>1, <2>2
<1> QED
  BY <1>6, <1>8, <1>9 DEF text, ss, n

\* The invariant of the files: what widgets show and what files hold has its type, and a
\* file that holds nothing of a longer one holds the settings that were saved.
EqualizerInv ==
    /\ keysOrder \in Seq(EqualizerKeys) /\ IsInjective(keysOrder)
    /\ eq \in [ToSet(keysOrder) -> Shown]
    /\ file \in Seq(FileChunk) /\ saved \in Seq(Shown)
    /\ whole \in BOOLEAN /\ fileEdits \in 0..MaxFileEdits
    /\ whole => HoldsExport(file, saved)

\* The settings that widgets show at first.
LEMMA DefaultShown == Equalizers!Default \in Shown
<1>1. Equalizers!MinFreq <= 100000 /\ 100000 <= Equalizers!MaxFreq
  BY DEF Equalizers!MinFreq, Equalizers!MaxFreq
<1>2. 100000 \in Equalizers!MinFreq..Equalizers!MaxFreq
  BY <1>1, FreqRange
<1>3. "None" \in Equalizers!FilterType
  BY DEF Equalizers!FilterType
<1>4. 0 \in Nat \ {Equalizers!NoGain}
  BY DEF Equalizers!NoGain
<1> QED
  BY <1>2, <1>3, <1>4 DEF Equalizers!Default, Shown

\* The elements of a sequence of keys.
LEMMA KeysFacts ==
  ASSUME NEW keys \in Seq(EqualizerKeys)
  PROVE  /\ ToSet(keys) \subseteq EqualizerKeys
         /\ \A i \in DOMAIN keys : keys[i] \in ToSet(keys)
  BY DEF ToSet

\* The invariant holds at the start.
LEMMA EqualizerInit == Equalizers!Init => EqualizerInv
<1> SUFFICES ASSUME Equalizers!Init
             PROVE  EqualizerInv
  OBVIOUS
<1> DEFINE n == Cardinality(EqualizerKeys)
           s == SetToSeq(EqualizerKeys)
<1>1. /\ n \in Nat /\ s \in [1..n -> EqualizerKeys]
      /\ \A x \in EqualizerKeys : \E i \in 1..n : s[i] = x
      /\ IsInjective(s)
  <2>1. IsFiniteSet(EqualizerKeys)
    BY EqualizerAssumption
  <2> QED
    BY <2>1, SetToSeqFacts
<1>2. keysOrder = s
  BY Zenon DEF Equalizers!Init, Equalizers!SetToSeq, SetToSeq, Equalizers!IsInjective, IsInjective,
         Equalizers!Cardinality, Cardinality
<1> HIDE DEF n, s
<1>3. s \in Seq(EqualizerKeys) /\ ToSet(s) = EqualizerKeys
  <2>1. s \in Seq(EqualizerKeys)
    BY <1>1
  <2>2. DOMAIN s = 1..n
    BY <1>1
  <2> QED
    BY <1>1, <2>1, <2>2 DEF ToSet
<1>4. eq \in [EqualizerKeys -> Shown]
  BY DefaultShown DEF Equalizers!Init
<1>5. /\ file = <<>> /\ saved = <<>> /\ whole = FALSE /\ fileEdits = 0
  BY DEF Equalizers!Init
<1>6. 0 \in 0..MaxFileEdits
  BY EqualizerAssumption
<1>7. file \in Seq(FileChunk) /\ saved \in Seq(Shown)
  BY <1>5
<1> QED
  BY <1>1, <1>2, <1>3, <1>4, <1>5, <1>6, <1>7 DEF EqualizerInv

\* A change of the settings or of the keys keeps the file.
LEMMA EqualizerSetStep ==
  ASSUME EqualizerInv, NEW k \in EqualizerKeys, NEW enabled \in BOOLEAN,
         NEW kind \in EqualizerTypes, NEW fc \in EqualizerFreqs,
         Equalizers!Set(k, enabled, kind, fc)
  PROVE  EqualizerInv'
<1> DEFINE new == [enabled |-> enabled, type |-> kind, fc |-> fc, gain |-> 1, q |-> 2]
<1>1. /\ kind \in Equalizers!FilterType /\ fc \in Equalizers!MinFreq..Equalizers!MaxFreq
      /\ MaxFileEdits \in Nat
  BY EqualizerAssumption
<1>2. new \in Shown
  <2>1. 1 \in Nat \ {Equalizers!NoGain}
    BY DEF Equalizers!NoGain
  <2> QED
    BY <1>1, <2>1 DEF Shown
<1> HIDE DEF new
<1>3. eq' = [eq EXCEPT ![k] = new] /\ k \in DOMAIN eq
  BY DEF Equalizers!Set, new
<1>4. eq' \in [ToSet(keysOrder) -> Shown]
  BY <1>2, <1>3 DEF EqualizerInv
<1>5. UNCHANGED <<keysOrder, file, saved, whole>> /\ fileEdits' \in 0..MaxFileEdits
  BY <1>1 DEF EqualizerInv, Equalizers!Set, Equalizers!Edit
<1> QED
  BY <1>4, <1>5 DEF EqualizerInv, ToSet, IsInjective, HoldsExport

\* So does another list of keys.
LEMMA EqualizerKeysStep ==
  ASSUME EqualizerInv, NEW K \in SUBSET EqualizerKeys, NEW keys \in SetToSeqs(K),
         Equalizers!SetKeys(keys)
  PROVE  EqualizerInv'
<1>1. IsFiniteSet(K) /\ MaxFileEdits \in Nat
  BY EqualizerAssumption, FS_Subset
<1>2. Cardinality(K) \in Nat
  BY <1>1, FS_CardinalityType
<1>3. keys \in [1..Cardinality(K) -> K] /\ IsInjective(keys)
  BY DEF SetToSeqs, IsInjective
<1>4. keys \in Seq(EqualizerKeys)
  <2>1. keys \in [1..Cardinality(K) -> EqualizerKeys]
    BY <1>3
  <2> QED
    BY <1>2, <2>1
<1>5. /\ keysOrder' = keys
      /\ eq' = [k \in ToSet(keys) |-> IF k \in DOMAIN eq THEN eq[k] ELSE Equalizers!Default]
  BY DEF Equalizers!SetKeys, Equalizers!ToSet, ToSet
<1>6. eq' \in [ToSet(keys) -> Shown]
  BY <1>5, DefaultShown DEF EqualizerInv
<1>7. UNCHANGED <<file, saved, whole>> /\ fileEdits' \in 0..MaxFileEdits
  BY <1>1 DEF EqualizerInv, Equalizers!SetKeys, Equalizers!Edit
<1> QED
  BY <1>3, <1>4, <1>5, <1>6, <1>7 DEF EqualizerInv, HoldsExport

\* An import keeps what widgets show in its range.
LEMMA EqualizerImportStep ==
  ASSUME EqualizerInv, Equalizers!OnImportAction
  PROVE  EqualizerInv'
<1> DEFINE K == ToSet(keysOrder)
<1>1. PICK read \in [0..Len(file) -> [K -> Shown]] : Reads(read, file, eq)
  <2>1. file \in Seq(FileChunk) /\ eq \in [K -> Shown]
    BY DEF EqualizerInv
  <2> QED
    BY <2>1, ImportedFacts
<1>2. Len(file) \in 0..Len(file)
  BY DEF EqualizerInv
<1>3. eq' = read[Len(file)]
  BY <1>1 DEF Reads, Equalizers!OnImportAction
<1>4. eq' \in [K -> Shown]
  BY <1>1, <1>2, <1>3
<1>5. UNCHANGED <<keysOrder, file, saved, whole, fileEdits>>
  BY DEF Equalizers!OnImportAction
<1> QED
  BY <1>4, <1>5 DEF EqualizerInv, HoldsExport, ToSet, IsInjective

\* Another program's file holds no settings that were saved.
LEMMA EqualizerOtherFileStep ==
  ASSUME EqualizerInv, NEW a \in FileLines \cup {<<>>}, NEW b \in FileLines \cup {<<>>},
         Equalizers!OtherFile(a \o b)
  PROVE  EqualizerInv'
<1>1. a \in Seq(FileLine) /\ b \in Seq(FileLine) /\ MaxFileEdits \in Nat
  <2>1. FileLines \subseteq Seq(FileLine) /\ <<>> \in Seq(FileLine) /\ MaxFileEdits \in Nat
    BY EqualizerAssumption
  <2> QED
    BY <2>1
<1> DEFINE lines == a \o b
<1>2. lines \in Seq(FileLine)
  BY <1>1
<1>3. file' = FlattenSeq([i \in DOMAIN lines |-> Equalizers!Chunks(lines[i])])
  BY SameFlatten DEF Equalizers!OtherFile
<1>4. UNCHANGED <<keysOrder, eq>> /\ saved' = <<>> /\ whole' = FALSE
      /\ fileEdits' \in 0..MaxFileEdits
  BY <1>1 DEF EqualizerInv, Equalizers!OtherFile, Equalizers!Edit
<1> HIDE DEF lines
<1>5. file' \in Seq(FileChunk)
  BY <1>2, <1>3, TextFacts
<1>6. saved' \in Seq(Shown)
  BY <1>4
<1> QED
  BY <1>4, <1>5, <1>6 DEF EqualizerInv, ToSet, IsInjective

\* A line that is exported is one of a file.
LEMMA ExportedLine ==
  ASSUME NEW i \in Nat, NEW s \in Shown
  PROVE  Exported(i, s) \in FileLine
<1>1. /\ s.enabled \in BOOLEAN /\ s.type \in Equalizers!FilterType /\ s.gain \in Nat /\ s.q \in Nat
      /\ s.fc \in Nat
  BY FreqRange DEF Shown
<1>2. Equalizers!WrittenFreq(s.fc) \in Nat
  <2> DEFINE fc == s.fc
  <2>1. fc \in Nat
    BY <1>1
  <2> HIDE DEF fc
  <2>2. (fc + 5) \div 10 \in Nat
    BY <2>1
  <2>3. ((fc + 5) \div 10) * 10 \in Nat
    BY <2>2
  <2> QED
    BY <2>1, <2>3 DEF Equalizers!WrittenFreq, fc
<1> QED
  BY <1>1, <1>2 DEF Exported, FileLine

\* An export writes a line per equalizer, over what the file held.
LEMMA EqualizerExportStep ==
  ASSUME EqualizerInv, Equalizers!OnExportAction
  PROVE  EqualizerInv'
<1> DEFINE n == Len(keysOrder)
           now == [i \in DOMAIN keysOrder |-> eq[keysOrder[i]]]
           lines == [i \in DOMAIN keysOrder |-> Equalizers!LineOf(i)]
           text == FlattenSeq([i \in DOMAIN lines |-> Equalizers!Chunks(lines[i])])
           tail == SubSeq(file, Len(text) + 1, Len(file))
<1>1. n \in Nat /\ DOMAIN keysOrder = 1..n /\ \A i \in 1..n : keysOrder[i] \in ToSet(keysOrder)
  <2>1. keysOrder \in Seq(EqualizerKeys)
    BY DEF EqualizerInv
  <2> QED
    BY <2>1, KeysFacts
<1>2. ASSUME NEW i \in 1..n
      PROVE  eq[keysOrder[i]] \in Shown /\ i \in Nat
  BY <1>1 DEF EqualizerInv
<1>3. now = [i \in 1..n |-> eq[keysOrder[i]]] /\ lines = [i \in 1..n |-> Equalizers!LineOf(i)]
  BY <1>1
<1>4. now \in Seq(Shown) /\ Len(now) = n /\ \A i \in 1..n : now[i] = eq[keysOrder[i]]
  <2>1. now \in [1..n -> Shown]
    BY <1>2, <1>3
  <2>2. \A i \in 1..n : now[i] = eq[keysOrder[i]]
    BY <1>3
  <2> HIDE DEF now, n
  <2> QED
    BY <1>1, <2>1, <2>2
<1>5. \A i \in 1..n : Equalizers!LineOf(i) = Exported(i, now[i])
  BY <1>3 DEF Equalizers!LineOf, Exported
<1> HIDE DEF now, n
<1>6. \A i \in 1..n : Exported(i, now[i]) \in FileLine
  BY <1>2, <1>4, ExportedLine
<1>7. lines \in Seq(FileLine) /\ Len(lines) = n /\ \A i \in 1..n : lines[i] = Exported(i, now[i])
  <2>1. lines \in [1..n -> FileLine]
    BY <1>3, <1>5, <1>6
  <2>2. \A i \in 1..n : lines[i] = Exported(i, now[i])
    BY <1>3, <1>5
  <2> HIDE DEF lines
  <2> QED
    BY <1>1, <2>1, <2>2
<1>8. /\ text \in Seq(FileChunk)
      /\ \A c \in 1..Len(text) : \E i \in 1..n : text[c].line = lines[i]
      /\ \A i \in 1..n : \E c \in 1..Len(text) : text[c].part = 1 /\ text[c].line = lines[i]
  <2> HIDE DEF lines
  <2> QED
    BY <1>7, TextFacts
<1>9. /\ file' = text \o tail /\ saved' = now /\ UNCHANGED <<keysOrder, eq, fileEdits>>
      /\ whole' = (\A i \in DOMAIN tail : tail[i].part # 1)
  <2>1. text = Equalizers!FlattenSeq([i \in DOMAIN keysOrder |->
                                        Equalizers!Chunks(Equalizers!LineOf(i))])
    <3>1. [i \in DOMAIN lines |-> Equalizers!Chunks(lines[i])] =
            [i \in DOMAIN keysOrder |-> Equalizers!Chunks(Equalizers!LineOf(i))]
      BY <1>3
    <3> HIDE DEF lines
    <3> QED
      BY <3>1, SameFlatten
  <2> HIDE DEF text
  <2> QED
    BY <2>1 DEF Equalizers!OnExportAction, now
<1> HIDE DEF text, lines
<1>10. tail \in Seq(FileChunk) /\ DOMAIN tail = 1..Len(tail) /\ Len(text) \in Nat
  <2>1. file \in Seq(FileChunk) /\ Len(text) \in Nat /\ Len(file) \in Nat
    BY <1>8 DEF EqualizerInv
  <2>2. tail \in Seq(FileChunk)
    BY <2>1, SubSeqProperties
  <2> HIDE DEF tail
  <2> QED
    BY <2>1, <2>2
<1> HIDE DEF tail
<1>11. /\ text \o tail \in Seq(FileChunk)
       /\ \A c \in 1..Len(text) : (text \o tail)[c] = text[c] /\ c \in 1..Len(text \o tail)
       /\ \A j \in 1..Len(tail) : (text \o tail)[Len(text) + j] = tail[j]
       /\ \A c \in 1..Len(text \o tail) :
             c \in 1..Len(text) \/ \E j \in 1..Len(tail) : c = Len(text) + j
  BY <1>8, <1>10, Concat
<1>12. ASSUME whole'
       PROVE  HoldsExport(file', saved')
  <2> DEFINE u == text \o tail
  <2>1. \A j \in 1..Len(tail) : tail[j].part # 1
    BY <1>9, <1>10, <1>12
  <2> HIDE DEF u
  <2>2. ASSUME NEW c \in 1..Len(u), u[c].part = 1
        PROVE  \E i \in 1..n : u[c].line = Exported(i, now[i])
    <3>1. c \in 1..Len(text) /\ u[c] = text[c]
      BY <1>11, <2>1, <2>2 DEF u
    <3> QED
      BY <1>7, <1>8, <3>1
  <2>3. ASSUME NEW i \in 1..n
        PROVE  \E c \in 1..Len(u) : u[c].part = 1 /\ u[c].line = Exported(i, now[i])
    <3>1. PICK c \in 1..Len(text) : text[c].part = 1 /\ text[c].line = lines[i]
      BY <1>8
    <3>2. c \in 1..Len(u) /\ u[c] = text[c]
      BY <1>11 DEF u
    <3> QED
      BY <1>7, <3>1, <3>2
  <2> QED
    BY <1>4, <1>9, <2>2, <2>3 DEF HoldsExport, u
<1>13. whole' \in BOOLEAN
  BY <1>9
<1> QED
  BY <1>4, <1>9, <1>11, <1>12, <1>13 DEF EqualizerInv, ToSet, IsInjective

\* Every step keeps the invariant.
LEMMA EqualizerStep == EqualizerInv /\ [Equalizers!Next]_(Equalizers!eqVars) => EqualizerInv'
<1> SUFFICES ASSUME EqualizerInv, [Equalizers!Next]_(Equalizers!eqVars)
             PROVE  EqualizerInv'
  OBVIOUS
<1>1. CASE \E k \in EqualizerKeys, enabled \in BOOLEAN, kind \in EqualizerTypes,
              fc \in EqualizerFreqs : Equalizers!Set(k, enabled, kind, fc)
  BY <1>1, EqualizerSetStep
<1>2. CASE \E K \in SUBSET EqualizerKeys : \E keys \in SetToSeqs(K) : Equalizers!SetKeys(keys)
  BY <1>2, EqualizerKeysStep
<1>3. CASE Equalizers!OnImportAction
  BY <1>3, EqualizerImportStep
<1>4. CASE Equalizers!OnExportAction
  BY <1>4, EqualizerExportStep
<1>5. CASE \E a, b \in FileLines \cup {<<>>} : Equalizers!OtherFile(a \o b)
  BY <1>5, EqualizerOtherFileStep
<1>6. CASE UNCHANGED Equalizers!eqVars
  BY <1>6 DEF EqualizerInv, Equalizers!eqVars, HoldsExport, ToSet, IsInjective
<1>7. Equalizers!Next =>
        \/ \E k \in EqualizerKeys, enabled \in BOOLEAN, kind \in EqualizerTypes,
              fc \in EqualizerFreqs : Equalizers!Set(k, enabled, kind, fc)
        \/ \E K \in SUBSET EqualizerKeys : \E keys \in SetToSeqs(K) : Equalizers!SetKeys(keys)
        \/ Equalizers!OnImportAction \/ Equalizers!OnExportAction
        \/ \E a, b \in FileLines \cup {<<>>} : Equalizers!OtherFile(a \o b)
  BY Zenon DEF Equalizers!Next, Equalizers!SetToSeqs, SetToSeqs, Equalizers!Cardinality, Cardinality
<1> QED
  BY <1>1, <1>2, <1>3, <1>4, <1>5, <1>6, <1>7

\* Files hold what was exported, and what widgets show can be shown, in every state.
THEOREM EqualizerInductive == Equalizers!Spec => []EqualizerInv
<1>1. Equalizers!Init => EqualizerInv
  BY EqualizerInit
<1>2. EqualizerInv /\ [Equalizers!Next]_(Equalizers!eqVars) => EqualizerInv'
  BY EqualizerStep
<1> QED
  BY <1>1, <1>2, PTL DEF Equalizers!Spec

\* RoundTrip: whatever was set since, whatever the keys and whatever another program left
\* behind the lines, an import of an exported file gives each equalizer the values that
\* were exported for it, if a file can hold them.
THEOREM FilesRestore == Equalizers!Spec => []RoundTrip
<1>1. EqualizerInv => RoundTrip
  <2> SUFFICES ASSUME EqualizerInv
               PROVE  RoundTrip
    OBVIOUS
  <2>1. \A s \in Shown : s \in Equalizers!Setting
    BY FreqRange DEF Shown, Equalizers!Setting
  <2>2. Equalizers!TypeOK
    <3>1. IsInjective(keysOrder) /\ ToSet(keysOrder) \subseteq EqualizerKeys
      BY KeysFacts DEF EqualizerInv
    <3>2. eq \in [ToSet(keysOrder) -> Equalizers!Setting]
      BY <2>1 DEF EqualizerInv
    <3>3. \A i \in DOMAIN file : file[i].part \in 1..2
      <4>1. \A i \in DOMAIN file : file[i] \in FileChunk
        BY DEF EqualizerInv
      <4> QED
        BY <4>1 DEF FileChunk
    <3>4. \A i \in DOMAIN saved : saved[i] \in Equalizers!Setting
      <4>1. \A i \in DOMAIN saved : saved[i] \in Shown
        BY DEF EqualizerInv
      <4> QED
        BY <2>1, <4>1
    <3>5. whole \in BOOLEAN /\ fileEdits \in 0..MaxFileEdits
      BY DEF EqualizerInv
    <3> QED
      BY <3>1, <3>2, <3>3, <3>4, <3>5
      DEF Equalizers!TypeOK, Equalizers!IsInjective, IsInjective, Equalizers!ToSet, ToSet
  <2>3. ASSUME whole, NEW i \in DOMAIN saved, i - 1 \in DOMAIN eq, Equalizers!Exportable(saved[i])
        PROVE  Equalizers!Imported(file, eq)[i - 1] = saved[i]
    <3>1. /\ file \in Seq(FileChunk) /\ saved \in Seq(Shown) /\ HoldsExport(file, saved)
          /\ i \in 1..Len(saved)
      BY <2>3 DEF EqualizerInv
    <3>2. eq \in [DOMAIN eq -> Shown]
      BY DEF EqualizerInv
    <3> QED
      BY <2>3, <3>1, <3>2, ImportRestores
  <2> QED
    BY <2>2, <2>3 DEF RoundTrip, Equalizers!RoundTrip
<1> QED
  BY <1>1, EqualizerInductive, PTL

(***************************************************************************)
(* The bytes of a connection.  First what the reader finds in a message:   *)
(* where strings and words end.                                            *)
(***************************************************************************)

\* A byte is a number of eight bits.
LEMMA Bytes == \A c : c \in Byte <=> c \in Int /\ 0 <= c /\ c <= 255
  BY DEF Byte

\* Every part of a sequence that was flattened is at a place behind the parts before.
LEMMA FlattenPlaces ==
  ASSUME NEW S, NEW ss \in Seq(Seq(S))
  PROVE  /\ FlattenSeq(ss) \in Seq(S)
         /\ \E at \in [0..Len(ss) -> Nat] :
               /\ at[0] = 0 /\ at[Len(ss)] = Len(FlattenSeq(ss))
               /\ \A k \in 1..Len(ss) :
                     /\ at[k] = at[k - 1] + Len(ss[k]) /\ at[k] <= Len(FlattenSeq(ss))
                     /\ \A i \in 1..Len(ss[k]) : FlattenSeq(ss)[at[k - 1] + i] = ss[k][i]
<1> DEFINE n == Len(ss)
<1>1. n \in Nat /\ \A i \in 1..n : ss[i] \in Seq(S)
  OBVIOUS
<1>2. PICK flat \in [0..n -> Seq(S)] :
         /\ flat[0] = <<>> /\ flat[n] = FlattenSeq(ss)
         /\ \A i \in 1..n : flat[i] = flat[i - 1] \o ss[i]
  BY FlattenFacts
<1> HIDE DEF n
<1> DEFINE at == [k \in 0..n |-> Len(flat[k])]
           Starts(m, k) == /\ Len(flat[k]) <= Len(flat[m])
                           /\ \A i \in 1..Len(flat[k]) : flat[m][i] = flat[k][i]
           D == {m \in Nat : m <= n => \A k \in 0..m : Starts(m, k)}
<1>3. \A k \in 0..n : flat[k] \in Seq(S) /\ Len(flat[k]) \in Nat
  BY <1>2
<1>4. \A k \in 1..n :
         /\ k - 1 \in 0..n /\ k \in 0..n
         /\ Len(flat[k]) = Len(flat[k - 1]) + Len(ss[k])
         /\ \A i \in 1..Len(flat[k - 1]) : flat[k][i] = flat[k - 1][i]
         /\ \A i \in 1..Len(ss[k]) :
               flat[k][Len(flat[k - 1]) + i] = ss[k][i] /\ Len(flat[k - 1]) + i \in 1..Len(flat[k])
  <2> SUFFICES ASSUME NEW k \in 1..n
               PROVE  /\ k - 1 \in 0..n /\ k \in 0..n
                      /\ Len(flat[k]) = Len(flat[k - 1]) + Len(ss[k])
                      /\ \A i \in 1..Len(flat[k - 1]) : flat[k][i] = flat[k - 1][i]
                      /\ \A i \in 1..Len(ss[k]) :
                            /\ flat[k][Len(flat[k - 1]) + i] = ss[k][i]
                            /\ Len(flat[k - 1]) + i \in 1..Len(flat[k])
    OBVIOUS
  <2>1. k - 1 \in 0..n /\ k \in 0..n
    BY <1>1
  <2>2. flat[k] = flat[k - 1] \o ss[k] /\ flat[k - 1] \in Seq(S) /\ ss[k] \in Seq(S)
    BY <1>1, <1>2, <2>1
  <2> DEFINE s == flat[k - 1]
             t == ss[k]
  <2>3. s \in Seq(S) /\ t \in Seq(S) /\ flat[k] = s \o t
    BY <2>2
  <2> HIDE DEF s, t
  <2>4. /\ Len(flat[k]) = Len(s) + Len(t)
        /\ \A i \in 1..Len(s) : flat[k][i] = s[i]
        /\ \A i \in 1..Len(t) : flat[k][Len(s) + i] = t[i] /\ Len(s) + i \in 1..Len(flat[k])
    BY <2>3, Concat
  <2> QED
    BY <2>1, <2>4 DEF s, t
<1>5. 0 \in D
  <2>1. \A k \in 0..0 : k = 0
    OBVIOUS
  <2>2. Starts(0, 0)
    BY <1>1, <1>3
  <2> HIDE DEF Starts
  <2> QED
    BY <2>1, <2>2
<1>6. ASSUME NEW m \in Nat, m \in D
      PROVE  m + 1 \in D
  <2> SUFFICES ASSUME m + 1 <= n, NEW k \in 0..(m + 1)
               PROVE  Starts(m + 1, k)
    OBVIOUS
  <2>1. m + 1 \in 1..n /\ (m + 1) - 1 = m /\ m <= n /\ m \in 0..n /\ m + 1 \in 0..n /\ k \in 0..n
    BY <1>1
  <2> DEFINE j == m + 1
  <2>a. j \in 1..n /\ j - 1 = m /\ j = m + 1
    BY <2>1
  <2> HIDE DEF j
  <2>b. ss[j] \in Seq(S)
    BY <1>1, <2>a
  <2>2. /\ Len(flat[m + 1]) = Len(flat[m]) + Len(ss[m + 1]) /\ Len(ss[m + 1]) \in Nat
        /\ \A i \in 1..Len(flat[m]) : flat[m + 1][i] = flat[m][i]
    <3>1. /\ Len(flat[j]) = Len(flat[j - 1]) + Len(ss[j])
          /\ \A i \in 1..Len(flat[j - 1]) : flat[j][i] = flat[j - 1][i]
      BY <1>4, <2>a, Zenon
    <3>2. Len(ss[j]) \in Nat
      BY <2>b
    <3> QED
      BY <2>a, <3>1, <3>2, Zenon
  <2>3. CASE k = m + 1
    BY <1>3, <2>1, <2>3
  <2>4. CASE k \in 0..m
    <3>1. Starts(m, k)
      BY <1>6, <2>1, <2>4
    <3>2. Len(flat[k]) \in Nat /\ Len(flat[m]) \in Nat /\ Len(flat[m + 1]) \in Nat
      BY <1>3, <2>1
    <3>3. \A i \in 1..Len(flat[k]) : i \in 1..Len(flat[m])
      BY <3>1, <3>2
    <3>4. Len(flat[k]) <= Len(flat[m + 1])
      <4> DEFINE x == Len(flat[k])
                 y == Len(flat[m])
                 w == Len(ss[m + 1])
      <4>1. x \in Nat /\ y \in Nat /\ w \in Nat /\ x <= y /\ Len(flat[m + 1]) = y + w
        BY <2>2, <3>1, <3>2
      <4> HIDE DEF x, y, w
      <4>2. x <= y + w
        BY <4>1
      <4> QED
        BY <4>1, <4>2 DEF x
    <3>5. ASSUME NEW i \in 1..Len(flat[k])
          PROVE  flat[m + 1][i] = flat[k][i]
      <4>1. flat[m + 1][i] = flat[m][i]
        BY <2>2, <3>3
      <4>2. flat[m][i] = flat[k][i]
        BY <3>1
      <4> QED
        BY <4>1, <4>2
    <3> QED
      BY <3>4, <3>5
  <2> QED
    BY <2>3, <2>4
<1>7. \A k \in 0..n : Starts(n, k)
  <2>1. n \in D
    <3> HIDE DEF D
    <3> QED
      BY <1>1, <1>5, <1>6, NatSetInduction
  <2>2. n <= n
    BY <1>1
  <2> HIDE DEF Starts
  <2> QED
    BY <2>1, <2>2
<1>8. at \in [0..n -> Nat] /\ at[0] = 0 /\ at[n] = Len(flat[n])
  BY <1>1, <1>2, <1>3
<1>9. ASSUME NEW k \in 1..n
      PROVE  /\ at[k] = at[k - 1] + Len(ss[k]) /\ at[k] <= Len(flat[n])
             /\ \A i \in 1..Len(ss[k]) : flat[n][at[k - 1] + i] = ss[k][i]
  <2>1. at[k] = Len(flat[k]) /\ at[k - 1] = Len(flat[k - 1]) /\ k \in 0..n
    BY <1>4
  <2>2. Starts(n, k)
    BY <1>7, <2>1
  <2> HIDE DEF at
  <2>3. ASSUME NEW i \in 1..Len(ss[k])
        PROVE  flat[n][at[k - 1] + i] = ss[k][i]
    <3>1. at[k - 1] + i \in 1..Len(flat[k]) /\ flat[k][at[k - 1] + i] = ss[k][i]
      BY <1>4, <2>1
    <3> QED
      BY <2>2, <3>1
  <2> QED
    BY <1>4, <2>1, <2>2, <2>3
<1>10. flat[n] \in Seq(S)
  BY <1>1, <1>3
<1> HIDE DEF at
<1> QED
  BY <1>2, <1>8, <1>9, <1>10 DEF n

\* A string is followed by NULs up to the end of a word.
LEMMA PaddedFacts ==
  ASSUME NEW s \in Seq(Byte)
  PROVE  LET p == Wire!WriteNextString(s)
         IN  /\ p \in Seq(Byte) /\ Len(p) = 4 * (Len(s) \div 4) + 4 /\ Len(s) < Len(p)
             /\ \A i \in 1..Len(s) : p[i] = s[i]
             /\ \A i \in (Len(s) + 1)..Len(p) : p[i] = 0
<1> DEFINE n == Len(s)
           w == 4 - (n % 4)
           z == [i \in 1..w |-> 0]
           p == s \o z
<1>1. Wire!WriteNextString(s) = p
  BY DEF Wire!WriteNextString, Wire!NUL
<1>2. n \in Nat
  OBVIOUS
<1> HIDE DEF n
<1>3. w \in 1..4 /\ n + w = 4 * (n \div 4) + 4 /\ w \in Nat
  BY <1>2
<1> HIDE DEF w
<1>4. z \in Seq(Byte) /\ Len(z) = w /\ \A i \in 1..w : z[i] = 0
  <2>1. 0 \in Byte
    BY Bytes
  <2>2. z \in [1..w -> Byte] /\ \A i \in 1..w : z[i] = 0
    BY <2>1
  <2> HIDE DEF z
  <2> QED
    BY <1>3, <2>2
<1> HIDE DEF z
<1>a. /\ p \in Seq(Byte) /\ Len(p) = Len(s) + Len(z)
      /\ \A i \in 1..Len(s) : p[i] = s[i]
      /\ \A j \in 1..Len(z) : p[Len(s) + j] = z[j]
  <2>1. s \in Seq(Byte) /\ z \in Seq(Byte)
    BY <1>4
  <2>2. /\ s \o z \in Seq(Byte) /\ Len(s \o z) = Len(s) + Len(z)
        /\ \A i \in 1..Len(s) : (s \o z)[i] = s[i] /\ i \in 1..Len(s \o z)
        /\ \A j \in 1..Len(z) : (s \o z)[Len(s) + j] = z[j] /\ Len(s) + j \in 1..Len(s \o z)
    BY <2>1, Concat, Zenon
  <2> QED
    BY <2>2, Zenon
<1> HIDE DEF p
<1>5. /\ p \in Seq(Byte) /\ Len(p) = n + w
      /\ \A i \in 1..n : p[i] = s[i]
      /\ \A j \in 1..w : p[n + j] = 0
  BY <1>4, <1>a DEF n
<1>6. ASSUME NEW i \in (n + 1)..Len(p)
      PROVE  p[i] = 0
  <2>1. i - n \in 1..w /\ n + (i - n) = i
    BY <1>2, <1>3, <1>5
  <2> QED
    BY <1>5, <2>1
<1>7. Len(p) = 4 * (n \div 4) + 4 /\ n < Len(p)
  BY <1>2, <1>3, <1>5
<1> QED
  BY <1>1, <1>5, <1>6, <1>7 DEF n

\* The first of its kind is found.
LEMMA FindFacts ==
  ASSUME NEW b \in Seq(Byte), NEW x, NEW from \in Nat \ {0}, NEW p \in from..Len(b), b[p] = x,
         \A i \in from..(p - 1) : b[i] # x
  PROVE  Wire!Find(b, x, from) = p
<1> DEFINE found == {i \in from..Len(b) : b[i] = x}
<1>1. p \in found
  OBVIOUS
<1>2. \A i \in found : p <= i /\ i \in Int
  <2> SUFFICES ASSUME NEW i \in from..Len(b), b[i] = x, ~(p <= i)
               PROVE  FALSE
    OBVIOUS
  <2>1. i \in from..(p - 1)
    OBVIOUS
  <2> QED
    BY <2>1
<1>3. Wire!Find(b, x, from) = CHOOSE y \in found : \A z \in found : y <= z
  BY <1>1 DEF Wire!Find, Wire!Min
<1> HIDE DEF found
<1>4. p \in Int
  OBVIOUS
<1>5. \A y \in found : (\A z \in found : y <= z) => y = p
  BY <1>1, <1>2, <1>4
<1> QED
  BY <1>1, <1>2, <1>3, <1>5

\* After a string comes the next word.
LEMMA NextWordFacts ==
  ASSUME NEW j \in Nat, NEW n \in Nat
  PROVE  Wire!NextWord((4 * j) + (n + 1)) = (4 * j) + ((4 * (n \div 4)) + 4) + 1
<1>1. (((4 * j) + (n + 1)) + 3) \div 4 = j + ((n \div 4) + 1)
  OBVIOUS
<1> QED
  BY <1>1 DEF Wire!NextWord

\* A part of a sequence is known by its elements.
LEMMA SubSeqIs ==
  ASSUME NEW S, NEW b \in Seq(S), NEW v \in Seq(S), NEW p \in Nat, p + Len(v) <= Len(b),
         \A i \in 1..Len(v) : b[p + i] = v[i]
  PROVE  SubSeq(b, p + 1, p + Len(v)) = v
<1> DEFINE n == Len(v)
           q == p + n
           sub == SubSeq(b, p + 1, q)
<1>1. n \in Nat /\ Len(b) \in Nat /\ p + n <= Len(b) /\ v = [i \in 1..n |-> v[i]]
  OBVIOUS
<1>2. \A i \in 1..n : b[p + i] = v[i]
  OBVIOUS
<1> HIDE DEF n
<1> DEFINE m == p + 1
<1>3. m \in Int /\ q \in Int /\ 1 <= m /\ q <= Len(b) /\ q - m + 1 = n /\ (m <= q \/ n = 0)
  BY <1>1
<1>d. \A i \in 1..Len(b) : b[i] \in S
  OBVIOUS
<1>a. \A i \in m..q : b[i] \in S
  <2> HIDE DEF m, q
  <2> SUFFICES ASSUME NEW i \in m..q
               PROVE  b[i] \in S
    OBVIOUS
  <2>1. i \in 1..Len(b)
    BY <1>1, <1>3
  <2> QED
    BY <1>d, <2>1
<1>c. SubSeq(b, m, q) \in Seq(S) /\ Len(SubSeq(b, m, q)) = (IF m <= q THEN q - m + 1 ELSE 0)
      /\ \A i \in 1..(q - m + 1) : SubSeq(b, m, q)[i] = b[m + i - 1]
  <2> HIDE DEF q, m
  <2> QED
    BY <1>3, <1>a, SubSeqProperties
<1> HIDE DEF q
<1>4. /\ sub \in Seq(S) /\ Len(sub) = n
      /\ \A i \in 1..n : sub[i] = b[(p + 1) + i - 1]
  BY <1>1, <1>3, <1>c
<1> HIDE DEF sub
<1>5. \A i \in 1..n : (p + 1) + i - 1 = p + i
  BY <1>1
<1>6. \A i \in 1..n : sub[i] = v[i]
  BY <1>2, <1>4, <1>5
<1>7. sub = [i \in 1..n |-> sub[i]]
  BY <1>4
<1> QED
  BY <1>1, <1>6, <1>7 DEF sub, n, q

\* Every type of an argument has its letter.
LEMMA TypeOfChar ==
  ASSUME NEW t \in DOMAIN Wire!Char
  PROVE  Wire!TypeOf(Wire!Char[t]) = t /\ Wire!Char[t] \in Byte /\ Wire!Char[t] # 0
<1>1. DOMAIN Wire!Char = {"s", "i", "f", "T", "F", "h", "d", "t", "m"}
  BY DEF Wire!Char
<1>2. \A u \in DOMAIN Wire!Char : Wire!Char[u] = Wire!Char[t] => u = t
  BY <1>1 DEF Wire!Char
<1>3. Wire!Char[t] \in Int /\ 0 < Wire!Char[t] /\ Wire!Char[t] <= 255
  BY <1>1 DEF Wire!Char
<1> QED
  BY <1>2, <1>3, Bytes DEF Wire!TypeOf

\* What an argument is to its reader.
Known(t, v) == [type |-> t, bytes |-> IF t \in {"s", "i", "f"} THEN v ELSE <<>>]

\* The bytes of an argument fill words.
LEMMA ArgumentBytesFacts ==
  ASSUME NEW a, a.type \in DOMAIN Wire!Char, a.bytes \in Value(a.type)
  PROVE  /\ Wire!ArgumentBytes(a) \in Seq(Byte)
         /\ \E w \in Nat : Len(Wire!ArgumentBytes(a)) = 4 * w
<1> DEFINE t == a.type
           v == a.bytes
<1>1. t \in {"s", "i", "f", "T", "F", "h", "d", "t", "m"}
  BY DEF Wire!Char
<1>2. CASE t = "s"
  <2>1. v \in Seq(Byte \ {0})
    BY <1>2 DEF Value
  <2>2. v \in Seq(Byte)
    BY <2>1
  <2>3. /\ Wire!WriteNextString(v) \in Seq(Byte)
        /\ Len(Wire!WriteNextString(v)) = 4 * (Len(v) \div 4) + 4
    BY <2>2, PaddedFacts
  <2> DEFINE w == Len(v) \div 4
  <2>4. w \in Nat
    <3> DEFINE n == Len(v)
    <3>1. n \in Nat
      BY <2>2
    <3> HIDE DEF n
    <3>2. n \div 4 \in Nat
      BY <3>1
    <3> QED
      BY <3>2 DEF n
  <2>5. Wire!ArgumentBytes(a) \in Seq(Byte) /\ Len(Wire!ArgumentBytes(a)) = 4 * w + 4
    BY <1>2, <2>3 DEF Wire!ArgumentBytes
  <2> HIDE DEF w, v, t
  <2>6. w + 1 \in Nat /\ 4 * w + 4 = 4 * (w + 1)
    BY <2>4
  <2> QED
    BY <2>5, <2>6
<1>3. CASE t \in {"T", "F"}
  <2>1. v = <<>>
    BY <1>3 DEF Value
  <2>2. Wire!ArgumentBytes(a) = <<>> /\ Len(<<>>) = 4 * 0
    BY <1>3, <2>1 DEF Wire!ArgumentBytes
  <2> QED
    BY <2>2
<1>4. CASE t \in {"i", "f", "h", "d", "t", "m"}
  <2>1. v \in Seq(Byte) /\ Len(v) = Wire!Width(t)
    BY <1>4 DEF Value
  <2>2. Wire!Width(t) = 4 * 1 \/ Wire!Width(t) = 4 * 2
    BY <1>4 DEF Wire!Width
  <2>3. Wire!ArgumentBytes(a) = v
    BY <1>4 DEF Wire!ArgumentBytes
  <2> QED
    BY <2>1, <2>2, <2>3
<1> QED
  BY <1>1, <1>2, <1>3, <1>4

\* An argument is read where its bytes are.
LEMMA ArgumentFacts ==
  ASSUME NEW b \in Seq(Byte), NEW j \in Nat, NEW a,
         a.type \in DOMAIN Wire!Char, a.bytes \in Value(a.type),
         4 * j + Len(Wire!ArgumentBytes(a)) <= Len(b),
         \A i \in 1..Len(Wire!ArgumentBytes(a)) : b[4 * j + i] = Wire!ArgumentBytes(a)[i]
  PROVE  Wire!NextArgument(b, a.type, 4 * j + 1)
            = [argument |-> Known(a.type, a.bytes), within |-> TRUE,
               marker |-> 4 * j + Len(Wire!ArgumentBytes(a)) + 1]
<1> DEFINE t == a.type
           v == a.bytes
           e == Wire!ArgumentBytes(a)
<1>1. t \in {"s", "i", "f", "T", "F", "h", "d", "t", "m"}
  BY DEF Wire!Char
<1>2. CASE t = "s"
  <2>1. v \in Seq(Byte \ {0}) /\ e = Wire!WriteNextString(v)
    BY <1>2 DEF Value, Wire!ArgumentBytes
  <2>2. v \in Seq(Byte) /\ Len(v) \in Nat /\ \A i \in 1..Len(v) : v[i] # 0
    BY <2>1
  <2>3. /\ e \in Seq(Byte) /\ Len(e) = 4 * (Len(v) \div 4) + 4 /\ Len(v) < Len(e)
        /\ \A i \in 1..Len(v) : e[i] = v[i]
        /\ \A i \in (Len(v) + 1)..Len(e) : e[i] = 0
    <3> HIDE DEF e, v
    <3>1. v \in Seq(Byte) /\ e = Wire!WriteNextString(v)
      BY <2>1, <2>2
    <3> QED
      BY <3>1, PaddedFacts
  <2> DEFINE n == Len(v)
             p == 4 * j + (n + 1)
  <2>4. 4 * j + Len(e) <= Len(b) /\ \A i \in 1..Len(e) : b[4 * j + i] = e[i]
    OBVIOUS
  <2> HIDE DEF e, v, t
  <2>5. n \in Nat /\ Len(e) \in Nat /\ Len(b) \in Nat /\ n < Len(e)
    BY <2>2, <2>3
  <2> DEFINE from == 4 * j + 1
  <2>6. from \in Nat \ {0} /\ p \in from..Len(b) /\ p \in Nat
    BY <2>4, <2>5
  <2>7. b[p] = 0
    BY <2>3, <2>4, <2>5
  <2>8. ASSUME NEW i \in from..(p - 1)
        PROVE  b[i] # 0
    <3>1. i - 4 * j \in 1..n /\ 4 * j + (i - 4 * j) = i /\ i - 4 * j \in 1..Len(e)
      BY <2>5
    <3>2. b[i] = v[i - 4 * j]
      BY <2>3, <2>4, <3>1
    <3> QED
      BY <2>2, <3>1, <3>2
  <2>9. Wire!Find(b, 0, from) = p
    <3> HIDE DEF p, from
    <3> QED
      BY <2>6, <2>7, <2>8, FindFacts
  <2>10. p - 1 = 4 * j + n /\ (p - 1) + 1 = p /\ p <= Len(b) /\ 4 * j + n <= Len(b) /\ 4 * j \in Nat
    BY <2>4, <2>5
  <2>11. SubSeq(b, from, p - 1) = v
    <3>1. \A i \in 1..Len(v) : b[4 * j + i] = v[i]
      BY <2>2, <2>3, <2>4, <2>5
    <3> DEFINE r == 4 * j
    <3>2. r \in Nat /\ r + Len(v) <= Len(b) /\ from = r + 1 /\ p - 1 = r + Len(v)
          /\ \A i \in 1..Len(v) : b[r + i] = v[i]
      BY <2>10, <3>1
    <3> HIDE DEF r, from, p
    <3>3. SubSeq(b, r + 1, r + Len(v)) = v
      BY <2>2, <3>2, SubSeqIs
    <3> QED
      BY <3>2, <3>3
  <2>12. Wire!NextWord(p) = 4 * j + Len(e) + 1
    <3>1. n \in Nat /\ Len(e) = 4 * (n \div 4) + 4
      BY <2>3, <2>5
    <3> HIDE DEF n
    <3>2. Wire!NextWord((4 * j) + (n + 1)) = (4 * j) + ((4 * (n \div 4)) + 4) + 1
      BY <3>1, NextWordFacts
    <3> QED
      BY <3>1, <3>2
  <2>13. Wire!NextArgument(b, "s", from)
           = [argument |-> [type |-> "s", bytes |-> v], within |-> TRUE, marker |-> 4 * j + Len(e) + 1]
    <3> HIDE DEF p, from
    <3> QED
      BY <2>9, <2>10, <2>11, <2>12 DEF Wire!NextArgument, Wire!NUL
  <2> QED
    BY <1>2, <2>13 DEF Known, t, v, e
<1>3. CASE t # "s"
  <2>1. e = v
    BY <1>3 DEF Wire!ArgumentBytes
  <2>2. v \in Seq(Byte) /\ Len(v) = Wire!Width(t) /\ Len(v) \in Nat
    <3>1. CASE t \in {"T", "F"}
      <4>1. v = <<>> /\ Len(<<>>) = 0 /\ <<>> \in Seq(Byte)
        BY <3>1 DEF Value
      <4>2. Wire!Width(t) = 0
        BY <3>1 DEF Wire!Width
      <4> QED
        BY <4>1, <4>2, Zenon
    <3>2. CASE t \in {"i", "f", "h", "d", "t", "m"}
      BY <3>2 DEF Value
    <3> QED
      BY <1>1, <1>3, <3>1, <3>2
  <2> DEFINE r == 4 * j
  <2>3. r \in Nat /\ r + Len(v) <= Len(b) /\ \A i \in 1..Len(v) : b[r + i] = v[i]
    <3>1. r \in Nat
      OBVIOUS
    <3>2. r + Len(e) <= Len(b) /\ \A i \in 1..Len(e) : b[r + i] = e[i]
      OBVIOUS
    <3> HIDE DEF r, e, v
    <3> QED
      BY <2>1, <3>1, <3>2, Zenon
  <2> HIDE DEF r, e, v, t
  <2>4. SubSeq(b, r + 1, r + Len(v)) = v
    BY <2>2, <2>3, SubSeqIs
  <2>5. (r + 1) + Len(v) - 1 = r + Len(v) /\ (r + Len(v)) + 1 = r + Len(v) + 1
    BY <2>2, <2>3
  <2>6. Wire!NextArgument(b, t, r + 1)
          = [argument |-> [type |-> t, bytes |-> IF t \in {"s", "i", "f"} THEN v ELSE <<>>],
             within |-> TRUE, marker |-> r + Len(v) + 1]
    BY <1>3, <2>2, <2>3, <2>4, <2>5 DEF Wire!NextArgument
  <2> QED
    BY <2>1, <2>6 DEF Known, t, v, e, r
<1> QED
  BY <1>2, <1>3

\* OscRoot reads a packet whose arguments are where their types say.
LEMMA ReadFacts ==
  ASSUME NEW b, NEW c \in Nat, NEW n \in Nat, NEW place, NEW V, NEW known \in Seq(V), Len(known) = n,
         Wire!ParseMessage(b) = [parsed |-> TRUE, comma |-> c, end |-> c + n + 1],
         Wire!NextWord(c + n + 1) = place[0],
         \A k \in 1..n : Wire!NextArgument(b, Wire!TypeOf(b[c + k]), place[k - 1])
                            = [argument |-> known[k], within |-> TRUE, marker |-> place[k]]
  PROVE  Wire!ReadMessage(b) = [address |-> SubSeq(b, 1, Wire!Find(b, 0, 1) - 1), arguments |-> known]
<1> DEFINE p == Wire!ParseMessage(b)
           Body(f, k) ==
              IF k = 0 THEN [arguments |-> <<>>, marker |-> Wire!NextWord(p.end), within |-> TRUE]
              ELSE IF ~f[k - 1].within THEN f[k - 1]
              ELSE LET a == Wire!NextArgument(b, Wire!TypeOf(b[p.comma + k]), f[k - 1].marker)
                   IN  [arguments |-> Append(f[k - 1].arguments, a.argument),
                        marker |-> a.marker, within |-> a.within]
           read == CHOOSE f : f = [k \in 0..(p.end - p.comma - 1) |-> Body(f, k)]
           g == [k \in 0..n |-> [arguments |-> SubSeq(known, 1, k), marker |-> place[k], within |-> TRUE]]
<1>1. Wire!ReadMessage(b)
        = IF read[p.end - p.comma - 1].within
          THEN [address |-> SubSeq(b, 1, Wire!Find(b, 0, 1) - 1),
                arguments |-> read[p.end - p.comma - 1].arguments]
          ELSE Wire!Unreadable
  BY DEF Wire!ReadMessage, Wire!NUL
<1>2. p.end - p.comma - 1 = n /\ p.comma = c /\ p.end = c + n + 1
  OBVIOUS
<1> HIDE DEF p
<1>3. SubSeq(known, 1, 0) = <<>> /\ SubSeq(known, 1, n) = known
  OBVIOUS
<1>4. \A k \in 1..n : Append(SubSeq(known, 1, k - 1), known[k]) = SubSeq(known, 1, k)
  OBVIOUS
<1>5. \A k \in 0..n : g[k] = Body(g, k)
  <2> SUFFICES ASSUME NEW k \in 0..n
               PROVE  g[k] = Body(g, k)
    OBVIOUS
  <2>1. CASE k = 0
    BY <1>2, <1>3, <2>1
  <2>2. CASE k # 0
    <3>1. k \in 1..n /\ k - 1 \in 0..n
      BY <2>2
    <3>2. g[k - 1] = [arguments |-> SubSeq(known, 1, k - 1), marker |-> place[k - 1], within |-> TRUE]
      BY <3>1
    <3>3. g[k] = [arguments |-> SubSeq(known, 1, k), marker |-> place[k], within |-> TRUE]
      OBVIOUS
    <3> HIDE DEF g
    <3>4. Wire!NextArgument(b, Wire!TypeOf(b[c + k]), g[k - 1].marker)
            = [argument |-> known[k], within |-> TRUE, marker |-> place[k]]
      BY <3>1, <3>2
    <3>5. Append(g[k - 1].arguments, known[k]) = g[k].arguments
      <4>1. Append(SubSeq(known, 1, k - 1), known[k]) = SubSeq(known, 1, k)
        BY <1>4, <3>1
      <4>2. g[k - 1].arguments = SubSeq(known, 1, k - 1) /\ g[k].arguments = SubSeq(known, 1, k)
        BY <3>2, <3>3
      <4> QED
        BY <4>1, <4>2, Zenon
    <3> DEFINE next == Wire!NextArgument(b, Wire!TypeOf(b[p.comma + k]), g[k - 1].marker)
    <3>6. next.argument = known[k] /\ next.within = TRUE /\ next.marker = place[k]
      BY <1>2, <3>4
    <3>7. Body(g, k) = [arguments |-> Append(g[k - 1].arguments, next.argument),
                        marker |-> next.marker, within |-> next.within]
      BY <2>2, <3>2
    <3> HIDE DEF next, Body
    <3>8. g[k] = [arguments |-> g[k].arguments, marker |-> place[k], within |-> TRUE]
      BY <3>3
    <3> QED
      BY <3>5, <3>6, <3>7, <3>8
  <2> QED
    BY <2>1, <2>2
<1>6. g = [k \in 0..n |-> g[k]]
  OBVIOUS
<1>7. \E f : f = [k \in 0..n |-> Body(f, k)]
  <2> HIDE DEF Body, g
  <2>1. g = [k \in 0..n |-> Body(g, k)]
    BY <1>5, <1>6
  <2> QED
    BY <2>1
<1>8. read = [k \in 0..n |-> Body(read, k)]
  <2> HIDE DEF Body
  <2> QED
    BY <1>2, <1>7, Zenon
<1>9. \A k \in 0..n : read[k] = Body(read, k)
  <2> HIDE DEF Body, read
  <2> QED
    BY <1>8, Zenon
<1> HIDE DEF read
<1> DEFINE D == {m \in Nat : m <= n => read[m] = g[m]}
<1>10. 0 \in D
  <2>1. Body(g, 0) = Body(read, 0)
    OBVIOUS
  <2>2. 0 \in 0..n
    OBVIOUS
  <2> HIDE DEF Body, g
  <2>3. g[0] = Body(g, 0) /\ read[0] = Body(read, 0)
    BY <1>5, <1>9, <2>2
  <2> QED
    BY <2>1, <2>3, Zenon
<1>11. ASSUME NEW m \in Nat, m \in D
       PROVE  m + 1 \in D
  <2> SUFFICES ASSUME m + 1 <= n
               PROVE  read[m + 1] = g[m + 1]
    OBVIOUS
  <2> DEFINE i == m + 1
  <2>1. i \in 0..n /\ i # 0 /\ i - 1 = m /\ m <= n
    OBVIOUS
  <2> HIDE DEF i, g
  <2>2. read[i - 1] = g[i - 1]
    BY <1>11, <2>1
  <2>3. Body(read, i) = Body(g, i)
    BY <2>2
  <2>4. read[i] = Body(read, i) /\ g[i] = Body(g, i)
    <3> HIDE DEF Body
    <3> QED
      BY <1>5, <1>9, <2>1
  <2> QED
    BY <2>3, <2>4, Zenon DEF i
<1>12. read[n] = g[n]
  <2>1. n \in D
    <3> HIDE DEF D
    <3> QED
      BY <1>10, <1>11, NatSetInduction
  <2> QED
    BY <2>1
<1>13. read[n].within /\ read[n].arguments = known
  BY <1>3, <1>12
<1> QED
  BY <1>1, <1>2, <1>13

\* The packet b has n types behind the comma at c; the k-th argument is known[k] and ends
\* before place[k].
HasArguments(b, c, n, place, known) ==
    /\ c \in Nat /\ n \in Nat /\ IsSeq(known) /\ Len(known) = n
    /\ Wire!ParseMessage(b) = [parsed |-> TRUE, comma |-> c, end |-> c + n + 1]
    /\ Wire!NextWord(c + n + 1) = place[0]
    /\ \A k \in 1..n : Wire!NextArgument(b, Wire!TypeOf(b[c + k]), place[k - 1])
                          = [argument |-> known[k], within |-> TRUE, marker |-> place[k]]

\* Those are the arguments that OscRoot reads.
LEMMA ReadsArguments ==
  ASSUME NEW b, NEW c, NEW n, NEW place, NEW known, HasArguments(b, c, n, place, known)
  PROVE  Wire!ReadMessage(b) = [address |-> SubSeq(b, 1, Wire!Find(b, 0, 1) - 1), arguments |-> known]
<1>1. PICK V : known \in Seq(V)
  BY DEF HasArguments, IsSeq
<1>2. c \in Nat
  BY DEF HasArguments
<1>3. n \in Nat
  BY DEF HasArguments
<1>4. Len(known) = n
  BY DEF HasArguments
<1>5. Wire!ParseMessage(b) = [parsed |-> TRUE, comma |-> c, end |-> c + n + 1]
  BY DEF HasArguments
<1>6. Wire!NextWord(c + n + 1) = place[0]
  BY DEF HasArguments
<1>7. \A k \in 1..n : Wire!NextArgument(b, Wire!TypeOf(b[c + k]), place[k - 1])
                         = [argument |-> known[k], within |-> TRUE, marker |-> place[k]]
  BY DEF HasArguments
<1> QED
  BY ONLY <1>1, <1>2, <1>3, <1>4, <1>5, <1>6, <1>7, ReadFacts

\* The sequences of FlattenSeq are the same in every module.
LEMMA WireFlatten == \A ss : Wire!FlattenSeq(ss) = FlattenSeq(ss)
  BY DEF Wire!FlattenSeq, FlattenSeq

\* Multiples of four: what is put together of words is made of words.
LEMMA WordPlaces ==
  ASSUME NEW n \in Nat, NEW base \in Nat, NEW at \in [0..n -> Nat], NEW len \in [1..n -> Nat], at[0] = 0,
         \A k \in 1..n : at[k] = at[k - 1] + 4 * len[k]
  PROVE  \E place \in [0..n -> Nat] : \A k \in 0..n : 4 * place[k] = 4 * base + at[k]
<1> DEFINE Word(k) == \E w \in Nat : 4 * w = 4 * base + at[k]
           D == {m \in Nat : m <= n => Word(m)}
<1>1. 0 \in D
  <2>1. 4 * base = 4 * base + at[0] /\ 0 \in 0..n
    OBVIOUS
  <2>2. Word(0)
    BY <2>1
  <2> HIDE DEF Word
  <2> QED
    BY <2>2
<1>2. ASSUME NEW m \in Nat, m \in D
      PROVE  m + 1 \in D
  <2> SUFFICES ASSUME m + 1 <= n
               PROVE  Word(m + 1)
    OBVIOUS
  <2> DEFINE i == m + 1
  <2>1. i \in 1..n /\ i - 1 = m /\ m \in 0..n /\ m <= n
    OBVIOUS
  <2>2. PICK w \in Nat : 4 * w = 4 * base + at[m]
    BY <1>2, <2>1
  <2> HIDE DEF i
  <2>3. at[i] = at[m] + 4 * len[i] /\ len[i] \in Nat /\ at[m] \in Nat
    BY <2>1
  <2> DEFINE x == len[i]
             y == at[m]
             z == at[i]
  <2>4. w + x \in Nat /\ 4 * (w + x) = 4 * base + z
    <3>1. 4 * w = 4 * base + y /\ z = y + 4 * x /\ x \in Nat /\ y \in Nat
      BY <2>2, <2>3
    <3> HIDE DEF x, y, z
    <3> QED
      BY <3>1
  <2>5. Word(i)
    BY <2>4
  <2> QED
    BY <2>5 DEF i
<1>3. \A k \in 0..n : Word(k)
  <2> HIDE DEF Word
  <2> SUFFICES ASSUME NEW k \in 0..n
               PROVE  Word(k)
    OBVIOUS
  <2>1. k \in Nat /\ k <= n
    OBVIOUS
  <2>2. k \in D
    <3> HIDE DEF D
    <3> QED
      BY <1>1, <1>2, <2>1, NatSetInduction
  <2> QED
    BY <2>1, <2>2
<1> DEFINE place == [k \in 0..n |-> CHOOSE w \in Nat : 4 * w = 4 * base + at[k]]
<1>4. \A k \in 0..n : place[k] \in Nat /\ 4 * place[k] = 4 * base + at[k]
  BY <1>3
<1>5. place \in [0..n -> Nat]
  <2>1. place = [k \in 0..n |-> place[k]]
    OBVIOUS
  <2> HIDE DEF place
  <2> QED
    BY <1>4, <2>1
<1> HIDE DEF place
<1> QED
  BY <1>4, <1>5

\* The place of the first type of an address of length a.
FirstType(a) == 4 * (a \div 4) + 5

\* Where the parts of a message are in its bytes; places are counted in words.
Layout(b, m, place) ==
    LET a == Len(m.address)
        n == Len(m.arguments)
        c == FirstType(a)
        e(k) == Wire!ArgumentBytes(m.arguments[k])
    IN  /\ b \in Seq(Byte) /\ a < c /\ c + n + 1 <= Len(b)
        /\ \A i \in 1..a : b[i] = m.address[i]
        /\ \A i \in (a + 1)..(c - 1) : b[i] = 0
        /\ b[c] = 44 /\ b[c + n + 1] = 0
        /\ \A k \in 1..n : b[c + k] = Wire!Char[m.arguments[k].type]
        /\ place \in [0..n -> Nat] /\ Wire!NextWord(c + n + 1) = 4 * place[0] + 1
        /\ \A k \in 1..n :
              /\ 4 * place[k] = 4 * place[k - 1] + Len(e(k)) /\ 4 * place[k] <= Len(b)
              /\ \A i \in 1..Len(e(k)) : b[4 * place[k - 1] + i] = e(k)[i]

\* What is assumed of a message.
LEMMA MessageFacts ==
  ASSUME NEW m \in WireMessage
  PROVE  /\ m = [address |-> m.address, arguments |-> m.arguments]
         /\ m.address \in Seq(Byte) /\ Len(m.address) \in Nat /\ Len(m.address) > 1 /\ m.address[1] = 47
         /\ \A i \in 1..Len(m.address) : m.address[i] # 0
         /\ Len(m.arguments) \in Nat /\ DOMAIN m.arguments = 1..Len(m.arguments)
         /\ \A k \in 1..Len(m.arguments) :
               /\ m.arguments[k] = [type |-> m.arguments[k].type, bytes |-> m.arguments[k].bytes]
               /\ m.arguments[k].type \in DOMAIN Wire!Char
               /\ m.arguments[k].bytes \in Value(m.arguments[k].type)
<1>1. /\ m = [address |-> m.address, arguments |-> m.arguments]
      /\ m.address \in Seq(Byte \ {0}) /\ Len(m.address) > 1 /\ m.address[1] = 47
      /\ m.arguments \in Seq([type : DOMAIN Wire!Char, bytes : Seq(Byte)])
      /\ \A k \in DOMAIN m.arguments : m.arguments[k].bytes \in Value(m.arguments[k].type)
  BY WireAssumption, Zenon
<1>2. m.address \in Seq(Byte) /\ Len(m.address) \in Nat /\ \A i \in 1..Len(m.address) : m.address[i] # 0
  BY <1>1
<1> DEFINE T == DOMAIN Wire!Char
           Argument == [type : T, bytes : Seq(Byte)]
           args == m.arguments
<1>3. args \in Seq(Argument)
  BY <1>1
<1>a. \A x \in Argument : x = [type |-> x.type, bytes |-> x.bytes] /\ x.type \in T
  <2> HIDE DEF T
  <2> QED
    OBVIOUS
<1> HIDE DEF T, Argument, args
<1>4. /\ Len(args) \in Nat /\ DOMAIN args = 1..Len(args)
      /\ \A k \in 1..Len(args) : args[k] \in Argument
  BY <1>3
<1>5. \A k \in 1..Len(args) :
         args[k] = [type |-> args[k].type, bytes |-> args[k].bytes] /\ args[k].type \in T
  BY <1>a, <1>4
<1> QED
  BY <1>1, <1>2, <1>4, <1>5 DEF T, args

\* The parts of a message are where the reader looks for them.
LEMMA MessageLayout ==
  ASSUME NEW m \in WireMessage
  PROVE  \E place : Layout(Wire!WriteMessage(m), m, place)
<1> DEFINE A == m.address
           a == Len(A)
           args == m.arguments
           n == Len(args)
           types == [k \in 1..n |-> Wire!Char[args[k].type]]
           C == <<44>> \o types
           ss == [k \in 1..n |-> Wire!ArgumentBytes(args[k])]
           P == Wire!WriteNextString(A)
           Q == Wire!WriteNextString(C)
           R == FlattenSeq(ss)
           PQ == P \o Q
           b == PQ \o R
           c == FirstType(a)
<1>1. Wire!WriteMessage(m) = b
  BY MessageFacts, WireFlatten DEF Wire!WriteMessage, Wire!COMMA
<1>2. /\ A \in Seq(Byte) /\ a \in Nat /\ n \in Nat
      /\ \A k \in 1..n : args[k].type \in DOMAIN Wire!Char /\ args[k].bytes \in Value(args[k].type)
  BY MessageFacts
<1> HIDE DEF A, args, n
<1>3. types \in Seq(Byte) /\ Len(types) = n /\ \A k \in 1..n : types[k] = Wire!Char[args[k].type] /\ types[k] # 0
  <2>1. \A k \in 1..n : Wire!Char[args[k].type] \in Byte /\ Wire!Char[args[k].type] # 0
    BY <1>2, TypeOfChar
  <2>2. types \in [1..n -> Byte]
    BY <2>1
  <2>3. \A k \in 1..n : types[k] = Wire!Char[args[k].type]
    OBVIOUS
  <2> HIDE DEF types
  <2> QED
    BY <1>2, <2>1, <2>2, <2>3
<1> HIDE DEF types
<1>4. C \in Seq(Byte) /\ Len(C) = n + 1 /\ C[1] = 44 /\ \A k \in 1..n : C[1 + k] = types[k]
  <2> DEFINE comma == <<44>>
  <2>1. comma \in Seq(Byte) /\ Len(comma) = 1 /\ comma[1] = 44
    BY Bytes
  <2> HIDE DEF comma
  <2>2. /\ comma \o types \in Seq(Byte) /\ Len(comma \o types) = Len(comma) + Len(types)
        /\ \A i \in 1..Len(comma) : (comma \o types)[i] = comma[i] /\ i \in 1..Len(comma \o types)
        /\ \A j \in 1..Len(types) :
              /\ (comma \o types)[Len(comma) + j] = types[j]
              /\ Len(comma) + j \in 1..Len(comma \o types)
    <3>1. comma \in Seq(Byte) /\ types \in Seq(Byte)
      BY <1>3, <2>1
    <3> QED
      BY <3>1, Concat, Zenon
  <2>3. 1 \in 1..1 /\ 1 + n = n + 1
    BY <1>2
  <2> QED
    BY <1>3, <2>1, <2>2, <2>3 DEF comma
<1> HIDE DEF C
<1>5. /\ P \in Seq(Byte) /\ Len(P) = 4 * (a \div 4) + 4 /\ a < Len(P)
      /\ \A i \in 1..a : P[i] = A[i]
      /\ \A i \in (a + 1)..Len(P) : P[i] = 0
  BY <1>2, PaddedFacts
<1>6. /\ Q \in Seq(Byte) /\ Len(Q) = 4 * (Len(C) \div 4) + 4 /\ Len(C) < Len(Q)
      /\ \A i \in 1..Len(C) : Q[i] = C[i]
      /\ \A i \in (Len(C) + 1)..Len(Q) : Q[i] = 0
  BY <1>4, PaddedFacts
<1>7. /\ ss \in Seq(Seq(Byte)) /\ Len(ss) = n
      /\ \A k \in 1..n : ss[k] = Wire!ArgumentBytes(args[k]) /\ \E w \in Nat : Len(ss[k]) = 4 * w
  <2>1. \A k \in 1..n : Wire!ArgumentBytes(args[k]) \in Seq(Byte)
                        /\ \E w \in Nat : Len(Wire!ArgumentBytes(args[k])) = 4 * w
    BY <1>2, ArgumentBytesFacts
  <2>2. ss \in [1..n -> Seq(Byte)] /\ \A k \in 1..n : ss[k] = Wire!ArgumentBytes(args[k])
    BY <2>1
  <2> HIDE DEF ss
  <2> QED
    BY <1>2, <2>1, <2>2
<1> HIDE DEF ss, P, Q
<1>8. R \in Seq(Byte)
  BY <1>7, FlattenPlaces
<1>9. PICK at \in [0..n -> Nat] :
         /\ at[0] = 0 /\ at[n] = Len(R)
         /\ \A k \in 1..n :
               /\ at[k] = at[k - 1] + Len(ss[k]) /\ at[k] <= Len(R)
               /\ \A i \in 1..Len(ss[k]) : R[at[k - 1] + i] = ss[k][i]
  <2>1. ss \in Seq(Seq(Byte)) /\ Len(ss) = n
    BY <1>7
  <2>2. \E at \in [0..Len(ss) -> Nat] :
           /\ at[0] = 0 /\ at[Len(ss)] = Len(FlattenSeq(ss))
           /\ \A k \in 1..Len(ss) :
                 /\ at[k] = at[k - 1] + Len(ss[k]) /\ at[k] <= Len(FlattenSeq(ss))
                 /\ \A i \in 1..Len(ss[k]) : FlattenSeq(ss)[at[k - 1] + i] = ss[k][i]
    BY <2>1, FlattenPlaces, Zenon
  <2> HIDE DEF R
  <2> QED
    BY <2>1, <2>2, Zenon DEF R
<1> HIDE DEF R
<1>10. /\ PQ \in Seq(Byte) /\ Len(PQ) = Len(P) + Len(Q)
       /\ \A i \in 1..Len(P) : PQ[i] = P[i] /\ i \in 1..Len(PQ)
       /\ \A j \in 1..Len(Q) : PQ[Len(P) + j] = Q[j] /\ Len(P) + j \in 1..Len(PQ)
  BY <1>5, <1>6, Concat, Zenon
<1> HIDE DEF PQ
<1>11. /\ b \in Seq(Byte) /\ Len(b) = Len(PQ) + Len(R)
       /\ \A i \in 1..Len(PQ) : b[i] = PQ[i] /\ i \in 1..Len(b)
       /\ \A j \in 1..Len(R) : b[Len(PQ) + j] = R[j] /\ Len(PQ) + j \in 1..Len(b)
  BY <1>8, <1>10, Concat, Zenon
<1> HIDE DEF b
<1>12. /\ \A i \in 1..Len(P) : b[i] = P[i]
       /\ \A j \in 1..Len(Q) : b[Len(P) + j] = Q[j]
  <2>1. \A i \in 1..Len(P) : b[i] = P[i]
    BY <1>10, <1>11
  <2>2. ASSUME NEW j \in 1..Len(Q)
        PROVE  b[Len(P) + j] = Q[j]
    <3>1. Len(P) + j \in 1..Len(PQ) /\ PQ[Len(P) + j] = Q[j]
      BY <1>10
    <3> QED
      BY <1>11, <3>1
  <2> QED
    BY <2>1, <2>2
<1> DEFINE p == Len(P)
           q == Len(Q)
           j0 == a \div 4 + 1
           w0 == (n + 1) \div 4 + 1
<1>13. p \in Nat /\ q \in Nat /\ Len(R) \in Nat /\ c = p + 1 /\ n + 1 < q /\ a < p
  BY <1>2, <1>4, <1>5, <1>6, <1>8 DEF FirstType
<1>14. j0 \in Nat /\ w0 \in Nat /\ p = 4 * j0 /\ q = 4 * w0
  BY <1>2, <1>4, <1>5, <1>6
<1>15. Wire!NextWord(c + n + 1) = p + q + 1
  <2> DEFINE k == n + 1
  <2>1. k \in Nat /\ 4 * (k \div 4) + 4 = q /\ c + n + 1 = 4 * j0 + (k + 1)
    <3>1. k \in Nat
      BY <1>2
    <3>2. q = 4 * (k \div 4) + 4
      BY <1>14, <3>1
    <3>3. c + n + 1 = 4 * j0 + (k + 1)
      BY <1>2, <1>13, <1>14
    <3> QED
      BY <3>1, <3>2, <3>3
  <2> HIDE DEF k, j0, q, p, c, w0
  <2>2. Wire!NextWord((4 * j0) + (k + 1)) = (4 * j0) + ((4 * (k \div 4)) + 4) + 1
    BY <1>14, <2>1, NextWordFacts
  <2> QED
    BY <1>13, <1>14, <2>1, <2>2
<1> HIDE DEF j0, w0
<1>16. PICK place \in [0..n -> Nat] : \A k \in 0..n : 4 * place[k] = 4 * (j0 + w0) + at[k]
  <2> DEFINE len == [k \in 1..n |-> CHOOSE w \in Nat : Len(ss[k]) = 4 * w]
             base == j0 + w0
  <2>1. \A k \in 1..n : len[k] \in Nat /\ Len(ss[k]) = 4 * len[k]
    BY <1>7
  <2>2. len \in [1..n -> Nat]
    <3>1. len = [k \in 1..n |-> len[k]]
      OBVIOUS
    <3> HIDE DEF len
    <3> QED
      BY <2>1, <3>1
  <2>3. base \in Nat
    BY <1>14
  <2> HIDE DEF len, base
  <2>4. \A k \in 1..n : at[k] = at[k - 1] + 4 * len[k]
    BY <1>9, <2>1
  <2>5. \E place \in [0..n -> Nat] : \A k \in 0..n : 4 * place[k] = 4 * base + at[k]
    BY <1>2, <1>9, <2>2, <2>3, <2>4, WordPlaces
  <2> QED
    BY <2>5 DEF base
<1>17. \A k \in 0..n : 4 * place[k] = Len(PQ) + at[k] /\ at[k] \in Nat
  <2>1. Len(PQ) = Len(P) + Len(Q)
    BY <1>10
  <2>2. Len(PQ) = 4 * (j0 + w0)
    BY <1>14, <2>1
  <2> QED
    BY <1>16, <2>2
<1>18. a < c /\ c + n + 1 <= Len(b)
  BY <1>2, <1>10, <1>11, <1>13
<1>19. /\ \A i \in 1..a : b[i] = A[i]
       /\ \A i \in (a + 1)..(c - 1) : b[i] = 0
  <2>1. ASSUME NEW i \in 1..a
        PROVE  b[i] = A[i]
    <3>1. i \in 1..Len(P)
      BY <1>2, <1>13
    <3> QED
      BY <1>5, <1>12, <3>1
  <2>2. ASSUME NEW i \in (a + 1)..(c - 1)
        PROVE  b[i] = 0
    <3>1. i \in (a + 1)..Len(P) /\ i \in 1..Len(P)
      BY <1>2, <1>13
    <3> QED
      BY <1>5, <1>12, <3>1
  <2> QED
    BY <2>1, <2>2
<1>20. b[c] = 44 /\ b[c + n + 1] = 0 /\ \A k \in 1..n : b[c + k] = Wire!Char[args[k].type]
  <2>1. 1 \in 1..Len(Q) /\ 1 \in 1..Len(C) /\ c = Len(P) + 1
    BY <1>2, <1>4, <1>13
  <2>2. b[c] = 44
    BY <1>4, <1>6, <1>12, <2>1
  <2>3. n + 2 \in 1..Len(Q) /\ n + 2 \in (Len(C) + 1)..Len(Q) /\ c + n + 1 = Len(P) + (n + 2)
    BY <1>2, <1>4, <1>13
  <2>4. b[c + n + 1] = 0
    BY <1>6, <1>12, <2>3
  <2>5. ASSUME NEW k \in 1..n
        PROVE  b[c + k] = Wire!Char[args[k].type]
    <3>1. 1 + k \in 1..Len(Q) /\ 1 + k \in 1..Len(C) /\ c + k = Len(P) + (1 + k)
      BY <1>2, <1>4, <1>13
    <3>2. b[c + k] = Q[1 + k] /\ Q[1 + k] = C[1 + k]
      BY <1>6, <1>12, <3>1
    <3> QED
      BY <1>3, <1>4, <3>2
  <2> QED
    BY <2>2, <2>4, <2>5
<1>21. Wire!NextWord(c + n + 1) = 4 * place[0] + 1
  <2>1. 0 \in 0..n
    BY <1>2
  <2>2. 4 * place[0] = Len(PQ)
    BY <1>9, <1>10, <1>13, <1>17, <2>1
  <2> QED
    BY <1>10, <1>13, <1>15, <2>2
<1>22. ASSUME NEW k \in 1..n
       PROVE  /\ 4 * place[k] = 4 * place[k - 1] + Len(ss[k]) /\ 4 * place[k] <= Len(b)
              /\ \A i \in 1..Len(ss[k]) : b[4 * place[k - 1] + i] = ss[k][i]
  <2>1. k \in 0..n /\ k - 1 \in 0..n
    BY <1>2
  <2>2. 4 * place[k] = Len(PQ) + at[k] /\ 4 * place[k - 1] = Len(PQ) + at[k - 1]
        /\ at[k] \in Nat /\ at[k - 1] \in Nat
    BY <1>17, <2>1
  <2>3. at[k] = at[k - 1] + Len(ss[k]) /\ at[k] <= Len(R) /\ Len(ss[k]) \in Nat /\ Len(PQ) \in Nat
    BY <1>7, <1>9, <1>10, <1>13
  <2> DEFINE x == place[k]
             y == place[k - 1]
             x2 == at[k]
             y2 == at[k - 1]
             l == Len(ss[k])
             s == Len(PQ)
             r == Len(R)
  <2>a. /\ 4 * x = s + x2 /\ 4 * y = s + y2 /\ x2 \in Nat /\ y2 \in Nat
        /\ x2 = y2 + l /\ x2 <= r /\ l \in Nat /\ s \in Nat /\ r \in Nat /\ Len(b) = s + r
    BY <1>11, <1>13, <2>2, <2>3
  <2>b. 4 * x = 4 * y + l /\ 4 * x <= s + r
    <3> HIDE DEF x, y, x2, y2, l, s, r
    <3> QED
      BY <2>a
  <2>4. 4 * place[k] = 4 * place[k - 1] + Len(ss[k]) /\ 4 * place[k] <= Len(b)
    BY <2>a, <2>b
  <2>5. ASSUME NEW i \in 1..Len(ss[k])
        PROVE  b[4 * place[k - 1] + i] = ss[k][i]
    <3>1. y2 + i \in 1..r
      <4>1. i \in 1..l
        OBVIOUS
      <4> HIDE DEF y2, r, l, x2
      <4> QED
        BY <2>a, <4>1
    <3>2. R[at[k - 1] + i] = ss[k][i]
      BY <1>9
    <3>3. 4 * place[k - 1] + i = Len(PQ) + (at[k - 1] + i)
      BY <2>2, <2>3
    <3> QED
      BY <1>11, <3>1, <3>2, <3>3
  <2> QED
    BY <2>4, <2>5
<1>23. Layout(b, m, place)
  <2>1. \A k \in 1..n : ss[k] = Wire!ArgumentBytes(args[k])
    BY <1>7
  <2> HIDE DEF c, a
  <2>2. /\ b \in Seq(Byte) /\ place \in [0..n -> Nat]
    BY <1>11
  <2>3. \A k \in 1..n :
           /\ 4 * place[k] = 4 * place[k - 1] + Len(Wire!ArgumentBytes(args[k])) /\ 4 * place[k] <= Len(b)
           /\ \A i \in 1..Len(Wire!ArgumentBytes(args[k])) :
                 b[4 * place[k - 1] + i] = Wire!ArgumentBytes(args[k])[i]
    BY <1>22, <2>1
  <2> QED
    BY <1>18, <1>19, <1>20, <1>21, <2>2, <2>3, Zenon DEF Layout, A, a, args, n, c
<1> QED
  BY <1>1, <1>23

\* A message is read as DAMC understands it.
LEMMA MessageRead ==
  ASSUME NEW m \in WireMessage
  PROVE  LET b == Wire!WriteMessage(m)
         IN  /\ b \in Seq(Byte) /\ Len(b) \in Nat /\ Len(b) > 0 /\ b[1] = 47
             /\ Wire!Legible(b) /\ Wire!ReadMessage(b) = Wire!Understood(m)
             /\ Wire!Understood(m).address # <<47>>
<1> DEFINE b == Wire!WriteMessage(m)
           A == m.address
           a == Len(A)
           args == m.arguments
           n == Len(args)
           c == FirstType(a)
           e(k) == Wire!ArgumentBytes(args[k])
           known == [k \in 1..n |-> Known(args[k].type, args[k].bytes)]
<1>1. PICK place : Layout(b, m, place)
  BY MessageLayout
<1>2. /\ A \in Seq(Byte) /\ a \in Nat /\ a > 1 /\ A[1] = 47 /\ n \in Nat
      /\ \A i \in 1..a : A[i] # 0
      /\ m = [address |-> A, arguments |-> args] /\ DOMAIN args = 1..n
      /\ \A k \in 1..n :
            /\ args[k] = [type |-> args[k].type, bytes |-> args[k].bytes]
            /\ args[k].type \in DOMAIN Wire!Char /\ args[k].bytes \in Value(args[k].type)
  BY MessageFacts
<1>3. /\ b \in Seq(Byte) /\ a < c /\ c + n + 1 <= Len(b)
      /\ \A i \in 1..a : b[i] = A[i]
      /\ \A i \in (a + 1)..(c - 1) : b[i] = 0
      /\ b[c] = 44 /\ b[c + n + 1] = 0
      /\ \A k \in 1..n : b[c + k] = Wire!Char[args[k].type]
      /\ place \in [0..n -> Nat] /\ Wire!NextWord(c + n + 1) = 4 * place[0] + 1
      /\ \A k \in 1..n :
            /\ 4 * place[k] = 4 * place[k - 1] + Len(e(k)) /\ 4 * place[k] <= Len(b)
            /\ \A i \in 1..Len(e(k)) : b[4 * place[k - 1] + i] = e(k)[i]
  BY <1>1 DEF Layout
<1>4. c \in Nat /\ a + 1 <= c - 1
  BY <1>2 DEF FirstType
<1> HIDE DEF b, A, args, n, c
<1> HIDE DEF a
<1>5. Len(b) \in Nat /\ Len(b) > 0 /\ b[1] = 47
  <2>1. Len(b) \in Nat
    BY <1>3
  <2> QED
    BY <1>2, <1>3, <1>4, <2>1
<1>6. Wire!Find(b, 0, 1) = a + 1
  <2> DEFINE p == a + 1
  <2>1. p \in 1..Len(b) /\ 1 \in Nat \ {0} /\ b[p] = 0
    <3>1. a \in Nat /\ n \in Nat /\ a + 1 <= c - 1 /\ c \in Nat /\ c + n + 1 <= Len(b) /\ Len(b) \in Nat
      BY <1>2, <1>3, <1>4, <1>5
    <3>2. a + 1 \in (a + 1)..(c - 1)
      BY <3>1
    <3>3. b[a + 1] = 0
      BY <1>3, <3>2
    <3> QED
      BY <3>1, <3>3
  <2>2. \A i \in 1..(p - 1) : b[i] # 0
    <3>1. p - 1 = a
      BY <1>2
    <3>2. \A i \in 1..a : b[i] = A[i] /\ A[i] # 0
      BY <1>2, <1>3
    <3> QED
      BY <3>1, <3>2
  <2> HIDE DEF p
  <2>3. Wire!Find(b, 0, 1) = p
    <3>1. b \in Seq(Byte)
      BY <1>3
    <3>2. 1 \in Nat \ {0}
      BY <2>1
    <3>3. p \in 1..Len(b)
      BY <2>1
    <3>4. b[p] = 0
      BY <2>1
    <3>5. \A i \in 1..(p - 1) : b[i] # 0
      BY <2>2
    <3> QED
      BY ONLY <3>1, <3>2, <3>3, <3>4, <3>5, FindFacts
  <2> QED
    BY <2>3 DEF p
<1>7. Wire!Find(b, 44, a + 1) = c
  <2> DEFINE from == a + 1
  <2>1. from \in Nat \ {0} /\ c \in from..Len(b) /\ b[c] = 44
    BY <1>2, <1>3, <1>4, <1>5
  <2>2. \A i \in from..(c - 1) : b[i] # 44
    BY <1>3
  <2> HIDE DEF from
  <2>3. Wire!Find(b, 44, from) = c
    <3>1. b \in Seq(Byte)
      BY <1>3
    <3>2. from \in Nat \ {0}
      BY <2>1
    <3>3. c \in from..Len(b)
      BY <2>1
    <3>4. b[c] = 44
      BY <2>1
    <3>5. \A i \in from..(c - 1) : b[i] # 44
      BY <2>2
    <3> QED
      BY ONLY <3>1, <3>2, <3>3, <3>4, <3>5, FindFacts
  <2> QED
    BY <2>3 DEF from
<1>8. Wire!Find(b, 0, c) = c + n + 1
  <2> DEFINE p == c + n + 1
  <2>1. c \in Nat \ {0} /\ p \in c..Len(b) /\ b[p] = 0
    <3>1. a \in Nat /\ n \in Nat /\ a + 1 <= c - 1 /\ c \in Nat /\ c + n + 1 <= Len(b) /\ Len(b) \in Nat
      BY <1>2, <1>3, <1>4, <1>5
    <3>2. b[p] = 0
      BY <1>3
    <3>3. c \in Nat \ {0} /\ c <= p /\ p <= Len(b) /\ p \in Int
      BY <3>1
    <3>4. c \in Int /\ Len(b) \in Int
      BY <3>1
    <3> HIDE DEF p
    <3> QED
      BY <3>2, <3>3, <3>4
  <2>2. ASSUME NEW i \in c..(p - 1)
        PROVE  b[i] # 0
    <3>1. CASE i = c
      BY <1>3, <3>1
    <3>2. CASE i # c
      <4>1. i - c \in 1..n /\ c + (i - c) = i
        BY <1>2, <1>4, <3>2
      <4>2. b[i] = Wire!Char[args[i - c].type]
        BY <1>3, <4>1
      <4> QED
        BY <1>2, <4>1, <4>2, TypeOfChar
    <3> QED
      BY <3>1, <3>2
  <2> HIDE DEF p
  <2>3. Wire!Find(b, 0, c) = p
    <3>1. b \in Seq(Byte)
      BY <1>3
    <3>2. c \in Nat \ {0}
      BY <2>1
    <3>3. p \in c..Len(b)
      BY <2>1
    <3>4. b[p] = 0
      BY <2>1
    <3>5. \A i \in c..(p - 1) : b[i] # 0
      BY <2>2
    <3> QED
      BY ONLY <3>1, <3>2, <3>3, <3>4, <3>5, FindFacts
  <2> QED
    BY <2>3 DEF p
<1>9. Wire!ParseMessage(b) = [parsed |-> TRUE, comma |-> c, end |-> c + n + 1]
  <2>1. c <= Len(b) /\ c + n + 1 <= Len(b)
    BY <1>2, <1>3, <1>4, <1>5
  <2> QED
    BY <1>6, <1>7, <1>8, <2>1 DEF Wire!ParseMessage, Wire!NUL, Wire!COMMA
<1>10. \A k \in 1..n : Wire!TypeOf(b[c + k]) = args[k].type
  BY <1>2, <1>3, TypeOfChar
<1> DEFINE V == {known[k] : k \in 1..n}
           marker == [k \in 0..n |-> 4 * place[k] + 1]
<1>11. known \in Seq(V) /\ Len(known) = n /\ \A k \in 1..n : known[k] = Known(args[k].type, args[k].bytes)
  <2>1. known \in [1..n -> V] /\ \A k \in 1..n : known[k] = Known(args[k].type, args[k].bytes)
    OBVIOUS
  <2> HIDE DEF known, V
  <2> QED
    BY <1>2, <2>1
<1> HIDE DEF known, V
<1>12. ASSUME NEW k \in 1..n
       PROVE  Wire!NextArgument(b, Wire!TypeOf(b[c + k]), marker[k - 1])
                 = [argument |-> known[k], within |-> TRUE, marker |-> marker[k]]
  <2> DEFINE j == place[k - 1]
  <2>1. k - 1 \in 0..n /\ k \in 0..n
    BY <1>2
  <2>2. j \in Nat /\ marker[k - 1] = 4 * j + 1 /\ marker[k] = 4 * place[k] + 1
    BY <1>3, <2>1
  <2>3. /\ 4 * place[k] = 4 * j + Len(e(k)) /\ 4 * j + Len(e(k)) <= Len(b)
        /\ \A i \in 1..Len(e(k)) : b[4 * j + i] = e(k)[i]
    BY <1>3
  <2> HIDE DEF marker, j
  <2> DEFINE arg == args[k]
  <2>4. /\ arg.type \in DOMAIN Wire!Char /\ arg.bytes \in Value(arg.type)
        /\ 4 * j + Len(Wire!ArgumentBytes(arg)) <= Len(b)
        /\ \A i \in 1..Len(Wire!ArgumentBytes(arg)) : b[4 * j + i] = Wire!ArgumentBytes(arg)[i]
    BY <1>2, <2>3
  <2> HIDE DEF arg
  <2>5. Wire!NextArgument(b, arg.type, 4 * j + 1)
            = [argument |-> Known(arg.type, arg.bytes), within |-> TRUE,
               marker |-> 4 * j + Len(Wire!ArgumentBytes(arg)) + 1]
    BY <1>3, <2>2, <2>4, ArgumentFacts
  <2> QED
    BY <1>10, <1>11, <2>2, <2>3, <2>5 DEF arg
<1>13. Wire!NextWord(c + n + 1) = marker[0]
  BY <1>2, <1>3
<1> HIDE DEF marker
<1>14. Wire!ReadMessage(b) = [address |-> SubSeq(b, 1, a), arguments |-> known]
  <2>1. Wire!ReadMessage(b) = [address |-> SubSeq(b, 1, Wire!Find(b, 0, 1) - 1), arguments |-> known]
    <3>1. c \in Nat /\ n \in Nat /\ known \in Seq(V) /\ Len(known) = n
      BY <1>2, <1>4, <1>11
    <3>2. \A k \in 1..n : Wire!NextArgument(b, Wire!TypeOf(b[c + k]), marker[k - 1])
                            = [argument |-> known[k], within |-> TRUE, marker |-> marker[k]]
      BY <1>12
    <3>3. IsSeq(known)
      BY <3>1 DEF IsSeq
    <3>4. Wire!NextWord(c + n + 1) = marker[0]
      BY <1>13
    <3>5. Wire!ParseMessage(b) = [parsed |-> TRUE, comma |-> c, end |-> c + n + 1]
      BY <1>9
    <3>6. HasArguments(b, c, n, marker, known)
      BY <3>1, <3>2, <3>3, <3>4, <3>5, Zenon DEF HasArguments
    <3> QED
      BY <3>6, ReadsArguments, Zenon
  <2>2. Wire!Find(b, 0, 1) - 1 = a
    BY <1>2, <1>6
  <2> QED
    BY <2>1, <2>2
<1>15. SubSeq(b, 1, a) = A
  <2>1. 0 + Len(A) <= Len(b) /\ \A i \in 1..Len(A) : b[0 + i] = A[i]
    BY <1>2, <1>3, <1>4, <1>5 DEF a
  <2>2. SubSeq(b, 0 + 1, 0 + Len(A)) = A
    BY <1>2, <1>3, <2>1, SubSeqIs
  <2>3. 0 + 1 = 1 /\ 0 + Len(A) = Len(A)
    BY <1>2 DEF a
  <2> QED
    BY <2>2, <2>3 DEF a
<1>16. Wire!Understood(m) = [address |-> A, arguments |-> known]
  <2> DEFINE un == [k \in DOMAIN args |->
                      IF args[k].type \in {"s", "i", "f"} THEN args[k] ELSE [args[k] EXCEPT !.bytes = <<>>]]
  <2>1. \A k \in 1..n : un[k] = Known(args[k].type, args[k].bytes)
    <3> SUFFICES ASSUME NEW k \in 1..n
                 PROVE  un[k] = Known(args[k].type, args[k].bytes)
      OBVIOUS
    <3>1. args[k] = [type |-> args[k].type, bytes |-> args[k].bytes]
      BY <1>2
    <3>2. un[k] = IF args[k].type \in {"s", "i", "f"} THEN args[k] ELSE [args[k] EXCEPT !.bytes = <<>>]
      BY <1>2
    <3>3. [args[k] EXCEPT !.bytes = <<>>] = [type |-> args[k].type, bytes |-> <<>>]
      BY <3>1
    <3> QED
      BY <3>1, <3>2, <3>3 DEF Known
  <2>2. un = [k \in 1..n |-> un[k]]
    BY <1>2
  <2>3. known = [k \in 1..n |-> known[k]]
    BY <1>11
  <2>4. Wire!Understood(m) = [m EXCEPT !.arguments = un]
    BY DEF Wire!Understood, args
  <2> HIDE DEF un
  <2>5. un = known
    BY <1>11, <2>1, <2>2, <2>3
  <2> QED
    BY <1>2, <2>4, <2>5
<1>17. Wire!Legible(b)
  <2> DEFINE p == Wire!ParseMessage(b)
  <2>1. p.parsed /\ p.comma = c /\ p.end = c + n + 1
    BY <1>9
  <2> HIDE DEF p
  <2>2. ASSUME NEW k \in (p.comma + 1)..(p.end - 1)
        PROVE  \E t \in DOMAIN Wire!Char : Wire!Char[t] = b[k]
    <3> DEFINE j == k - c
    <3>1. j \in 1..n /\ c + j = k
      BY <1>2, <1>4, <2>1
    <3> HIDE DEF j
    <3>2. b[k] = Wire!Char[args[j].type]
      BY <1>3, <3>1
    <3>3. args[j].type \in DOMAIN Wire!Char
      BY <1>2, <3>1
    <3> QED
      BY <3>2, <3>3, Zenon
  <2> QED
    BY <2>1, <2>2 DEF Wire!Legible, p
<1>18. [address |-> A, arguments |-> known].address # <<47>>
  <2>1. Len(<<47>>) = 1
    OBVIOUS
  <2> QED
    BY <1>2, <2>1 DEF a
<1> QED
  BY <1>3, <1>5, <1>14, <1>15, <1>16, <1>17, <1>18 DEF b

\* A packet that starts as a null message does, or none.
Nulls(b) == b # <<>> => Len(b) >= 8 /\ \A i \in 1..8 : b[i] = Wire!NullMessage[i]

\* It is read as the null message.
LEMMA NullRead ==
  ASSUME NEW b \in Seq(Byte), b # <<>>, Nulls(b)
  PROVE  b[1] = 47 /\ Wire!Legible(b) /\ Wire!ReadMessage(b).address = <<47>>
<1>1. /\ Len(b) \in Nat /\ Len(b) >= 8 /\ b[1] = 47 /\ b[2] = 0 /\ b[3] = 0 /\ b[4] = 0 /\ b[5] = 44 /\ b[6] = 0
  <2>1. Len(b) \in Nat /\ Len(b) >= 8 /\ \A i \in 1..8 : b[i] = Wire!NullMessage[i]
    BY DEF Nulls
  <2>2. 1 \in 1..8 /\ 2 \in 1..8 /\ 3 \in 1..8 /\ 4 \in 1..8 /\ 5 \in 1..8 /\ 6 \in 1..8
    OBVIOUS
  <2> QED
    BY <2>1, <2>2 DEF Wire!NullMessage, Wire!COMMA
<1>2. Wire!Find(b, 0, 1) = 2
  <2>1. 2 \in 1..Len(b) /\ 1 \in Nat \ {0} /\ \A i \in 1..(2 - 1) : b[i] # 0
    BY <1>1
  <2> QED
    BY <1>1, <2>1, FindFacts
<1>3. Wire!Find(b, 44, 2) = 5
  <2>1. 5 \in 2..Len(b) /\ 2 \in Nat \ {0}
    BY <1>1
  <2>2. \A i \in 2..(5 - 1) : i = 2 \/ i = 3 \/ i = 4
    OBVIOUS
  <2>3. \A i \in 2..(5 - 1) : b[i] # 44
    BY <1>1, <2>2
  <2> QED
    BY <1>1, <2>1, <2>3, FindFacts
<1>4. Wire!Find(b, 0, 5) = 6
  <2>1. 6 \in 5..Len(b) /\ 5 \in Nat \ {0}
    BY <1>1
  <2>2. \A i \in 5..(6 - 1) : i = 5
    OBVIOUS
  <2>3. \A i \in 5..(6 - 1) : b[i] # 0
    BY <1>1, <2>2
  <2> QED
    BY <1>1, <2>1, <2>3, FindFacts
<1>5. Wire!ParseMessage(b) = [parsed |-> TRUE, comma |-> 5, end |-> 6]
  <2>1. 5 <= Len(b) /\ 6 <= Len(b)
    BY <1>1
  <2> QED
    BY <1>2, <1>3, <1>4, <2>1 DEF Wire!ParseMessage, Wire!NUL, Wire!COMMA
<1>6. Wire!Legible(b)
  <2>1. \A k \in (5 + 1)..(6 - 1) : FALSE
    OBVIOUS
  <2> QED
    BY <1>5, <2>1 DEF Wire!Legible
<1>7. Wire!ReadMessage(b).address = <<47>>
  <2> DEFINE place == [k \in 0..0 |-> Wire!NextWord(6)]
             known == <<>>
             V == {}
             n == 0
             c == 5
  <2>1. /\ c \in Nat /\ n \in Nat /\ known \in Seq(V) /\ Len(known) = n
        /\ Wire!ParseMessage(b) = [parsed |-> TRUE, comma |-> c, end |-> c + n + 1]
        /\ Wire!NextWord(c + n + 1) = place[0]
        /\ \A k \in 1..n : FALSE
    BY <1>5
  <2> HIDE DEF place, known, V, n, c
  <2>2. Wire!ReadMessage(b) = [address |-> SubSeq(b, 1, Wire!Find(b, 0, 1) - 1), arguments |-> known]
    <3>1. IsSeq(known)
      BY <2>1 DEF IsSeq
    <3>2. \A k \in 1..n : Wire!NextArgument(b, Wire!TypeOf(b[c + k]), place[k - 1])
                            = [argument |-> known[k], within |-> TRUE, marker |-> place[k]]
      BY <2>1
    <3>3. HasArguments(b, c, n, place, known)
      BY <2>1, <3>1, <3>2, Zenon DEF HasArguments
    <3> QED
      BY <3>3, ReadsArguments, Zenon
  <2> DEFINE slash == <<47>>
  <2>3. slash \in Seq(Byte) /\ Len(slash) = 1 /\ slash[1] = 47
    BY Bytes
  <2>4. 0 + Len(slash) <= Len(b) /\ \A i \in 1..Len(slash) : b[0 + i] = slash[i]
    BY <1>1, <2>3
  <2> HIDE DEF slash
  <2>5. SubSeq(b, 0 + 1, 0 + Len(slash)) = slash
    BY <2>3, <2>4, SubSeqIs
  <2>6. 0 + 1 = 1 /\ 0 + Len(slash) = 1 /\ 2 - 1 = 1
    BY <2>3
  <2>7. SubSeq(b, 1, 1) = slash
    BY <2>5, <2>6
  <2>8. Wire!ReadMessage(b) = [address |-> slash, arguments |-> known]
    BY <1>2, <2>2, <2>6, <2>7
  <2> QED
    BY <2>8 DEF slash
<1> QED
  BY <1>1, <1>6, <1>7

(***************************************************************************)
(* From packets to executed messages.                                      *)
(***************************************************************************)

\* A run over the elements of a packet that executes those that can be read.
IsExecution(h, n, elements) ==
    /\ h[0] = <<>>
    /\ \A k \in 1..n : Wire!Legible(elements[k])
                          => h[k] = Append(h[k - 1], Wire!ReadMessage(elements[k]))

\* The messages of a packet.
PacketElements(b) == IF Wire!IsPrefix(Wire!BundleId, b) THEN Wire!Elements(b) ELSE <<b>>

\* What is executed of a packet: the messages that can be read, in order.
LEMMA PacketRun ==
  ASSUME NEW b, NEW n \in Nat, Len(PacketElements(b)) = n
  PROVE  \E M : \E h \in [0..n -> Seq(M)] :
            IsExecution(h, n, PacketElements(b)) /\ h[n] = Wire!PacketReceived(b)
<1> DEFINE elements == PacketElements(b)
           M == {Wire!MessageOf(elements[k]) : k \in 1..n}
           X == Seq(M)
           x == <<>>
           runs(k) == Wire!IsExecuted(elements[k], Wire!IsPrefix(Wire!BundleId, b))
           step == [k \in 1..n |-> [s \in X |-> IF runs(k)
                                                THEN Append(s, Wire!MessageOf(elements[k])) ELSE s]]
           Body(f, k) == IF k = 0 THEN <<>>
                         ELSE IF runs(k) THEN Append(f[k - 1], Wire!MessageOf(elements[k]))
                         ELSE f[k - 1]
           read == CHOOSE f : f = [k \in 0..n |-> Body(f, k)]
<1>1. Wire!PacketReceived(b) = read[n]
  BY DEF Wire!PacketReceived, PacketElements
<1>2. \A k \in 1..n : Wire!MessageOf(elements[k]) \in M
  OBVIOUS
<1>3. x \in X
  OBVIOUS
<1>4. step \in [1..n -> [X -> X]]
  <2>1. \A k \in 1..n : \A s \in X : Append(s, Wire!MessageOf(elements[k])) \in X
    <3> HIDE DEF M
    <3> QED
      BY <1>2
  <2> HIDE DEF X, M
  <2> QED
    BY <2>1
<1>5. PICK h \in [0..n -> X] : IsRun(h, n, x, step)
  <2> HIDE DEF X, x, step
  <2> QED
    BY <1>3, <1>4, RunExists
<1> HIDE DEF X
<1>6. h[0] = <<>> /\ \A k \in 1..n : h[k] = IF runs(k)
                                      THEN Append(h[k - 1], Wire!MessageOf(elements[k])) ELSE h[k - 1]
  <2>1. h[0] = <<>> /\ \A k \in 1..n : h[k] = step[k][h[k - 1]]
    BY <1>5 DEF IsRun
  <2>2. \A k \in 1..n : h[k - 1] \in X
    OBVIOUS
  <2> QED
    BY <2>1, <2>2
<1>7. \A k \in 0..n : h[k] = Body(h, k)
  <2> SUFFICES ASSUME NEW k \in 0..n
               PROVE  h[k] = Body(h, k)
    OBVIOUS
  <2>1. k = 0 \/ k \in 1..n
    OBVIOUS
  <2> QED
    BY <1>6, <2>1
<1>8. \E f : f = [k \in 0..n |-> Body(f, k)]
  <2>1. h = [k \in 0..n |-> h[k]]
    OBVIOUS
  <2> HIDE DEF Body
  <2>2. h = [k \in 0..n |-> Body(h, k)]
    BY <1>7, <2>1
  <2> QED
    BY <2>2
<1>9. \A k \in 0..n : read[k] = Body(read, k)
  <2>1. read = [k \in 0..n |-> Body(read, k)]
    <3> HIDE DEF Body
    <3> QED
      BY <1>8, Zenon
  <2> HIDE DEF read, Body
  <2> QED
    BY <2>1, Zenon
<1> HIDE DEF read
<1> DEFINE D == {m \in Nat : m <= n => read[m] = h[m]}
<1>10. 0 \in D
  <2>1. Body(h, 0) = Body(read, 0) /\ 0 \in 0..n
    OBVIOUS
  <2> HIDE DEF Body
  <2>2. h[0] = Body(h, 0) /\ read[0] = Body(read, 0)
    BY <1>7, <1>9, <2>1
  <2> QED
    BY <2>1, <2>2, Zenon
<1>11. ASSUME NEW m \in Nat, m \in D
       PROVE  m + 1 \in D
  <2> SUFFICES ASSUME m + 1 <= n
               PROVE  read[m + 1] = h[m + 1]
    OBVIOUS
  <2> DEFINE i == m + 1
  <2>1. i \in 0..n /\ i # 0 /\ i - 1 = m /\ m <= n
    OBVIOUS
  <2> HIDE DEF i
  <2>2. read[i - 1] = h[i - 1]
    BY <1>11, <2>1
  <2>3. Body(read, i) = Body(h, i)
    BY <2>2
  <2>4. read[i] = Body(read, i) /\ h[i] = Body(h, i)
    <3> HIDE DEF Body
    <3> QED
      BY <1>7, <1>9, <2>1
  <2>5. read[i] = h[i]
    <3> HIDE DEF Body
    <3> QED
      BY <2>3, <2>4, Zenon
  <2> QED
    BY <2>5 DEF i
<1>12. read[n] = h[n]
  <2>1. n \in D
    <3> HIDE DEF D
    <3> QED
      BY <1>10, <1>11, NatSetInduction
  <2> QED
    BY <2>1
<1>13. ASSUME NEW k \in 1..n, Wire!Legible(elements[k])
       PROVE  h[k] = Append(h[k - 1], Wire!ReadMessage(elements[k]))
  <2>1. runs(k) /\ Wire!MessageOf(elements[k]) = Wire!ReadMessage(elements[k])
    BY <1>13 DEF Wire!IsExecuted, Wire!MessageOf
  <2> HIDE DEF runs
  <2> QED
    BY <1>6, <2>1
<1> QED
  BY <1>1, <1>6, <1>12, <1>13 DEF X, IsExecution

\* A packet that is no bundle is one message.
LEMMA PacketOfOne ==
  ASSUME NEW b \in Seq(Byte), b # <<>>, b[1] = 47, Wire!Legible(b)
  PROVE  Wire!PacketReceived(b) = <<Wire!ReadMessage(b)>>
<1>1. ~Wire!IsPrefix(Wire!BundleId, b)
  <2> SUFFICES ASSUME Wire!IsPrefix(Wire!BundleId, b)
               PROVE  FALSE
    OBVIOUS
  <2> DEFINE id == Wire!BundleId
  <2>1. Len(id) = 8 /\ id[1] = 35 /\ id \in Seq(Nat)
    BY DEF Wire!BundleId, Wire!NUL
  <2>2. SubSeq(id, 1, 8) = SubSeq(b, 1, 8) /\ 8 <= Len(b)
    BY <2>1 DEF Wire!IsPrefix
  <2> HIDE DEF id
  <2>3. SubSeq(id, 1, 8)[1] = id[1] /\ SubSeq(b, 1, 8)[1] = b[1]
    BY <2>1, <2>2
  <2> QED
    BY <2>1, <2>2, <2>3
<1> DEFINE elements == PacketElements(b)
<1>2. Len(elements) = 1 /\ elements[1] = b
  BY <1>1 DEF PacketElements
<1> HIDE DEF elements
<1> DEFINE n == 1
<1>n. n \in Nat /\ Len(elements) = n
  BY <1>2
<1> HIDE DEF n
<1>3. PICK M : \E h \in [0..n -> Seq(M)] : IsExecution(h, n, elements) /\ h[n] = Wire!PacketReceived(b)
  BY <1>n, PacketRun DEF elements
<1>4. PICK h \in [0..n -> Seq(M)] : IsExecution(h, n, elements) /\ h[n] = Wire!PacketReceived(b)
  BY <1>3
<1>5. h[1] = Append(h[0], Wire!ReadMessage(b))
  <2>1. 1 \in 1..1 /\ 1 - 1 = 0
    OBVIOUS
  <2> QED
    BY <1>2, <1>4, <2>1 DEF IsExecution, n
<1>a. h[0] = <<>> /\ h[1] = Wire!PacketReceived(b)
  BY <1>4 DEF IsExecution, n
<1>6. \A x : Append(<<>>, x) = <<x>>
  OBVIOUS
<1> QED
  BY <1>5, <1>6, <1>a
\* What is executed is a sequence, whatever the packet.
LEMMA PacketIsSeq ==
  ASSUME NEW b \in Seq(Byte)
  PROVE  IsSeq(Wire!PacketReceived(b))
<1> DEFINE elements == PacketElements(b)
<1>1. Len(elements) \in Nat
  <2>1. CASE ~Wire!IsPrefix(Wire!BundleId, b)
    BY <2>1 DEF PacketElements
  <2>2. CASE Wire!IsPrefix(Wire!BundleId, b)
    <3>1. \E n \in Nat : \E f : elements = [k \in 1..n |-> f[k]]
      <4> DEFINE L == Len(b)
                 Body(f, k) == IF k = 0 THEN 17
                               ELSE IF f[k - 1] + 3 > L THEN L + 1
                               ELSE f[k - 1] + 4 + Wire!Number(b, f[k - 1])
                 marker == CHOOSE f : f = [k \in 0..L |-> Body(f, k)]
                 S == {k \in 0..L : marker[k] <= L}
                 number == Wire!Cardinality(S)
                 e(k) == Wire!SubSeq(b, marker[k - 1] + 4, Wire!Min({marker[k] - 1, L}))
                 f == [k \in 1..number |-> e(k)]
      <4>1. elements = [k \in 1..number |-> e(k)]
        BY <2>2 DEF Wire!Elements, PacketElements
      <4> HIDE DEF e, elements, marker
      <4>2. L \in Nat
        OBVIOUS
      <4> HIDE DEF L
      <4>3. IsFiniteSet(0..L)
        BY <4>2, FS_Interval
      <4>4. S \subseteq 0..L
        OBVIOUS
      <4> HIDE DEF S
      <4>5. Cardinality(S) \in Nat
        BY <4>3, <4>4, FS_Subset, FS_CardinalityType
      <4>6. number \in Nat
        BY <4>5 DEF Wire!Cardinality, Cardinality
      <4> HIDE DEF number
      <4>7. elements = [k \in 1..number |-> f[k]]
        BY <4>1
      <4> QED
        BY <4>6, <4>7
    <3>2. PICK n \in Nat : \E f : elements = [k \in 1..n |-> f[k]]
      BY <3>1
    <3>3. PICK f : elements = [k \in 1..n |-> f[k]]
      BY <3>2
    <3> DEFINE V == {f[k] : k \in 1..n}
    <3> HIDE DEF elements
    <3>4. elements \in [1..n -> V]
      BY <3>3
    <3> HIDE DEF V
    <3>5. elements \in Seq(V)
      BY <3>4
    <3> QED
      BY <3>5
  <2> QED
    BY <2>1, <2>2
<1> DEFINE n == Len(elements)
<1> HIDE DEF elements
<1>3. n \in Nat
  BY <1>1
<1> HIDE DEF n
<1>4. Len(elements) = n
  BY DEF n
<1>5. \E M : \E h \in [0..n -> Seq(M)] : IsExecution(h, n, elements) /\ h[n] = Wire!PacketReceived(b)
  BY <1>3, <1>4, PacketRun DEF elements
<1>6. PICK M : \E h \in [0..n -> Seq(M)] : h[n] = Wire!PacketReceived(b)
  BY <1>5
<1>7. PICK h \in [0..n -> Seq(M)] : h[n] = Wire!PacketReceived(b)
  BY <1>6
<1>8. h[n] \in Seq(M)
  <2>1. n \in 0..n
    BY <1>3
  <2> QED
    BY <2>1
<1> QED
  BY <1>7, <1>8 DEF IsSeq

\* A number of 32 bits is read as it was written.
LEMMA NumberFacts ==
  ASSUME NEW n \in Nat, n <= MaxInt32
  PROVE  /\ Wire!Int32(n) \in Seq(Byte) /\ Len(Wire!Int32(n)) = 4
         /\ \A b : \A p \in Nat : (\A i \in 1..4 : b[p + i] = Wire!Int32(n)[i]) => Wire!Number(b, p + 1) = n
<1> DEFINE s == Wire!Int32(n)
           n1 == n \div 256
           n2 == n1 \div 256
           n3 == n2 \div 256
<1>1. n \div 65536 = n2 /\ n \div 16777216 = n3
  BY SMT
<1>2. n3 \in Nat /\ n3 <= 255
  BY SMT DEF MaxInt32
<1>3. n = 256 * n1 + (n % 256) /\ n1 = 256 * n2 + (n1 % 256) /\ n2 = 256 * n3 + (n2 % 256)
  BY SMT
<1>4. n % 256 \in 0..255 /\ n1 % 256 \in 0..255 /\ n2 % 256 \in 0..255 /\ n1 \in Nat /\ n2 \in Nat
  BY SMT
<1>5. s[1] = n3 /\ s[2] = n2 % 256 /\ s[3] = n1 % 256 /\ s[4] = n % 256 /\ Len(s) = 4
  <2>1. s = <<n \div 16777216, (n \div 65536) % 256, (n \div 256) % 256, n % 256>>
    BY SMT DEF Wire!Int32
  <2>2. s = <<n3, n2 % 256, n1 % 256, n % 256>>
    BY <1>1, <2>1, SMT
  <2> HIDE DEF s, n1, n2, n3
  <2> QED
    BY <2>2
<1>6. s \in Seq(Byte)
  <2>1. s[1] \in Byte /\ s[2] \in Byte /\ s[3] \in Byte /\ s[4] \in Byte
    <3> HIDE DEF n1, n2, n3, s
    <3> QED
      BY <1>2, <1>4, <1>5, Bytes
  <2>2. s = [i \in 1..4 |-> s[i]]
    <3>1. s = <<n \div 16777216, (n \div 65536) % 256, (n \div 256) % 256, n % 256>>
      BY SMT DEF Wire!Int32
    <3> DEFINE x == n \div 16777216
               y == (n \div 65536) % 256
               z == (n \div 256) % 256
               t == n % 256
    <3> HIDE DEF s, x, y, z, t
    <3>2. s = <<x, y, z, t>>
      BY <3>1, SMT DEF x, y, z, t
    <3> QED
      BY <3>2
  <2> HIDE DEF s
  <2>3. \A i \in 1..4 : i = 1 \/ i = 2 \/ i = 3 \/ i = 4
    OBVIOUS
  <2> QED
    BY <2>1, <2>2, <2>3
<1>7. ASSUME NEW b, NEW p \in Nat, \A i \in 1..4 : b[p + i] = s[i]
      PROVE  Wire!Number(b, p + 1) = n
  <2>1. b[p + 1] = n3 /\ b[p + 2] = n2 % 256 /\ b[p + 3] = n1 % 256 /\ b[p + 4] = n % 256
    <3>1. 1 \in 1..4 /\ 2 \in 1..4 /\ 3 \in 1..4 /\ 4 \in 1..4
      OBVIOUS
    <3> HIDE DEF s, n1, n2, n3
    <3> QED
      BY <1>5, <1>7, <3>1
  <2>2. (p + 1) + 1 = p + 2 /\ (p + 1) + 2 = p + 3 /\ (p + 1) + 3 = p + 4
    OBVIOUS
  <2>3. Wire!Number(b, p + 1)
          = 16777216 * b[p + 1] + 65536 * b[(p + 1) + 1] + 256 * b[(p + 1) + 2] + b[(p + 1) + 3]
    BY SMT DEF Wire!Number
  <2> DEFINE x2 == n2 % 256
             x1 == n1 % 256
             x0 == n % 256
  <2> HIDE DEF n1, n2, n3, x0, x1, x2
  <2>4. Wire!Number(b, p + 1) = 16777216 * n3 + 65536 * x2 + 256 * x1 + x0
    BY <2>1, <2>2, <2>3, SMT DEF x0, x1, x2
  <2>5. n = 256 * n1 + x0 /\ n1 = 256 * n2 + x1 /\ n2 = 256 * n3 + x2
        /\ n3 \in Int /\ x0 \in Int /\ x1 \in Int /\ x2 \in Int /\ n1 \in Int /\ n2 \in Int
    BY <1>2, <1>3, <1>4 DEF x0, x1, x2
  <2> QED
    BY <2>4, <2>5, SMT
<1> QED
  BY <1>5, <1>6, <1>7

\* The messages of a bundle are its elements.
LEMMA BundleElements ==
  ASSUME NEW b \in Seq(Byte), NEW s \in Seq(Byte), NEW t \in Seq(Byte), Len(s) > 0, Len(t) > 0,
         Len(b) = 24 + Len(s) + Len(t),
         Wire!Number(b, 17) = Len(s), Wire!Number(b, 21 + Len(s)) = Len(t),
         \A i \in 1..Len(s) : b[20 + i] = s[i],
         \A i \in 1..Len(t) : b[24 + Len(s) + i] = t[i]
  PROVE  Wire!Elements(b) = <<s, t>>
<1> DEFINE p == Len(s)
           q == Len(t)
           L == Len(b)
           Body(f, k) == IF k = 0 THEN 17
                         ELSE IF f[k - 1] + 3 > L THEN L + 1
                         ELSE f[k - 1] + 4 + Wire!Number(b, f[k - 1])
           marker == CHOOSE f : f = [k \in 0..L |-> Body(f, k)]
           S == {k \in 0..L : marker[k] <= L}
           number == Wire!Cardinality(S)
           end(k) == Wire!Min({marker[k] - 1, L})
           e(k) == Wire!SubSeq(b, marker[k - 1] + 4, end(k))
           g == [k \in 0..L |-> IF k = 0 THEN 17 ELSE IF k = 1 THEN 21 + p ELSE L + 1]
<1>1. Wire!Elements(b) = [k \in 1..number |-> e(k)]
  BY DEF Wire!Elements
<1> HIDE DEF e, end, number, S, marker
<1>2. p \in Nat /\ q \in Nat /\ p > 0 /\ q > 0 /\ L = 24 + p + q /\ L \in Nat
  OBVIOUS
<1>3. Wire!Number(b, 17) = p /\ Wire!Number(b, 21 + p) = q
  OBVIOUS
<1>4. /\ 0 + p <= L /\ \A i \in 1..p : b[20 + i] = s[i]
      /\ \A i \in 1..q : b[(24 + p) + i] = t[i]
  BY <1>2
<1> HIDE DEF p, q, L
<1>5. \A k \in 0..L : g[k] = Body(g, k)
  <2> SUFFICES ASSUME NEW k \in 0..L
               PROVE  g[k] = Body(g, k)
    OBVIOUS
  <2>0. 0 \in 0..L /\ 1 \in 0..L /\ 2 \in 0..L
    BY <1>2
  <2>1. g[0] = 17 /\ g[1] = 21 + p /\ \A j \in 0..L : j > 1 => g[j] = L + 1
    BY <2>0
  <2> HIDE DEF g
  <2>2. CASE k = 0
    BY <2>1, <2>2
  <2>3. CASE k = 1
    <3>1. k - 1 = 0 /\ ~(17 + 3 > L) /\ 17 + 4 + p = 21 + p
      BY <1>2, <2>3
    <3> QED
      BY <1>3, <2>1, <2>3, <3>1
  <2>4. CASE k = 2
    <3>1. k - 1 = 1 /\ ~((21 + p) + 3 > L) /\ (21 + p) + 4 + q = L + 1 /\ k > 1 /\ k # 0
      BY <1>2, <2>4
    <3> QED
      BY <1>3, <2>1, <2>4, <3>1
  <2>5. CASE k > 2
    <3>1. k - 1 \in 0..L /\ k - 1 > 1 /\ k > 1 /\ k # 0 /\ (L + 1) + 3 > L
      BY <1>2, <2>5
    <3> QED
      BY <2>1, <3>1
  <2>6. k = 0 \/ k = 1 \/ k = 2 \/ k > 2
    OBVIOUS
  <2> QED
    BY <2>2, <2>3, <2>4, <2>5, <2>6
<1>6. \E f : f = [k \in 0..L |-> Body(f, k)]
  <2>1. g = [k \in 0..L |-> g[k]]
    OBVIOUS
  <2> HIDE DEF g, Body
  <2>2. g = [k \in 0..L |-> Body(g, k)]
    BY <1>5, <2>1
  <2> QED
    BY <2>2
<1>7. \A k \in 0..L : marker[k] = Body(marker, k)
  <2>1. marker = [k \in 0..L |-> Body(marker, k)]
    <3> HIDE DEF Body
    <3> QED
      BY <1>6, Zenon DEF marker
  <2> HIDE DEF Body
  <2> QED
    BY <2>1, Zenon
<1> DEFINE D == {m \in Nat : m <= L => marker[m] = g[m]}
<1>8. 0 \in D
  <2>1. Body(g, 0) = Body(marker, 0) /\ 0 \in 0..L
    BY <1>2
  <2> HIDE DEF Body, g
  <2>2. g[0] = Body(g, 0) /\ marker[0] = Body(marker, 0)
    BY <1>5, <1>7, <2>1
  <2> QED
    BY <2>1, <2>2, Zenon
<1>9. ASSUME NEW m \in Nat, m \in D
      PROVE  m + 1 \in D
  <2> SUFFICES ASSUME m + 1 <= L
               PROVE  marker[m + 1] = g[m + 1]
    OBVIOUS
  <2> DEFINE i == m + 1
  <2>1. i \in 0..L /\ i # 0 /\ i - 1 = m /\ m <= L
    BY <1>2
  <2> HIDE DEF i, g
  <2>2. marker[i - 1] = g[i - 1]
    BY <1>9, <2>1
  <2>3. Body(marker, i) = Body(g, i)
    BY <2>2
  <2>4. marker[i] = Body(marker, i) /\ g[i] = Body(g, i)
    <3> HIDE DEF Body
    <3> QED
      BY <1>5, <1>7, <2>1
  <2>5. marker[i] = g[i]
    <3> HIDE DEF Body
    <3> QED
      BY <2>3, <2>4, Zenon
  <2> QED
    BY <2>5 DEF i
<1>10. \A k \in 0..L : marker[k] = g[k]
  <2>1. \A m \in Nat : m \in D
    <3> HIDE DEF D
    <3> QED
      BY <1>8, <1>9, NatSetInduction
  <2> HIDE DEF g
  <2> QED
    BY <1>2, <2>1
<1>11. marker[0] = 17 /\ marker[1] = 21 + p /\ \A k \in 0..L : k > 1 => marker[k] = L + 1
  <2>1. 0 \in 0..L /\ 1 \in 0..L
    BY <1>2
  <2> QED
    BY <1>10, <2>1
<1> HIDE DEF Body, g
<1>12. S = 0..1
  <2>1. \A k \in 0..L : marker[k] <= L <=> k = 0 \/ k = 1
    <3> SUFFICES ASSUME NEW k \in 0..L
                 PROVE  marker[k] <= L <=> k = 0 \/ k = 1
      OBVIOUS
    <3>1. k = 0 \/ k = 1 \/ k > 1
      OBVIOUS
    <3>2. 17 <= L /\ 21 + p <= L /\ ~(L + 1 <= L)
      BY <1>2
    <3> QED
      BY <1>11, <3>1, <3>2
  <2>2. 0..1 \subseteq 0..L /\ \A k : k \in 0..1 <=> k = 0 \/ k = 1
    BY <1>2
  <2>3. \A k : k \in S <=> k \in 0..L /\ marker[k] <= L
    BY DEF S
  <2>4. \A k : k \in S <=> k \in 0..1
    BY <2>1, <2>2, <2>3
  <2> QED
    BY <2>4
<1>13. number = 2
  <2>1. Cardinality(0..1) = 2
    <3> DEFINE lo == 0
               hi == 1
    <3>1. lo \in Int /\ hi \in Int /\ ~(lo > hi) /\ hi - lo + 1 = 2
      OBVIOUS
    <3> HIDE DEF lo, hi
    <3>2. Cardinality(lo..hi) = IF lo > hi THEN 0 ELSE hi - lo + 1
      BY <3>1, FS_Interval
    <3> QED
      BY <3>1, <3>2 DEF lo, hi
  <2>2. Wire!Cardinality(S) = Cardinality(S)
    BY DEF Wire!Cardinality, Cardinality
  <2> QED
    BY <1>12, <2>1, <2>2 DEF number
<1>14. \A x, y \in Nat : x <= y => Wire!Min({x, y}) = x
  <2> SUFFICES ASSUME NEW x \in Nat, NEW y \in Nat, x <= y
               PROVE  Wire!Min({x, y}) = x
    OBVIOUS
  <2>1. x \in {x, y} /\ \A z \in {x, y} : x <= z
    OBVIOUS
  <2>2. \A w \in {x, y} : (\A z \in {x, y} : w <= z) => w = x
    OBVIOUS
  <2> QED
    BY <2>1, <2>2 DEF Wire!Min
<1>15. e(1) = s
  <2>1. 1 - 1 = 0 /\ marker[1] - 1 = 20 + p /\ 20 + p <= L /\ 20 + p \in Nat /\ 17 + 4 = 21 /\ 20 + 1 = 21
    BY <1>2, <1>11
  <2>2. end(1) = 20 + p
    BY <1>2, <1>14, <2>1 DEF end
  <2>3. e(1) = SubSeq(b, 20 + 1, 20 + p)
    BY <1>11, <2>1, <2>2 DEF e
  <2>4. SubSeq(b, 20 + 1, 20 + Len(s)) = s
    <3>1. 20 \in Nat /\ 20 + Len(s) <= Len(b) /\ \A i \in 1..Len(s) : b[20 + i] = s[i]
      BY <1>4, <2>1 DEF p, L
    <3> QED
      BY <3>1, SubSeqIs
  <2> QED
    BY <2>3, <2>4 DEF p
<1>16. e(2) = t
  <2>1. 2 - 1 = 1 /\ marker[2] - 1 = L /\ L <= L /\ (21 + p) + 4 = (24 + p) + 1 /\ L = (24 + p) + q
    <3>1. 2 \in 0..L /\ 2 > 1
      BY <1>2
    <3>2. marker[2] = L + 1
      BY <1>11, <3>1
    <3> QED
      BY <1>2, <3>2
  <2>2. end(2) = L
    BY <1>2, <1>14, <2>1 DEF end
  <2>3. e(2) = SubSeq(b, (24 + p) + 1, (24 + p) + q)
    BY <1>11, <2>1, <2>2 DEF e
  <2>4. SubSeq(b, (24 + p) + 1, (24 + p) + q) = t
    <3> DEFINE r == 24 + p
    <3>1. r \in Nat /\ r + Len(t) <= Len(b) /\ \A i \in 1..Len(t) : b[r + i] = t[i]
      BY <1>2, <1>4, <2>1 DEF q, L
    <3> HIDE DEF r
    <3>2. SubSeq(b, r + 1, r + Len(t)) = t
      BY <3>1, SubSeqIs
    <3> QED
      BY <3>2 DEF r, q
  <2> QED
    BY <2>3, <2>4
<1>17. [k \in 1..2 |-> e(k)] = <<s, t>>
  <2>1. \A k \in 1..2 : k = 1 \/ k = 2
    OBVIOUS
  <2>2. \A k \in 1..2 : e(k) = <<s, t>>[k]
    BY <1>15, <1>16, <2>1
  <2>3. <<s, t>> = [k \in 1..2 |-> <<s, t>>[k]]
    OBVIOUS
  <2> QED
    BY <2>2, <2>3
<1> QED
  BY <1>1, <1>13, <1>17

\* A sequence of two elements.
LEMMA AppendToOne ==
  ASSUME NEW x, NEW y
  PROVE  Append(<<x>>, y) = <<x, y>>
<1> DEFINE V == {x, y}
           u == <<x>>
           r == Append(u, y)
<1>1. u \in Seq(V) /\ Len(u) = 1 /\ u[1] = x /\ y \in V
  OBVIOUS
<1> HIDE DEF u, V
<1>2. r \in Seq(V) /\ Len(r) = Len(u) + 1 /\ r[Len(u) + 1] = y /\ \A i \in 1..Len(u) : r[i] = u[i]
  BY <1>1
<1> HIDE DEF r
<1>3. Len(r) = 2 /\ r[2] = y /\ r[1] = x
  <2>1. 1 \in 1..Len(u) /\ Len(u) + 1 = 2
    BY <1>1
  <2> QED
    BY <1>1, <1>2, <2>1
<1>4. \A i \in 1..2 : i = 1 \/ i = 2
  OBVIOUS
<1>5. r = [i \in 1..2 |-> IF i = 1 THEN x ELSE y]
  <2>1. r = [i \in 1..2 |-> r[i]]
    <3>1. r \in Seq(V)
      BY <1>2
    <3>2. r = [i \in 1..Len(r) |-> r[i]]
      BY <3>1
    <3> QED
      BY <1>3, <3>2
  <2> QED
    BY <1>3, <1>4, <2>1
<1>6. <<x, y>> = [i \in 1..2 |-> IF i = 1 THEN x ELSE y]
  BY <1>4
<1> QED
  BY <1>5, <1>6 DEF r, u

\* The messages of a bundle are read.
LEMMA BundleReceived ==
  ASSUME NEW m \in WireMessage, NEW n \in WireMessage
  PROVE  LET b == Wire!WriteBundle(<<m, n>>)
         IN  /\ b \in Seq(Byte) /\ b # <<>>
             /\ Wire!PacketReceived(b) = <<Wire!Understood(m), Wire!Understood(n)>>
<1> DEFINE messages == <<m, n>>
           s == Wire!WriteMessage(m)
           t == Wire!WriteMessage(n)
           p == Len(s)
           q == Len(t)
           ip == Wire!Int32(p)
           iq == Wire!Int32(q)
           ep == ip \o s
           eq2 == iq \o t
           ss == [k \in DOMAIN messages |->
                    Wire!Int32(Len(Wire!WriteMessage(messages[k]))) \o Wire!WriteMessage(messages[k])]
           R == FlattenSeq(ss)
           id == Wire!BundleId
           z == [i \in 1..8 |-> 0]
           h == id \o z
           b == h \o R
<1>1. Wire!WriteBundle(messages) = b
  BY WireFlatten DEF Wire!WriteBundle
<1>2. /\ s \in Seq(Byte) /\ p \in Nat /\ p > 0 /\ s[1] = 47 /\ Wire!Legible(s)
      /\ Wire!ReadMessage(s) = Wire!Understood(m)
  BY MessageRead
<1>3. /\ t \in Seq(Byte) /\ q \in Nat /\ q > 0 /\ t[1] = 47 /\ Wire!Legible(t)
      /\ Wire!ReadMessage(t) = Wire!Understood(n)
  BY MessageRead
<1>4. p <= MaxInt32 /\ q <= MaxInt32
  BY WireAssumption, Zenon
<1>5. ss \in [1..2 -> {ep, eq2}] /\ ss[1] = ep /\ ss[2] = eq2
  <2>1. DOMAIN messages = 1..2 /\ messages[1] = m /\ messages[2] = n
    OBVIOUS
  <2>2. 1 \in 1..2 /\ 2 \in 1..2 /\ \A k \in 1..2 : k = 1 \/ k = 2
    OBVIOUS
  <2> HIDE DEF messages
  <2>3. ss[1] = ep /\ ss[2] = eq2
    BY <2>1, <2>2
  <2>4. \A k \in 1..2 : ss[k] \in {ep, eq2}
    <3> HIDE DEF ss, ep, eq2
    <3> QED
      BY <2>2, <2>3
  <2>5. ss = [k \in 1..2 |-> ss[k]]
    BY <2>1
  <2> HIDE DEF ss, ep, eq2
  <2> QED
    BY <2>3, <2>4, <2>5
<1> HIDE DEF s, t, ss
<1>6. /\ ip \in Seq(Byte) /\ Len(ip) = 4
      /\ \A c : \A at \in Nat : (\A i \in 1..4 : c[at + i] = ip[i]) => Wire!Number(c, at + 1) = p
  <2> HIDE DEF p
  <2> QED
    BY <1>2, <1>4, NumberFacts
<1>7. /\ iq \in Seq(Byte) /\ Len(iq) = 4
      /\ \A c : \A at \in Nat : (\A i \in 1..4 : c[at + i] = iq[i]) => Wire!Number(c, at + 1) = q
  <2> HIDE DEF q
  <2> QED
    BY <1>3, <1>4, NumberFacts
<1> HIDE DEF ip, iq
<1>8. /\ ep \in Seq(Byte) /\ Len(ep) = 4 + p
      /\ \A i \in 1..4 : ep[i] = ip[i]
      /\ \A i \in 1..p : ep[4 + i] = s[i]
  <2>1. ip \in Seq(Byte) /\ s \in Seq(Byte)
    BY <1>2, <1>6
  <2>2. /\ ip \o s \in Seq(Byte) /\ Len(ip \o s) = Len(ip) + Len(s)
        /\ \A i \in 1..Len(ip) : (ip \o s)[i] = ip[i] /\ i \in 1..Len(ip \o s)
        /\ \A j \in 1..Len(s) : (ip \o s)[Len(ip) + j] = s[j] /\ Len(ip) + j \in 1..Len(ip \o s)
    BY <2>1, Concat, Zenon
  <2> HIDE DEF ep
  <2>3. /\ ep \in Seq(Byte) /\ Len(ep) = Len(ip) + Len(s)
        /\ \A i \in 1..Len(ip) : ep[i] = ip[i]
        /\ \A j \in 1..Len(s) : ep[Len(ip) + j] = s[j]
    BY <2>2, Zenon DEF ep
  <2> QED
    BY <1>6, <2>3
<1>9. /\ eq2 \in Seq(Byte) /\ Len(eq2) = 4 + q
      /\ \A i \in 1..4 : eq2[i] = iq[i]
      /\ \A i \in 1..q : eq2[4 + i] = t[i]
  <2>1. iq \in Seq(Byte) /\ t \in Seq(Byte)
    BY <1>3, <1>7
  <2>2. /\ iq \o t \in Seq(Byte) /\ Len(iq \o t) = Len(iq) + Len(t)
        /\ \A i \in 1..Len(iq) : (iq \o t)[i] = iq[i] /\ i \in 1..Len(iq \o t)
        /\ \A j \in 1..Len(t) : (iq \o t)[Len(iq) + j] = t[j] /\ Len(iq) + j \in 1..Len(iq \o t)
    BY <2>1, Concat, Zenon
  <2> HIDE DEF eq2
  <2>3. /\ eq2 \in Seq(Byte) /\ Len(eq2) = Len(iq) + Len(t)
        /\ \A i \in 1..Len(iq) : eq2[i] = iq[i]
        /\ \A j \in 1..Len(t) : eq2[Len(iq) + j] = t[j]
    BY <2>2, Zenon DEF eq2
  <2> QED
    BY <1>7, <2>3
<1> HIDE DEF ep, eq2
<1>10. ss \in Seq(Seq(Byte)) /\ Len(ss) = 2
  <2> DEFINE two == 2
             X == Seq(Byte)
  <2>1. {ep, eq2} \subseteq X
    BY <1>8, <1>9
  <2>2. two \in Nat /\ ss \in [1..two -> X]
    BY <1>5, <2>1
  <2> HIDE DEF two, X
  <2>3. ss \in Seq(X) /\ Len(ss) = two
    BY <2>2
  <2> QED
    BY <2>3 DEF two, X
<1>11. R \in Seq(Byte)
  BY <1>10, FlattenPlaces
<1>12. /\ Len(R) = 8 + p + q
       /\ \A i \in 1..(4 + p) : R[i] = ep[i]
       /\ \A i \in 1..(4 + q) : R[(4 + p) + i] = eq2[i]
  <2>1. \E at \in [0..Len(ss) -> Nat] :
           /\ at[0] = 0 /\ at[Len(ss)] = Len(FlattenSeq(ss))
           /\ \A k \in 1..Len(ss) :
                 /\ at[k] = at[k - 1] + Len(ss[k]) /\ at[k] <= Len(FlattenSeq(ss))
                 /\ \A i \in 1..Len(ss[k]) : FlattenSeq(ss)[at[k - 1] + i] = ss[k][i]
    <3>1. ss \in Seq(Seq(Byte))
      BY <1>10
    <3> QED
      BY <3>1, FlattenPlaces, Zenon
  <2> HIDE DEF R
  <2>2. PICK at \in [0..Len(ss) -> Nat] :
           /\ at[0] = 0 /\ at[Len(ss)] = Len(R)
           /\ \A k \in 1..Len(ss) :
                 /\ at[k] = at[k - 1] + Len(ss[k]) /\ at[k] <= Len(R)
                 /\ \A i \in 1..Len(ss[k]) : R[at[k - 1] + i] = ss[k][i]
    BY <2>1, Zenon DEF R
  <2>3. 1 \in 1..Len(ss) /\ 2 \in 1..Len(ss) /\ 1 - 1 = 0 /\ 2 - 1 = 1 /\ Len(ss) = 2
    BY <1>10
  <2>4. at[1] = at[0] + Len(ep) /\ \A i \in 1..Len(ep) : R[at[0] + i] = ep[i]
    BY <1>5, <2>2, <2>3
  <2>5. at[2] = at[1] + Len(eq2) /\ \A i \in 1..Len(eq2) : R[at[1] + i] = eq2[i]
    BY <1>5, <2>2, <2>3
  <2>6. at[1] = 4 + p /\ at[2] = 8 + p + q /\ \A i \in 1..(4 + p) : 0 + i = i
    BY <1>2, <1>3, <1>8, <1>9, <2>2, <2>4, <2>5
  <2>7. at[0] = 0 /\ at[2] = Len(R)
    BY <2>2, <2>3
  <2> QED
    BY <1>8, <1>9, <2>4, <2>5, <2>6, <2>7
<1> HIDE DEF R
<1>13. id \in Seq(Byte) /\ Len(id) = 8
  <2>1. 35 \in Byte /\ 98 \in Byte /\ 117 \in Byte /\ 110 \in Byte /\ 100 \in Byte /\ 108 \in Byte
        /\ 101 \in Byte /\ 0 \in Byte
    BY Bytes
  <2> QED
    BY <2>1 DEF Wire!BundleId, Wire!NUL
<1>14. z \in Seq(Byte) /\ Len(z) = 8
  <2> DEFINE eight == 8
  <2>1. eight \in Nat /\ z \in [1..eight -> Byte]
    BY Bytes
  <2> HIDE DEF z, eight
  <2>2. z \in Seq(Byte) /\ Len(z) = eight
    BY <2>1
  <2> QED
    BY <2>2 DEF eight
<1> HIDE DEF id, z
<1>15. /\ h \in Seq(Byte) /\ Len(h) = 16
       /\ \A i \in 1..8 : h[i] = id[i]
  <2>1. id \in Seq(Byte)
    BY <1>13
  <2>2. z \in Seq(Byte)
    BY <1>14
  <2>3. IsConcat(id \o z, id, z, Byte)
    BY ONLY <2>1, <2>2, ConcatPlaces
  <2> HIDE DEF h
  <2>4. IsConcat(h, id, z, Byte)
    BY <2>3 DEF h
  <2>5. h \in Seq(Byte) /\ Len(h) = Len(id) + Len(z) /\ \A i \in 1..Len(id) : h[i] = id[i]
    BY <2>4 DEF IsConcat
  <2> QED
    BY <1>13, <1>14, <2>5
<1> HIDE DEF h
<1>16. /\ b \in Seq(Byte) /\ Len(b) = 24 + p + q
       /\ \A i \in 1..16 : b[i] = h[i]
       /\ \A i \in 1..(8 + p + q) : b[16 + i] = R[i]
  <2>1. IsConcat(h \o R, h, R, Byte)
    <3>1. h \in Seq(Byte)
      BY <1>15
    <3> QED
      BY ONLY <1>11, <3>1, ConcatPlaces
  <2> HIDE DEF b
  <2>2. /\ b \in Seq(Byte) /\ Len(b) = Len(h) + Len(R)
        /\ \A i \in 1..Len(h) : b[i] = h[i]
        /\ \A j \in 1..Len(R) : b[Len(h) + j] = R[j]
    <3>1. IsConcat(b, h, R, Byte)
      BY <2>1 DEF b
    <3> QED
      BY <3>1 DEF IsConcat
  <2>3. Len(b) = 24 + p + q
    BY <1>2, <1>3, <1>12, <1>15, <2>2
  <2> QED
    BY <1>12, <1>15, <2>2, <2>3
<1> HIDE DEF b
<1>17. Wire!IsPrefix(id, b)
  <2>1. 8 <= Len(b) /\ Len(b) \in Nat
    BY <1>2, <1>3, <1>16
  <2>2. \A i \in 1..8 : b[i] = id[i]
    <3> SUFFICES ASSUME NEW i \in 1..8
                 PROVE  b[i] = id[i]
      OBVIOUS
    <3>1. i \in 1..16
      OBVIOUS
    <3> QED
      BY <1>15, <1>16, <3>1
  <2>3. 0 + Len(id) <= Len(b) /\ \A i \in 1..Len(id) : b[0 + i] = id[i]
    BY <1>13, <2>1, <2>2
  <2>4. SubSeq(b, 0 + 1, 0 + Len(id)) = id
    BY <1>13, <1>16, <2>3, SubSeqIs
  <2>5. SubSeq(b, 1, 8) = id /\ SubSeq(id, 1, 8) = id
    BY <1>13, <2>4
  <2> QED
    BY <1>13, <2>1, <2>5 DEF Wire!IsPrefix
<1>18. ASSUME NEW i \in 1..4
       PROVE  b[16 + i] = ip[i] /\ b[(20 + p) + i] = iq[i]
  <2>1. i \in 1..(8 + p + q) /\ (4 + p) + i \in 1..(8 + p + q) /\ i \in 1..(4 + p) /\ i \in 1..(4 + q)
        /\ (20 + p) + i = 16 + ((4 + p) + i)
    BY <1>2, <1>3
  <2>2. b[16 + i] = R[i] /\ b[(20 + p) + i] = R[(4 + p) + i]
    BY <1>16, <2>1
  <2> QED
    BY <1>8, <1>9, <1>12, <2>1, <2>2
<1>19. ASSUME NEW i \in 1..p
       PROVE  b[20 + i] = s[i]
  <2>1. 4 + i \in 1..(8 + p + q) /\ 4 + i \in 1..(4 + p) /\ 20 + i = 16 + (4 + i)
    BY <1>2, <1>3
  <2>2. b[20 + i] = R[4 + i]
    BY <1>16, <2>1
  <2>3. R[4 + i] = ep[4 + i]
    BY <1>12, <2>1
  <2> QED
    BY <1>8, <2>2, <2>3
<1>20. ASSUME NEW i \in 1..q
       PROVE  b[24 + p + i] = t[i]
  <2>1. (4 + p) + (4 + i) \in 1..(8 + p + q) /\ 4 + i \in 1..(4 + q)
        /\ 24 + p + i = 16 + ((4 + p) + (4 + i))
    BY <1>2, <1>3
  <2>2. b[24 + p + i] = R[(4 + p) + (4 + i)]
    BY <1>16, <2>1
  <2>3. R[(4 + p) + (4 + i)] = eq2[4 + i]
    BY <1>12, <2>1
  <2> QED
    BY <1>9, <2>2, <2>3
<1>21. Wire!Number(b, 17) = p /\ Wire!Number(b, 21 + p) = q
  <2>1. Wire!Number(b, 16 + 1) = p
    <3>1. \A i \in 1..4 : b[16 + i] = ip[i]
      BY <1>18
    <3>2. 16 \in Nat
      OBVIOUS
    <3> QED
      BY <1>6, <3>1, <3>2, Zenon
  <2>2. Wire!Number(b, (20 + p) + 1) = q
    <3> DEFINE at == 20 + p
    <3>1. at \in Nat /\ \A i \in 1..4 : b[at + i] = iq[i]
      BY <1>2, <1>18
    <3> HIDE DEF at
    <3>2. Wire!Number(b, at + 1) = q
      BY <1>7, <3>1, Zenon
    <3> QED
      BY <3>2 DEF at
  <2>3. 16 + 1 = 17 /\ (20 + p) + 1 = 21 + p
    BY <1>2
  <2> QED
    BY <2>1, <2>2, <2>3
<1>22. Wire!Elements(b) = <<s, t>>
  <2>1. /\ b \in Seq(Byte) /\ s \in Seq(Byte) /\ t \in Seq(Byte) /\ Len(s) > 0 /\ Len(t) > 0
        /\ Len(b) = 24 + Len(s) + Len(t)
        /\ Wire!Number(b, 17) = Len(s) /\ Wire!Number(b, 21 + Len(s)) = Len(t)
    BY <1>2, <1>3, <1>16, <1>21
  <2>2. \A i \in 1..Len(s) : b[20 + i] = s[i]
    BY <1>19
  <2>3. \A i \in 1..Len(t) : b[24 + Len(s) + i] = t[i]
    BY <1>20
  <2> HIDE DEF p, q
  <2> QED
    BY <2>1, <2>2, <2>3, BundleElements
<1> DEFINE elements == PacketElements(b)
           two == 2
<1>23. two \in Nat /\ Len(elements) = two /\ elements[1] = s /\ elements[2] = t
  BY <1>17, <1>22 DEF PacketElements, id
<1> HIDE DEF elements, two
<1>24. PICK M : \E f \in [0..two -> Seq(M)] : IsExecution(f, two, elements) /\ f[two] = Wire!PacketReceived(b)
  BY <1>23, PacketRun DEF elements
<1>25. PICK f \in [0..two -> Seq(M)] : IsExecution(f, two, elements) /\ f[two] = Wire!PacketReceived(b)
  BY <1>24
<1>26. f[1] = Append(f[0], Wire!Understood(m)) /\ f[2] = Append(f[1], Wire!Understood(n)) /\ f[0] = <<>>
  <2>1. 1 \in 1..2 /\ 2 \in 1..2 /\ 1 - 1 = 0 /\ 2 - 1 = 1
    OBVIOUS
  <2>2. /\ f[0] = <<>>
        /\ \A k \in 1..2 : Wire!Legible(elements[k])
                              => f[k] = Append(f[k - 1], Wire!ReadMessage(elements[k]))
    BY <1>25 DEF IsExecution, two
  <2> QED
    BY <1>2, <1>3, <1>23, <2>1, <2>2
<1>27. \A x, y : Append(Append(<<>>, x), y) = <<x, y>>
  <2>1. \A x : Append(<<>>, x) = <<x>>
    OBVIOUS
  <2>2. \A x, y : Append(<<x>>, y) = <<x, y>>
    BY AppendToOne
  <2> QED
    BY <2>1, <2>2, Zenon
<1>28. Wire!PacketReceived(b) = <<Wire!Understood(m), Wire!Understood(n)>>
  BY <1>25, <1>26, <1>27 DEF two
<1>29. b # <<>>
  BY <1>2, <1>3, <1>16
<1> QED
  BY <1>1, <1>16, <1>28, <1>29

\* A run that leaves the null messages out.
IsKept(h, r) ==
    /\ h[0] = <<>> /\ h[Len(r)] = Wire!Executed(r)
    /\ \A k \in 1..Len(r) : h[k] = IF r[k].address # <<47>> THEN Append(h[k - 1], r[k]) ELSE h[k - 1]

\* The fold that keeps what is executed is a run over the messages received.
LEMMA ExecutedRun ==
  ASSUME NEW M, NEW r \in Seq(M)
  PROVE  \E h \in [0..Len(r) -> Seq(M)] : IsKept(h, r)
<1> DEFINE n == Len(r)
           X == Seq(M)
           x == <<>>
           step == [k \in 1..n |-> [s \in X |-> IF r[k].address # <<47>> THEN Append(s, r[k]) ELSE s]]
           Body(f, k) == IF k = 0 THEN <<>>
                         ELSE IF r[k].address # <<47>> THEN Append(f[k - 1], r[k]) ELSE f[k - 1]
           kept == CHOOSE f : f = [k \in 0..n |-> Body(f, k)]
<1>1. Wire!Executed(r) = kept[n]
  BY DEF Wire!Executed
<1>2. n \in Nat /\ \A k \in 1..n : r[k] \in M
  OBVIOUS
<1> HIDE DEF n
<1>3. x \in X
  OBVIOUS
<1>4. step \in [1..n -> [X -> X]]
  <2>1. \A k \in 1..n : \A s \in X : Append(s, r[k]) \in X
    BY <1>2
  <2> HIDE DEF X
  <2> QED
    BY <2>1
<1>5. PICK h \in [0..n -> X] : IsRun(h, n, x, step)
  <2> HIDE DEF X, x, step
  <2> QED
    BY <1>2, <1>3, <1>4, RunExists
<1> HIDE DEF X
<1>6. h[0] = <<>> /\ \A k \in 1..n : h[k] = IF r[k].address # <<47>> THEN Append(h[k - 1], r[k]) ELSE h[k - 1]
  <2>1. h[0] = <<>> /\ \A k \in 1..n : h[k] = step[k][h[k - 1]]
    BY <1>5 DEF IsRun
  <2>2. \A k \in 1..n : h[k - 1] \in X
    BY <1>2
  <2> QED
    BY <2>1, <2>2
<1>7. \A k \in 0..n : h[k] = Body(h, k)
  <2> SUFFICES ASSUME NEW k \in 0..n
               PROVE  h[k] = Body(h, k)
    OBVIOUS
  <2>1. k = 0 \/ k \in 1..n
    BY <1>2
  <2> QED
    BY <1>6, <2>1
<1>8. \E f : f = [k \in 0..n |-> Body(f, k)]
  <2>1. h = [k \in 0..n |-> h[k]]
    OBVIOUS
  <2> HIDE DEF Body
  <2>2. h = [k \in 0..n |-> Body(h, k)]
    BY <1>7, <2>1
  <2> QED
    BY <2>2
<1>9. \A k \in 0..n : kept[k] = Body(kept, k)
  <2>1. kept = [k \in 0..n |-> Body(kept, k)]
    <3> HIDE DEF Body
    <3> QED
      BY <1>8, Zenon
  <2> HIDE DEF kept, Body
  <2> QED
    BY <2>1, Zenon
<1> HIDE DEF kept
<1> DEFINE D == {m \in Nat : m <= n => kept[m] = h[m]}
<1>10. 0 \in D
  <2>1. Body(h, 0) = Body(kept, 0) /\ 0 \in 0..n
    BY <1>2
  <2> HIDE DEF Body
  <2>2. h[0] = Body(h, 0) /\ kept[0] = Body(kept, 0)
    BY <1>7, <1>9, <2>1
  <2> QED
    BY <2>1, <2>2, Zenon
<1>11. ASSUME NEW m \in Nat, m \in D
       PROVE  m + 1 \in D
  <2> SUFFICES ASSUME m + 1 <= n
               PROVE  kept[m + 1] = h[m + 1]
    OBVIOUS
  <2> DEFINE i == m + 1
  <2>1. i \in 0..n /\ i # 0 /\ i - 1 = m /\ m <= n
    BY <1>2
  <2> HIDE DEF i
  <2>2. kept[i - 1] = h[i - 1]
    BY <1>11, <2>1
  <2>3. Body(kept, i) = Body(h, i)
    BY <2>2
  <2>4. kept[i] = Body(kept, i) /\ h[i] = Body(h, i)
    <3> HIDE DEF Body
    <3> QED
      BY <1>7, <1>9, <2>1
  <2>5. kept[i] = h[i]
    <3> HIDE DEF Body
    <3> QED
      BY <2>3, <2>4, Zenon
  <2> QED
    BY <2>5 DEF i
<1>12. kept[n] = h[n]
  <2>1. n \in D
    <3> HIDE DEF D
    <3> QED
      BY <1>2, <1>10, <1>11, NatSetInduction
  <2> QED
    BY <1>2, <2>1
<1> QED
  BY <1>1, <1>6, <1>12 DEF X, IsKept, n

\* What is executed later comes behind what was executed before.
LEMMA ExecutedConcat ==
  ASSUME NEW M, NEW s \in Seq(M), NEW t \in Seq(M)
  PROVE  /\ Wire!Executed(s) \in Seq(M) /\ Wire!Executed(t) \in Seq(M)
         /\ Wire!Executed(s \o t) = Wire!Executed(s) \o Wire!Executed(t)
<1> DEFINE p == Len(s)
           q == Len(t)
           r == s \o t
           n == Len(r)
<1>1. /\ r \in Seq(M) /\ n = p + q
      /\ \A i \in 1..p : r[i] = s[i] /\ i \in 1..n
      /\ \A j \in 1..q : r[p + j] = t[j] /\ p + j \in 1..n
  BY Concat, Zenon
<1>2. p \in Nat /\ q \in Nat /\ \A j \in 1..q : t[j] \in M
  OBVIOUS
<1> HIDE DEF r
<1>3. PICK hs \in [0..p -> Seq(M)] : IsKept(hs, s)
  BY ExecutedRun
<1>4. PICK ht \in [0..q -> Seq(M)] : IsKept(ht, t)
  BY ExecutedRun
<1>5. PICK h \in [0..n -> Seq(M)] : IsKept(h, r)
  BY <1>1, ExecutedRun
<1>6. /\ hs[0] = <<>> /\ hs[p] = Wire!Executed(s)
      /\ \A k \in 1..p : hs[k] = IF s[k].address # <<47>> THEN Append(hs[k - 1], s[k]) ELSE hs[k - 1]
  BY <1>3 DEF IsKept
<1>7. /\ ht[0] = <<>> /\ ht[q] = Wire!Executed(t)
      /\ \A k \in 1..q : ht[k] = IF t[k].address # <<47>> THEN Append(ht[k - 1], t[k]) ELSE ht[k - 1]
  BY <1>4 DEF IsKept
<1>8. /\ h[0] = <<>> /\ h[n] = Wire!Executed(r)
      /\ \A k \in 1..n : h[k] = IF r[k].address # <<47>> THEN Append(h[k - 1], r[k]) ELSE h[k - 1]
  BY <1>5 DEF IsKept
<1> HIDE DEF n, p, q
<1> DEFINE D == {m \in Nat : m <= p => h[m] = hs[m]}
<1>9. 0 \in D
  BY <1>6, <1>8
<1>10. ASSUME NEW m \in Nat, m \in D
       PROVE  m + 1 \in D
  <2> SUFFICES ASSUME m + 1 <= p
               PROVE  h[m + 1] = hs[m + 1]
    OBVIOUS
  <2> DEFINE i == m + 1
  <2>1. i \in 1..p /\ i - 1 = m /\ m <= p
    BY <1>2
  <2> HIDE DEF i
  <2>2. h[i - 1] = hs[i - 1] /\ r[i] = s[i] /\ i \in 1..n
    BY <1>1, <1>10, <2>1
  <2>3. h[i] = IF r[i].address # <<47>> THEN Append(h[i - 1], r[i]) ELSE h[i - 1]
    BY <1>8, <2>2
  <2>4. hs[i] = IF s[i].address # <<47>> THEN Append(hs[i - 1], s[i]) ELSE hs[i - 1]
    BY <1>6, <2>1
  <2>5. h[i] = hs[i]
    BY <2>2, <2>3, <2>4
  <2> QED
    BY <2>5 DEF i
<1>11. h[p] = hs[p]
  <2>1. p \in D
    <3> HIDE DEF D
    <3> QED
      BY <1>2, <1>9, <1>10, NatSetInduction
  <2> QED
    BY <1>2, <2>1
<1> DEFINE Behind(m) == h[p + m] = hs[p] \o ht[m]
           E == {m \in Nat : m <= q => Behind(m)}
<1>12. hs[p] \in Seq(M) /\ \A m \in 0..q : ht[m] \in Seq(M)
  BY <1>2
<1>13. 0 \in E
  <2>1. p + 0 = p /\ hs[p] \o <<>> = hs[p]
    BY <1>2, <1>12
  <2> QED
    BY <1>7, <1>11, <2>1
<1>14. ASSUME NEW m \in Nat, m \in E
       PROVE  m + 1 \in E
  <2> SUFFICES ASSUME m + 1 <= q
               PROVE  Behind(m + 1)
    <3> HIDE DEF Behind
    <3> QED
      OBVIOUS
  <2> DEFINE i == m + 1
             j == p + i
  <2>1. i \in 1..q /\ i - 1 = m /\ m <= q /\ m \in 0..q /\ j - 1 = p + m /\ j = p + i
    BY <1>2
  <2> HIDE DEF i, j
  <2>2. j \in 1..n /\ r[j] = t[i] /\ t[i] \in M
    BY <1>1, <1>2, <2>1
  <2>3. h[j - 1] = hs[p] \o ht[i - 1]
    BY <1>14, <2>1
  <2>4. h[j] = IF r[j].address # <<47>> THEN Append(h[j - 1], r[j]) ELSE h[j - 1]
    BY <1>8, <2>2
  <2>5. ht[i] = IF t[i].address # <<47>> THEN Append(ht[i - 1], t[i]) ELSE ht[i - 1]
    BY <1>7, <2>1
  <2> DEFINE u == hs[p]
             v == ht[i - 1]
             w == t[i]
  <2>6. Append(u \o v, w) = u \o Append(v, w)
    <3>1. u \in Seq(M) /\ v \in Seq(M) /\ w \in M
      BY <1>12, <2>1, <2>2
    <3> HIDE DEF u, v, w
    <3> QED
      BY <3>1
  <2>7. h[j] = hs[p] \o ht[i]
    BY <2>2, <2>3, <2>4, <2>5, <2>6
  <2> QED
    BY <2>7 DEF i, j
<1>15. h[p + q] = hs[p] \o ht[q]
  <2>1. q \in E
    <3> HIDE DEF E
    <3> QED
      BY <1>2, <1>13, <1>14, NatSetInduction
  <2> QED
    BY <1>2, <2>1
<1>16. ht[q] \in Seq(M)
  BY <1>2, <1>12
<1> QED
  BY <1>1, <1>6, <1>7, <1>8, <1>12, <1>15, <1>16 DEF r

\* A null message is not executed, any other is.
LEMMA ExecutedOne ==
  ASSUME NEW x
  PROVE  Wire!Executed(<<x>>) = IF x.address # <<47>> THEN <<x>> ELSE <<>>
<1> DEFINE r == <<x>>
           M == {x}
<1>1. r \in Seq(M) /\ Len(r) = 1 /\ r[1] = x /\ 1 \in 1..1 /\ 1 - 1 = 0
  OBVIOUS
<1> HIDE DEF r, M
<1>2. PICK h \in [0..Len(r) -> Seq(M)] : IsKept(h, r)
  BY <1>1, ExecutedRun
<1>3. h[0] = <<>> /\ h[1] = Wire!Executed(r)
      /\ h[1] = IF x.address # <<47>> THEN Append(h[0], x) ELSE h[0]
  BY <1>1, <1>2 DEF IsKept
<1>4. Append(<<>>, x) = <<x>>
  OBVIOUS
<1> QED
  BY <1>3, <1>4 DEF r

\* Of no messages none is executed.
LEMMA ExecutedNone == Wire!Executed(<<>>) = <<>>
<1> DEFINE r == <<>>
           M == {}
<1>1. r \in Seq(M) /\ Len(r) = 0
  OBVIOUS
<1> HIDE DEF r, M
<1>2. PICK h \in [0..Len(r) -> Seq(M)] : IsKept(h, r)
  BY <1>1, ExecutedRun
<1> QED
  BY <1>1, <1>2 DEF IsKept, r

\* Two messages that are no null messages: each is executed alone.
LEMMA ExecutedTwo ==
  ASSUME NEW x, NEW y, Wire!Executed(<<x>>) = <<x>>, Wire!Executed(<<y>>) = <<y>>
  PROVE  Wire!Executed(<<x, y>>) = <<x, y>>
<1> DEFINE M == {x, y}
           s == <<x>>
           t == <<y>>
<1>1. s \in Seq(M) /\ t \in Seq(M)
  OBVIOUS
<1>2. Wire!Executed(s) = s /\ Wire!Executed(t) = t
  OBVIOUS
<1>3. <<x>> \o <<y>> = <<x, y>>
  <2>1. s \o t = Append(s, y)
    <3>1. t = Append(<<>>, y) /\ s \o <<>> = s /\ y \in M
      OBVIOUS
    <3> HIDE DEF s, t, M
    <3>2. \A u \in Seq(M) : \A v \in Seq(M) : u \o Append(v, y) = Append(u \o v, y)
      BY <3>1
    <3>3. <<>> \in Seq(M)
      OBVIOUS
    <3> QED
      BY <1>1, <3>1, <3>2, <3>3
  <2> QED
    BY <2>1, AppendToOne
<1> HIDE DEF s, t, M
<1>4. Wire!Executed(s \o t) = Wire!Executed(s) \o Wire!Executed(t)
  BY <1>1, ExecutedConcat
<1> QED
  BY <1>2, <1>3, <1>4 DEF s, t

(***************************************************************************)
(* The decoder over the bytes on their way.                                *)
(***************************************************************************)

\* A state of the decoder.
State(escaping, input, received) == [escaping |-> escaping, input |-> input, received |-> received]

\* The decoder goes from d to e over the bytes w.
Decodes(d, w, e) ==
    \E h : /\ h[0] = d /\ h[Len(w)] = e
           /\ \A k \in 1..Len(w) : h[k] = Wire!DecodeByte(h[k - 1], w[k])

\* Without bytes the decoder stays as it is.
LEMMA DecodesNone ==
  ASSUME NEW d
  PROVE  Decodes(d, <<>>, d) /\ \A e : Decodes(d, <<>>, e) => e = d
<1>1. Decodes(d, <<>>, d)
  <2> DEFINE h == [k \in 0..0 |-> d]
  <2>1. h[0] = d /\ Len(<<>>) = 0 /\ \A k \in 1..0 : FALSE
    OBVIOUS
  <2> HIDE DEF h
  <2> QED
    BY <2>1 DEF Decodes
<1>2. Len(<<>>) = 0
  OBVIOUS
<1> QED
  BY <1>1, <1>2 DEF Decodes

\* A byte that arrives leaves the rest for the decoder it makes.
LEMMA DecodesHead ==
  ASSUME NEW S, NEW w \in Seq(S), w # <<>>, NEW d, NEW e, Decodes(d, w, e)
  PROVE  Decodes(Wire!DecodeByte(d, Head(w)), Tail(w), e)
<1> DEFINE n == Len(w)
           t == Tail(w)
<1>1. PICK h : h[0] = d /\ h[n] = e /\ \A k \in 1..n : h[k] = Wire!DecodeByte(h[k - 1], w[k])
  BY DEF Decodes
<1>2. n \in Nat /\ n > 0 /\ Len(t) = n - 1 /\ Head(w) = w[1] /\ \A k \in 1..(n - 1) : t[k] = w[k + 1]
  OBVIOUS
<1> HIDE DEF n, t
<1> DEFINE g == [k \in 0..(n - 1) |-> h[k + 1]]
<1>3. g[0] = Wire!DecodeByte(d, Head(w))
  <2>1. 1 \in 1..n /\ 1 - 1 = 0 /\ 0 \in 0..(n - 1) /\ 0 + 1 = 1
    BY <1>2
  <2>2. g[0] = h[1]
    BY <2>1
  <2> HIDE DEF g
  <2> QED
    BY <1>1, <1>2, <2>1, <2>2
<1>4. g[n - 1] = e
  <2>1. n - 1 \in 0..(n - 1) /\ (n - 1) + 1 = n
    BY <1>2
  <2>2. g[n - 1] = h[(n - 1) + 1]
    BY <2>1
  <2> HIDE DEF g
  <2> QED
    BY <1>1, <2>1, <2>2
<1>5. ASSUME NEW k \in 1..(n - 1)
      PROVE  g[k] = Wire!DecodeByte(g[k - 1], t[k])
  <2> DEFINE j == k + 1
  <2>1. k \in 0..(n - 1) /\ k - 1 \in 0..(n - 1) /\ (k - 1) + 1 = k /\ j \in 1..n /\ j - 1 = k
    BY <1>2
  <2>2. g[k] = h[j] /\ g[k - 1] = h[k]
    BY <2>1
  <2>3. t[k] = w[j]
    BY <1>2
  <2> HIDE DEF g, j
  <2>4. h[j] = Wire!DecodeByte(h[j - 1], w[j])
    BY <1>1, <2>1
  <2> QED
    BY <2>1, <2>2, <2>3, <2>4
<1> HIDE DEF g
<1> QED
  BY <1>2, <1>3, <1>4, <1>5 DEF Decodes, t

\* Bytes behind bytes: the decoder goes over the first, then over the second.
LEMMA DecodesConcat ==
  ASSUME NEW S, NEW v \in Seq(S), NEW w \in Seq(S), NEW d, NEW e, NEW f, Decodes(d, v, e), Decodes(e, w, f)
  PROVE  Decodes(d, v \o w, f)
<1> DEFINE p == Len(v)
           q == Len(w)
           u == v \o w
<1>1. PICK h : h[0] = d /\ h[p] = e /\ \A k \in 1..p : h[k] = Wire!DecodeByte(h[k - 1], v[k])
  BY DEF Decodes
<1>2. PICK g : g[0] = e /\ g[q] = f /\ \A k \in 1..q : g[k] = Wire!DecodeByte(g[k - 1], w[k])
  BY DEF Decodes
<1>3. /\ Len(u) = p + q
      /\ \A i \in 1..p : u[i] = v[i] /\ i \in 1..Len(u)
      /\ \A j \in 1..q : u[p + j] = w[j] /\ p + j \in 1..Len(u)
  BY Concat, Zenon
<1>4. p \in Nat /\ q \in Nat
  OBVIOUS
<1> HIDE DEF p, q, u
<1> DEFINE z == [k \in 0..(p + q) |-> IF k <= p THEN h[k] ELSE g[k - p]]
<1>5. \A k \in 0..p : z[k] = h[k]
  BY <1>4
<1>6. \A k \in 0..q : z[p + k] = g[k]
  <2> SUFFICES ASSUME NEW k \in 0..q
               PROVE  z[p + k] = g[k]
    OBVIOUS
  <2>1. p + k \in 0..(p + q) /\ (p + k) - p = k
    BY <1>4
  <2>2. CASE k = 0
    BY <1>1, <1>2, <1>4, <2>1, <2>2
  <2>3. CASE k # 0
    <3>1. ~(p + k <= p)
      BY <1>4, <2>3
    <3> QED
      BY <2>1, <3>1
  <2> QED
    BY <2>2, <2>3
<1> HIDE DEF z
<1>7. z[0] = d /\ z[p + q] = f
  <2>1. 0 \in 0..p /\ q \in 0..q
    BY <1>4
  <2> QED
    BY <1>1, <1>2, <1>5, <1>6, <2>1
<1>8. ASSUME NEW k \in 1..(p + q)
      PROVE  z[k] = Wire!DecodeByte(z[k - 1], u[k])
  <2>1. CASE k <= p
    <3>1. k \in 1..p /\ k \in 0..p /\ k - 1 \in 0..p
      BY <1>4, <2>1
    <3> QED
      BY <1>1, <1>3, <1>5, <3>1
  <2>2. CASE ~(k <= p)
    <3> DEFINE j == k - p
    <3>1. j \in 1..q /\ j \in 0..q /\ j - 1 \in 0..q /\ k = p + j /\ k - 1 = p + (j - 1)
      BY <1>4, <2>2
    <3> HIDE DEF j
    <3>2. z[p + j] = g[j] /\ z[p + (j - 1)] = g[j - 1] /\ u[p + j] = w[j]
      BY <1>3, <1>6, <3>1
    <3>3. g[j] = Wire!DecodeByte(g[j - 1], w[j])
      BY <1>2, <3>1
    <3> QED
      BY <3>1, <3>2, <3>3
  <2> QED
    BY <2>1, <2>2
<1> QED
  BY <1>3, <1>7, <1>8 DEF Decodes, u

\* The decoder over one byte.
LEMMA DecodesOne ==
  ASSUME NEW d, NEW c
  PROVE  Decodes(d, <<c>>, Wire!DecodeByte(d, c))
<1> DEFINE w == <<c>>
           e == Wire!DecodeByte(d, c)
           h == [k \in 0..1 |-> IF k = 0 THEN d ELSE e]
<1>1. Len(w) = 1 /\ w[1] = c /\ h[0] = d /\ h[1] = e /\ 1 - 1 = 0 /\ \A k \in 1..1 : k = 1
  OBVIOUS
<1> HIDE DEF w, h
<1>2. h[1] = Wire!DecodeByte(h[0], w[1])
  BY <1>1
<1>3. \A k \in 1..1 : h[k] = Wire!DecodeByte(h[k - 1], w[k])
  BY <1>1, <1>2
<1>4. Decodes(d, w, e)
  <2> HIDE DEF e
  <2> QED
    BY <1>1, <1>3 DEF Decodes
<1> QED
  BY <1>4 DEF w

\* What follows an escape.
Unescaped(c) == IF c = 220 THEN 192 ELSE IF c = 221 THEN 219 ELSE c

\* The changes of the decoder to a state.
LEMMA StateEscape ==
  ASSUME NEW e, NEW i, NEW r, NEW x
  PROVE  [State(e, i, r) EXCEPT !.escaping = x] = State(x, i, r)
  BY DEF State

\* The same of another input.
LEMMA StateInput ==
  ASSUME NEW e, NEW i, NEW r, NEW x
  PROVE  [State(e, i, r) EXCEPT !.input = x] = State(e, x, r)
  BY DEF State

\* The same of other messages received.
LEMMA StateReceived ==
  ASSUME NEW e, NEW i, NEW r, NEW x
  PROVE  [State(e, i, r) EXCEPT !.received = x] = State(e, i, x)
  BY DEF State

\* A byte in an escape.
LEMMA EscapedByte ==
  ASSUME NEW i, NEW r, NEW c \in Byte
  PROVE  Wire!DecodeByte(State(TRUE, i, r), c) = State(FALSE, Append(i, Unescaped(c)), r)
<1> DEFINE d == State(TRUE, i, r)
           y == Append(i, Unescaped(c))
<1>1. d.escaping = TRUE /\ d.input = i
  BY DEF State
<1>2. [d EXCEPT !.escaping = FALSE, !.input = y] = State(FALSE, y, r)
  <2> DEFINE old == d.escaping
             new == FALSE
  <2> HIDE DEF old, new, y, d
  <2>1. [State(old, i, r) EXCEPT !.escaping = new, !.input = y] = State(new, y, r)
    <3>1. [State(old, i, r) EXCEPT !.escaping = new] = State(new, i, r)
      BY StateEscape
    <3>2. [State(new, i, r) EXCEPT !.input = y] = State(new, y, r)
      BY StateInput
    <3> QED
      BY <3>1, <3>2
  <2> QED
    BY <1>1, <2>1 DEF old, new, d
<1>3. c \in Int
  BY Bytes
<1> HIDE DEF d
<1>4. Wire!DecodeByte(d, c) = [d EXCEPT !.escaping = FALSE, !.input = y]
  <2> DEFINE unescaped == CASE d.escaping /\ c = 220 -> 192
                        [] d.escaping /\ c = 221 -> 219
                        [] OTHER -> c
  <2>1. unescaped = Unescaped(c)
    <3>1. CASE c = 220
      BY <1>1, <3>1 DEF Unescaped
    <3>2. CASE c = 221
      BY <1>1, <3>2 DEF Unescaped
    <3>3. CASE c # 220 /\ c # 221
      BY <1>1, <3>3 DEF Unescaped
    <3> QED
      BY <3>1, <3>2, <3>3
  <2>2. Wire!DecodeByte(d, c)
          = CASE ~d.escaping /\ c = 219 -> [d EXCEPT !.escaping = TRUE]
              [] ~d.escaping /\ c = 192 ->
                   [d EXCEPT !.input = <<>>,
                             !.received = IF d.input = <<>> THEN d.received
                                          ELSE d.received \o Wire!PacketReceived(d.input)]
              [] OTHER -> [d EXCEPT !.escaping = FALSE, !.input = Append(d.input, unescaped)]
    BY DEF Wire!DecodeByte, Wire!END, Wire!ESC, Wire!ESC_END, Wire!ESC_ESC
  <2> HIDE DEF unescaped
  <2>3. Wire!DecodeByte(d, c) = [d EXCEPT !.escaping = FALSE, !.input = Append(d.input, unescaped)]
    BY <1>1, <2>2
  <2> QED
    BY <1>1, <2>1, <2>3
<1> QED
  BY <1>2, <1>4 DEF d

\* The start of an escape.
LEMMA EscapeByte ==
  ASSUME NEW i, NEW r
  PROVE  Wire!DecodeByte(State(FALSE, i, r), 219) = State(TRUE, i, r)
<1> DEFINE d == State(FALSE, i, r)
<1>1. d.escaping = FALSE
  BY DEF State
<1>2. [d EXCEPT !.escaping = TRUE] = State(TRUE, i, r)
  <2> DEFINE old == d.escaping
             new == TRUE
  <2> HIDE DEF old, new, d
  <2>1. [State(old, i, r) EXCEPT !.escaping = new] = State(new, i, r)
    BY StateEscape
  <2> QED
    BY <1>1, <2>1 DEF old, new, d
<1> HIDE DEF d
<1>3. Wire!DecodeByte(d, 219) = [d EXCEPT !.escaping = TRUE]
  BY <1>1 DEF Wire!DecodeByte, Wire!END, Wire!ESC, Wire!ESC_END, Wire!ESC_ESC
<1> QED
  BY <1>2, <1>3 DEF d

\* The end of a packet.
LEMMA EndByte ==
  ASSUME NEW i, NEW r
  PROVE  Wire!DecodeByte(State(FALSE, i, r), 192)
           = State(FALSE, <<>>, IF i = <<>> THEN r ELSE r \o Wire!PacketReceived(i))
<1> DEFINE d == State(FALSE, i, r)
           y == IF i = <<>> THEN r ELSE r \o Wire!PacketReceived(i)
<1>1. d.escaping = FALSE /\ d.input = i /\ d.received = r
  BY DEF State
<1>2. [d EXCEPT !.input = <<>>, !.received = y] = State(FALSE, <<>>, y)
  <2> DEFINE old == d.escaping
  <2> HIDE DEF old, y, d
  <2>1. [State(old, i, r) EXCEPT !.input = <<>>, !.received = y] = State(old, <<>>, y)
    <3>1. [State(old, i, r) EXCEPT !.input = <<>>] = State(old, <<>>, r)
      BY StateInput
    <3>2. [State(old, <<>>, r) EXCEPT !.received = y] = State(old, <<>>, y)
      BY StateReceived
    <3> QED
      BY <3>1, <3>2
  <2> QED
    BY <1>1, <2>1 DEF old, d
<1> HIDE DEF d
<1>3. Wire!DecodeByte(d, 192) = [d EXCEPT !.input = <<>>, !.received = y]
  BY <1>1 DEF Wire!DecodeByte, Wire!END, Wire!ESC, Wire!ESC_END, Wire!ESC_ESC
<1> QED
  BY <1>2, <1>3 DEF d

\* Another byte.
LEMMA PlainByte ==
  ASSUME NEW i, NEW r, NEW c \in Byte, c # 192, c # 219
  PROVE  Wire!DecodeByte(State(FALSE, i, r), c) = State(FALSE, Append(i, c), r)
<1> DEFINE d == State(FALSE, i, r)
           y == Append(i, c)
<1>1. d.escaping = FALSE /\ d.input = i
  BY DEF State
<1>2. [d EXCEPT !.escaping = FALSE, !.input = y] = State(FALSE, y, r)
  <2> DEFINE old == d.escaping
             new == FALSE
  <2> HIDE DEF old, new, y, d
  <2>1. [State(old, i, r) EXCEPT !.escaping = new, !.input = y] = State(new, y, r)
    <3>1. [State(old, i, r) EXCEPT !.escaping = new] = State(new, i, r)
      BY StateEscape
    <3>2. [State(new, i, r) EXCEPT !.input = y] = State(new, y, r)
      BY StateInput
    <3> QED
      BY <3>1, <3>2
  <2> QED
    BY <1>1, <2>1 DEF old, new, d
<1>3. c \in Int
  BY Bytes
<1> HIDE DEF d
<1>4. Wire!DecodeByte(d, c) = [d EXCEPT !.escaping = FALSE, !.input = y]
  BY <1>1, <1>3 DEF Wire!DecodeByte, Wire!END, Wire!ESC, Wire!ESC_END, Wire!ESC_ESC
<1> QED
  BY <1>2, <1>4 DEF d

\* A byte behind two sequences is behind the second.
LEMMA AppendBehind ==
  ASSUME NEW u \in Seq(Byte), NEW v \in Seq(Byte), NEW c \in Byte
  PROVE  Append(u \o v, c) = u \o Append(v, c)
  OBVIOUS

\* Bytes that need no escape are taken as they are, in an escape or not.
LEMMA PlainDecodes ==
  ASSUME NEW w \in Seq(Byte), w # <<>>, \A k \in 1..Len(w) : w[k] \notin {192, 219, 220, 221},
         NEW escaping \in BOOLEAN, NEW i \in Seq(Byte), NEW r
  PROVE  Decodes(State(escaping, i, r), w, State(FALSE, i \o w, r))
<1> DEFINE n == Len(w)
           h == [k \in 0..n |-> IF k = 0 THEN State(escaping, i, r) ELSE State(FALSE, i \o SubSeq(w, 1, k), r)]
<1>1. n \in Nat /\ n > 0 /\ SubSeq(w, 1, n) = w /\ SubSeq(w, 1, 0) = <<>> /\ i \o <<>> = i
  OBVIOUS
<1>2. \A k \in 1..n : Append(i \o SubSeq(w, 1, k - 1), w[k]) = i \o SubSeq(w, 1, k)
  <2> SUFFICES ASSUME NEW k \in 1..n
               PROVE  Append(i \o SubSeq(w, 1, k - 1), w[k]) = i \o SubSeq(w, 1, k)
    OBVIOUS
  <2> DEFINE u == SubSeq(w, 1, k - 1)
             v == SubSeq(w, 1, k)
             c == w[k]
  <2>1. u \in Seq(Byte) /\ c \in Byte /\ Append(u, c) = v
    OBVIOUS
  <2> HIDE DEF u, v, c
  <2>2. Append(i \o u, c) = i \o Append(u, c)
    <3>1. u \in Seq(Byte)
      BY <2>1
    <3>2. c \in Byte
      BY <2>1
    <3>3. i \in Seq(Byte)
      OBVIOUS
    <3> QED
      BY ONLY <3>1, <3>2, <3>3, AppendBehind
  <2> QED
    BY <2>1, <2>2 DEF u, v, c
<1>3. h[0] = State(escaping, i, r) /\ h[n] = State(FALSE, i \o w, r)
  <2>1. 0 \in 0..n /\ n \in 0..n /\ n # 0
    BY <1>1
  <2>2. h[0] = State(escaping, i, r) /\ h[n] = State(FALSE, i \o SubSeq(w, 1, n), r)
    BY <2>1
  <2> HIDE DEF h, n
  <2> QED
    BY <1>1, <2>2
<1>4. ASSUME NEW k \in 1..n
      PROVE  h[k] = Wire!DecodeByte(h[k - 1], w[k])
  <2>1. w[k] \notin {192, 219} /\ w[k] # 220 /\ w[k] # 221
    OBVIOUS
  <2>2. h[k] = State(FALSE, i \o SubSeq(w, 1, k), r)
    BY <1>1
  <2>3. \E e \in BOOLEAN : h[k - 1] = State(e, i \o SubSeq(w, 1, k - 1), r)
    <3>1. CASE k = 1
      <4>1. k - 1 = 0 /\ 0 \in 0..n
        BY <1>1, <3>1
      <4>2. h[k - 1] = State(escaping, i, r)
        BY <4>1
      <4> HIDE DEF h
      <4>3. i \o SubSeq(w, 1, k - 1) = i
        BY <1>1, <4>1
      <4>4. h[k - 1] = State(escaping, i \o SubSeq(w, 1, k - 1), r)
        BY <4>2, <4>3
      <4> QED
        BY <4>4
    <3>2. CASE k # 1
      <4>1. k - 1 \in 0..n /\ k - 1 # 0
        BY <1>1, <3>2
      <4>2. h[k - 1] = State(FALSE, i \o SubSeq(w, 1, k - 1), r)
        BY <4>1
      <4> HIDE DEF h
      <4> QED
        BY <4>2
    <3> QED
      BY <3>1, <3>2
  <2> HIDE DEF h
  <2>4. PICK e \in BOOLEAN : h[k - 1] = State(e, i \o SubSeq(w, 1, k - 1), r)
    BY <2>3
  <2> DEFINE x == i \o SubSeq(w, 1, k - 1)
             c == w[k]
  <2> HIDE DEF x, c
  <2>5. Wire!DecodeByte(State(e, x, r), c) = State(FALSE, Append(x, c), r)
    <3>1. c # 192 /\ c # 219 /\ Unescaped(c) = c
      BY <2>1 DEF c, Unescaped
    <3>2. c \in Byte
      BY DEF c
    <3>3. Wire!DecodeByte(State(TRUE, x, r), c) = State(FALSE, Append(x, Unescaped(c)), r)
      BY <3>2, EscapedByte, Zenon
    <3>4. Wire!DecodeByte(State(FALSE, x, r), c) = State(FALSE, Append(x, c), r)
      BY <3>1, <3>2, PlainByte, Zenon
    <3>5. e = TRUE \/ e = FALSE
      OBVIOUS
    <3> QED
      BY <3>1, <3>3, <3>4, <3>5, Zenon
  <2>6. Append(x, c) = i \o SubSeq(w, 1, k)
    BY <1>2 DEF x, c
  <2> QED
    BY <2>2, <2>4, <2>5, <2>6 DEF x, c
<1> HIDE DEF h
<1>5. h[Len(w)] = State(FALSE, i \o w, r) /\ \A k \in 1..Len(w) : h[k] = Wire!DecodeByte(h[k - 1], w[k])
  BY <1>3, <1>4
<1>6. h[0] = State(escaping, i, r)
  BY <1>3
<1> HIDE DEF n
<1> DEFINE d == State(escaping, i, r)
           e == State(FALSE, i \o w, r)
<1>7. /\ h[0] = d /\ h[Len(w)] = e
      /\ \A k \in 1..Len(w) : h[k] = Wire!DecodeByte(h[k - 1], w[k])
  BY <1>5, <1>6
<1> HIDE DEF d, e
<1>8. Decodes(d, w, e)
  BY <1>7 DEF Decodes
<1> QED
  BY <1>8 DEF d, e

\* What SLIP makes of a byte.
Slip(c) == CASE c = 192 -> <<219, 220>> [] c = 219 -> <<219, 221>> [] OTHER -> <<c>>

\* A byte that is framed is taken as it was.
LEMMA SlipByte ==
  ASSUME NEW c \in Byte, NEW i \in Seq(Byte), NEW r
  PROVE  Slip(c) \in Seq(Byte) /\ Decodes(State(FALSE, i, r), Slip(c), State(FALSE, Append(i, c), r))
<1>1. ASSUME NEW x, x = 220 \/ x = 221
      PROVE  /\ <<219, x>> \in Seq(Byte)
             /\ Decodes(State(FALSE, i, r), <<219, x>>, State(FALSE, Append(i, Unescaped(x)), r))
  <2>1. x \in Byte /\ 219 \in Byte
    <3>1. 219 \in Byte /\ 220 \in Byte /\ 221 \in Byte
      BY DEF Byte
    <3> QED
      BY <1>1, <3>1
  <2> DEFINE v == <<219>>
             w == <<x>>
             d == State(FALSE, i, r)
             e == State(TRUE, i, r)
             f == State(FALSE, Append(i, Unescaped(x)), r)
  <2>2. v \in Seq(Byte)
    BY <2>1
  <2>3. w \in Seq(Byte)
    BY <2>1
  <2>4. v \o w = <<219, x>> /\ v \o w \in Seq(Byte)
    <3>1. w = Append(<<>>, x) /\ v \o <<>> = v
      BY <2>2
    <3>2. <<>> \in Seq(Byte) /\ x \in Byte
      BY <2>1
    <3> HIDE DEF v, w
    <3>3. Append(v \o <<>>, x) = v \o Append(<<>>, x)
      BY <2>2, <3>2, AppendBehind
    <3>4. v \o w = Append(v, x)
      BY <3>1, <3>3
    <3>5. Append(<<219>>, x) = <<219, x>>
      BY AppendToOne
    <3>6. v \o w \in Seq(Byte)
      BY <2>2, <2>3
    <3>7. v \o w = <<219, x>>
      BY <3>4, <3>5 DEF v
    <3> QED
      BY <3>6, <3>7
  <2>5. Decodes(d, v, Wire!DecodeByte(d, 219))
    BY DecodesOne, Zenon
  <2>6. Wire!DecodeByte(d, 219) = e
    BY EscapeByte
  <2>7. Decodes(e, w, Wire!DecodeByte(e, x))
    BY DecodesOne, Zenon
  <2>8. Wire!DecodeByte(e, x) = f
    <3>1. x \in Byte
      BY <2>1
    <3> QED
      BY <3>1, EscapedByte
  <2> HIDE DEF v, w, d, e, f
  <2>9. Decodes(d, v, e)
    BY <2>5, <2>6
  <2>10. Decodes(e, w, f)
    BY <2>7, <2>8
  <2>11. Decodes(d, v \o w, f)
    BY <2>2, <2>3, <2>9, <2>10, DecodesConcat, Zenon
  <2> QED
    BY <2>4, <2>11 DEF d, f
<1>2. CASE c = 192
  <2>1. Unescaped(220) = 192 /\ Slip(c) = <<219, 220>>
    BY <1>2 DEF Unescaped, Slip
  <2> DEFINE x == 220
  <2>2. x = 220 \/ x = 221
    OBVIOUS
  <2> HIDE DEF x
  <2>3. /\ <<219, x>> \in Seq(Byte)
        /\ Decodes(State(FALSE, i, r), <<219, x>>, State(FALSE, Append(i, Unescaped(x)), r))
    BY <1>1, <2>2, Zenon
  <2> QED
    BY <1>2, <2>1, <2>3 DEF x
<1>3. CASE c = 219
  <2>1. Unescaped(221) = 219 /\ Slip(c) = <<219, 221>>
    BY <1>3 DEF Unescaped, Slip
  <2> DEFINE x == 221
  <2>2. x = 220 \/ x = 221
    OBVIOUS
  <2> HIDE DEF x
  <2>3. /\ <<219, x>> \in Seq(Byte)
        /\ Decodes(State(FALSE, i, r), <<219, x>>, State(FALSE, Append(i, Unescaped(x)), r))
    BY <1>1, <2>2, Zenon
  <2> QED
    BY <1>3, <2>1, <2>3 DEF x
<1>4. CASE c # 192 /\ c # 219
  <2>1. Slip(c) = <<c>> /\ <<c>> \in Seq(Byte)
    BY <1>4 DEF Slip
  <2>2. Decodes(State(FALSE, i, r), <<c>>, Wire!DecodeByte(State(FALSE, i, r), c))
    BY DecodesOne, Zenon
  <2>3. Wire!DecodeByte(State(FALSE, i, r), c) = State(FALSE, Append(i, c), r)
    BY <1>4, PlainByte, Zenon
  <2> QED
    BY <2>1, <2>2, <2>3
<1> QED
  BY <1>2, <1>3, <1>4

\* The bytes of a packet in their frame.
Framed(b) == [k \in 1..Len(b) |-> Slip(b[k])]

\* The encoder frames each byte of a packet between two ends.
LEMMA EncodeIs ==
  ASSUME NEW b \in Seq(Byte)
  PROVE  Wire!Encode(b) = <<192>> \o FlattenSeq(Framed(b)) \o <<192>>
<1> DEFINE escaped == [i \in DOMAIN b |-> CASE b[i] = 192 -> <<219, 220>>
                                            [] b[i] = 219 -> <<219, 221>>
                                            [] OTHER -> <<b[i]>>]
<1>1. escaped = Framed(b)
  BY DEF Framed, Slip
<1>2. Wire!Encode(b) = <<192>> \o Wire!FlattenSeq(escaped) \o <<192>>
  BY Zenon DEF Wire!Encode, Wire!END, Wire!ESC, Wire!ESC_END, Wire!ESC_ESC
<1> HIDE DEF escaped
<1> QED
  BY <1>1, <1>2, WireFlatten

\* The bytes between two ends are taken as they were.
LEMMA SlipDecodes ==
  ASSUME NEW b \in Seq(Byte), NEW i \in Seq(Byte), NEW r
  PROVE  /\ FlattenSeq(Framed(b)) \in Seq(Byte)
         /\ Decodes(State(FALSE, i, r), FlattenSeq(Framed(b)), State(FALSE, i \o b, r))
<1> DEFINE n == Len(b)
           ss == Framed(b)
           d == State(FALSE, i, r)
           z(m) == State(FALSE, i \o SubSeq(b, 1, m), r)
<1>1. n \in Nat /\ SubSeq(b, 1, 0) = <<>> /\ SubSeq(b, 1, n) = b /\ i \o <<>> = i
  OBVIOUS
<1>2. \A k \in 1..n : b[k] \in Byte
  OBVIOUS
<1> HIDE DEF n
<1>3. ss \in Seq(Seq(Byte)) /\ Len(ss) = n /\ \A k \in 1..n : ss[k] = Slip(b[k])
  <2>1. \A k \in 1..n : Slip(b[k]) \in Seq(Byte)
    <3> SUFFICES ASSUME NEW k \in 1..n
                 PROVE  Slip(b[k]) \in Seq(Byte)
      OBVIOUS
    <3>1. b[k] \in Byte
      BY <1>2
    <3> QED
      BY <3>1, SlipByte
  <2>2. ss = [k \in 1..n |-> Slip(b[k])]
    BY DEF Framed, n
  <2> HIDE DEF ss
  <2> QED
    BY <1>1, <2>1, <2>2
<1> HIDE DEF ss
<1>4. PICK flat \in [0..n -> Seq(Byte)] :
            /\ flat[0] = <<>> /\ flat[n] = FlattenSeq(ss)
            /\ \A k \in 1..n : flat[k] = flat[k - 1] \o ss[k]
  BY <1>3, FlattenFacts
<1> DEFINE D == {m \in Nat : m <= n => Decodes(d, flat[m], z(m))}
<1>5. 0 \in D
  <2>1. z(0) = d
    BY <1>1
  <2>2. Decodes(d, <<>>, d)
    BY DecodesNone, Zenon
  <2> HIDE DEF d, z
  <2> QED
    BY <1>4, <2>1, <2>2
<1>6. ASSUME NEW m \in Nat, m \in D
      PROVE  m + 1 \in D
  <2> SUFFICES ASSUME m + 1 <= n
               PROVE  Decodes(d, flat[m + 1], z(m + 1))
    <3> HIDE DEF d, z
    <3> QED
      OBVIOUS
  <2> DEFINE k == m + 1
             v == flat[m]
             w == Slip(b[k])
             c == b[k]
             x == i \o SubSeq(b, 1, m)
  <2>1. k \in 1..n /\ k - 1 = m /\ m <= n /\ m \in 0..n
    BY <1>1
  <2>2. v \in Seq(Byte)
    BY <1>4, <2>1
  <2>3. c \in Byte
    BY <1>2, <2>1
  <2>4. x \in Seq(Byte) /\ Append(x, c) = i \o SubSeq(b, 1, k)
    <3> DEFINE u == SubSeq(b, 1, m)
    <3>1. u \in Seq(Byte) /\ Append(u, c) = SubSeq(b, 1, k)
      BY <2>1 DEF n
    <3> HIDE DEF u, c, k
    <3>2. i \o u \in Seq(Byte)
      BY <3>1
    <3>3. Append(i \o u, c) = i \o Append(u, c)
      BY <2>3, <3>1, AppendBehind
    <3> QED
      BY <3>1, <3>2, <3>3 DEF u
  <2> HIDE DEF k, v, c, x, d
  <2>5. Decodes(State(FALSE, x, r), Slip(c), State(FALSE, Append(x, c), r)) /\ Slip(c) \in Seq(Byte)
    <3>1. x \in Seq(Byte)
      BY <2>4
    <3> QED
      BY <2>3, <3>1, SlipByte
  <2>6. Decodes(d, v, State(FALSE, x, r))
    BY <1>6, <2>1 DEF v, x
  <2>7. Slip(c) \in Seq(Byte)
    BY <2>5
  <2>8. Decodes(State(FALSE, x, r), Slip(c), State(FALSE, Append(x, c), r))
    BY <2>5
  <2>9. Decodes(d, v \o Slip(c), State(FALSE, Append(x, c), r))
    BY <2>2, <2>6, <2>7, <2>8, DecodesConcat, Zenon
  <2>10. flat[k] = v \o Slip(c)
    BY <1>3, <1>4, <2>1 DEF v, c
  <2> QED
    BY <2>4, <2>9, <2>10 DEF k
<1>7. n \in D
  <2> HIDE DEF D
  <2> QED
    BY <1>1, <1>5, <1>6, NatSetInduction
<1>8. Decodes(d, flat[n], z(n)) /\ flat[n] \in Seq(Byte)
  <2>1. n \in 0..n /\ n <= n
    BY <1>1
  <2> QED
    BY <1>4, <1>7, <2>1
<1>9. z(n) = State(FALSE, i \o b, r)
  BY <1>1
<1> HIDE DEF z
<1> QED
  BY <1>4, <1>8, <1>9 DEF d, ss

\* A packet in its frame is executed behind what the first end leaves.
LEMMA EncodeDecodes ==
  ASSUME NEW b \in Seq(Byte), b # <<>>, NEW d, NEW i \in Seq(Byte), NEW r,
         Wire!DecodeByte(d, 192) = State(FALSE, i, r)
  PROVE  /\ Wire!Encode(b) \in Seq(Byte)
         /\ Decodes(d, Wire!Encode(b), State(FALSE, <<>>, r \o Wire!PacketReceived(i \o b)))
<1> DEFINE u == <<192>>
           v == FlattenSeq(Framed(b))
           e == State(FALSE, i, r)
           f == State(FALSE, i \o b, r)
           g == State(FALSE, <<>>, r \o Wire!PacketReceived(i \o b))
<1>1. u \in Seq(Byte)
  <2>1. 192 \in Byte
    BY Bytes
  <2> QED
    BY <2>1
<1>2. v \in Seq(Byte)
  BY SlipDecodes
<1>3. Wire!Encode(b) = u \o v \o u
  BY EncodeIs
<1>4. Decodes(d, u, e)
  <2>1. Decodes(d, u, Wire!DecodeByte(d, 192))
    BY DecodesOne, Zenon
  <2> HIDE DEF u
  <2> QED
    BY <2>1
<1>5. Decodes(e, v, f)
  BY SlipDecodes
<1>6. Decodes(f, u, g)
  <2>1. i \o b # <<>>
    OBVIOUS
  <2>2. Wire!DecodeByte(f, 192)
          = State(FALSE, <<>>, IF i \o b = <<>> THEN r ELSE r \o Wire!PacketReceived(i \o b))
    BY EndByte, Zenon
  <2>3. Wire!DecodeByte(f, 192) = g
    <3> HIDE DEF f
    <3> QED
      BY <2>1, <2>2
  <2>4. Decodes(f, u, Wire!DecodeByte(f, 192))
    BY DecodesOne, Zenon
  <2> HIDE DEF u, f, g
  <2> QED
    BY <2>3, <2>4
<1>7. u \o v \in Seq(Byte) /\ (u \o v) \o u \in Seq(Byte)
  BY <1>1, <1>2
<1> HIDE DEF u, v, e, f, g
<1>8. u \o v \in Seq(Byte)
  BY <1>7
<1>9. Decodes(d, u \o v, f)
  BY <1>1, <1>2, <1>4, <1>5, DecodesConcat, Zenon
<1>10. Decodes(d, (u \o v) \o u, g)
  BY <1>1, <1>6, <1>8, <1>9, DecodesConcat, Zenon
<1> QED
  BY <1>3, <1>7, <1>10 DEF g

\* Sequences of anything.
LEMMA IsSeqConcat ==
  ASSUME NEW s, NEW t, IsSeq(s), IsSeq(t)
  PROVE  /\ \E M : s \in Seq(M) /\ t \in Seq(M)
         /\ IsSeq(s \o t)
<1>1. PICK A : s \in Seq(A)
  BY DEF IsSeq
<1>2. PICK B : t \in Seq(B)
  BY DEF IsSeq
<1> DEFINE M == A \cup B
<1>3. s \in Seq(M) /\ t \in Seq(M)
  <2>1. (\A k \in 1..Len(s) : s[k] \in M) /\ Len(s) \in Nat /\ s = [k \in 1..Len(s) |-> s[k]]
    BY <1>1
  <2>2. (\A k \in 1..Len(t) : t[k] \in M) /\ Len(t) \in Nat /\ t = [k \in 1..Len(t) |-> t[k]]
    BY <1>2
  <2> HIDE DEF M
  <2> QED
    BY <2>1, <2>2
<1> HIDE DEF M
<1>4. s \o t \in Seq(M)
  BY <1>3
<1> QED
  BY <1>3, <1>4 DEF IsSeq

\* Sequences put one behind the other, in any grouping.
LEMMA IsSeqAssociative ==
  ASSUME NEW s, NEW t, NEW u, IsSeq(s), IsSeq(t), IsSeq(u)
  PROVE  (s \o t) \o u = s \o (t \o u)
<1>1. IsSeq(s \o t)
  BY IsSeqConcat
<1>2. PICK A : s \in Seq(A)
  BY DEF IsSeq
<1>3. PICK B : t \in Seq(B)
  BY DEF IsSeq
<1>4. PICK C : u \in Seq(C)
  BY DEF IsSeq
<1> DEFINE M == A \cup B \cup C
<1>5. s \in Seq(M) /\ t \in Seq(M) /\ u \in Seq(M)
  <2>1. (\A k \in 1..Len(s) : s[k] \in M) /\ Len(s) \in Nat /\ s = [k \in 1..Len(s) |-> s[k]]
    BY <1>2
  <2>2. (\A k \in 1..Len(t) : t[k] \in M) /\ Len(t) \in Nat /\ t = [k \in 1..Len(t) |-> t[k]]
    BY <1>3
  <2>3. (\A k \in 1..Len(u) : u[k] \in M) /\ Len(u) \in Nat /\ u = [k \in 1..Len(u) |-> u[k]]
    BY <1>4
  <2> HIDE DEF M
  <2>4. s \in Seq(M)
    BY <2>1
  <2>5. t \in Seq(M)
    BY <2>2
  <2>6. u \in Seq(M)
    BY <2>3
  <2> QED
    BY <2>4, <2>5, <2>6
<1> HIDE DEF M
<1>6. s \in Seq(M)
  BY <1>5
<1>7. t \in Seq(M)
  BY <1>5
<1>8. u \in Seq(M)
  BY <1>5
<1> QED
  BY <1>6, <1>7, <1>8, ConcatAssociative

\* What is executed of two sequences of messages.
LEMMA ExecutedBoth ==
  ASSUME NEW s, NEW t, IsSeq(s), IsSeq(t)
  PROVE  /\ IsSeq(Wire!Executed(s))
         /\ Wire!Executed(s \o t) = Wire!Executed(s) \o Wire!Executed(t)
<1>1. PICK M : s \in Seq(M) /\ t \in Seq(M)
  BY IsSeqConcat
<1>2. Wire!Executed(s) \in Seq(M) /\ Wire!Executed(s \o t) = Wire!Executed(s) \o Wire!Executed(t)
  BY <1>1, ExecutedConcat
<1> QED
  BY <1>2 DEF IsSeq

\* What null messages leave of a packet is not executed.
LEMMA NullsExecuted ==
  ASSUME NEW i \in Seq(Byte), Nulls(i), i # <<>>
  PROVE  Wire!Executed(Wire!PacketReceived(i)) = <<>>
<1>1. i[1] = 47 /\ Wire!Legible(i) /\ Wire!ReadMessage(i).address = <<47>>
  BY NullRead
<1>2. Wire!PacketReceived(i) = <<Wire!ReadMessage(i)>>
  BY <1>1, PacketOfOne
<1> DEFINE x == Wire!ReadMessage(i)
<1> HIDE DEF x
<1>3. Wire!Executed(<<x>>) = IF x.address # <<47>> THEN <<x>> ELSE <<>>
  BY ExecutedOne
<1> QED
  BY <1>1, <1>2, <1>3 DEF x

(***************************************************************************)
(* What the decoder will be when the bytes on their way have arrived.      *)
(***************************************************************************)

\* What is to be executed for the messages of a connection.
Expected(t) == [k \in DOMAIN t |-> Wire!Understood(t[k])]

\* As many messages are expected as were sent.
LEMMA ExpectedFacts ==
  ASSUME NEW t \in Seq(WireMessage)
  PROVE  IsSeq(Expected(t)) /\ Len(Expected(t)) = Len(t) /\ (t = <<>> => Expected(t) = <<>>)
<1> DEFINE M == {Wire!Understood(t[k]) : k \in 1..Len(t)}
           n == Len(t)
<1>1. n \in Nat /\ DOMAIN t = 1..n
  OBVIOUS
<1>2. \A k \in 1..n : Wire!Understood(t[k]) \in M
  OBVIOUS
<1> HIDE DEF M
<1>3. Expected(t) = [k \in 1..n |-> Wire!Understood(t[k])]
  BY <1>1 DEF Expected
<1>4. t = <<>> => n = 0
  OBVIOUS
<1> HIDE DEF n
<1>5. Expected(t) \in Seq(M) /\ Len(Expected(t)) = n
  BY <1>1, <1>2, <1>3
<1>6. n = 0 => Expected(t) = <<>>
  BY <1>5
<1> QED
  BY <1>4, <1>5, <1>6 DEF IsSeq, n

\* What is expected of messages behind others comes behind what is expected of these.
LEMMA ExpectedConcat ==
  ASSUME NEW s \in Seq(WireMessage), NEW t \in Seq(WireMessage)
  PROVE  Expected(s \o t) = Expected(s) \o Expected(t)
<1> DEFINE v == s \o t
           n == Len(s)
           m == Len(t)
           x == Expected(s)
           y == Expected(t)
<1>1. /\ v \in Seq(WireMessage) /\ Len(v) = n + m
      /\ \A i \in 1..n : v[i] = s[i]
      /\ \A j \in 1..m : v[n + j] = t[j]
  <2>1. IsConcat(v, s, t, WireMessage)
    BY ConcatPlaces
  <2> QED
    BY <2>1 DEF IsConcat
<1>2. /\ n \in Nat /\ m \in Nat /\ DOMAIN s = 1..n /\ DOMAIN t = 1..m /\ DOMAIN v = 1..Len(v)
  BY <1>1
<1>3. Len(x) = n /\ Len(y) = m /\ IsSeq(x) /\ IsSeq(y)
  BY ExpectedFacts
<1>4. \A i \in 1..n : x[i] = Wire!Understood(s[i])
  BY <1>2 DEF Expected
<1>5. \A j \in 1..m : y[j] = Wire!Understood(t[j])
  BY <1>2 DEF Expected
<1>6. Expected(v) = [k \in 1..(n + m) |-> Wire!Understood(v[k])]
  BY <1>1, <1>2 DEF Expected
<1> HIDE DEF v, n, m, x, y
<1>7. PICK M : x \in Seq(M) /\ y \in Seq(M)
  BY <1>3, IsSeqConcat
<1>8. /\ x \o y \in Seq(M) /\ Len(x \o y) = n + m
      /\ \A i \in 1..n : (x \o y)[i] = x[i]
      /\ \A j \in 1..m : (x \o y)[n + j] = y[j]
  <2>1. x \in Seq(M)
    BY <1>7
  <2>2. y \in Seq(M)
    BY <1>7
  <2>3. IsConcat(x \o y, x, y, M)
    BY <2>1, <2>2, ConcatPlaces
  <2> QED
    BY <1>3, <2>3 DEF IsConcat
<1>9. \A k \in 1..(n + m) : (x \o y)[k] = Wire!Understood(v[k])
  <2> SUFFICES ASSUME NEW k \in 1..(n + m)
               PROVE  (x \o y)[k] = Wire!Understood(v[k])
    OBVIOUS
  <2>1. CASE k <= n
    <3>1. k \in 1..n
      BY <1>2, <2>1
    <3> QED
      BY <1>1, <1>4, <1>8, <3>1
  <2>2. CASE ~(k <= n)
    <3> DEFINE j == k - n
    <3>1. j \in 1..m /\ k = n + j
      BY <1>2, <2>2
    <3> HIDE DEF j
    <3> QED
      BY <1>1, <1>5, <1>8, <3>1
  <2> QED
    BY <2>1, <2>2
<1> DEFINE z == x \o y
<1>10. z = [k \in 1..(n + m) |-> z[k]]
  <2>1. z \in Seq(M) /\ Len(z) = n + m
    BY <1>8
  <2> HIDE DEF z
  <2> QED
    BY <2>1
<1> HIDE DEF z
<1>11. z = Expected(v)
  BY <1>6, <1>9, <1>10 DEF z
<1> QED
  BY <1>11 DEF z, x, y, v

\* The rest of two sequences from a place in the first.
LEMMA RestConcat ==
  ASSUME NEW s, NEW t, IsSeq(s), IsSeq(t), NEW k \in Nat, k <= Len(s)
  PROVE  SubSeq(s \o t, k + 1, Len(s) + Len(t)) = SubSeq(s, k + 1, Len(s)) \o t
<1>1. PICK M : s \in Seq(M) /\ t \in Seq(M)
  BY IsSeqConcat
<1> DEFINE n == Len(s)
           m == Len(t)
           v == s \o t
           x == SubSeq(v, k + 1, n + m)
           y == SubSeq(s, k + 1, n)
           z == y \o t
<1>2. /\ v \in Seq(M) /\ Len(v) = n + m
      /\ \A i \in 1..n : v[i] = s[i]
      /\ \A j \in 1..m : v[n + j] = t[j]
  <2>1. s \in Seq(M)
    BY <1>1
  <2>2. t \in Seq(M)
    BY <1>1
  <2>3. IsConcat(v, s, t, M)
    BY <2>1, <2>2, ConcatPlaces
  <2> QED
    BY <2>3 DEF IsConcat
<1>3. n \in Nat /\ m \in Nat
  BY <1>1
<1> HIDE DEF v, n, m
<1>4. x \in Seq(M) /\ Len(x) = (n + m) - k /\ \A i \in 1..((n + m) - k) : x[i] = v[k + i]
  BY <1>2, <1>3 DEF n
<1>5. y \in Seq(M) /\ Len(y) = n - k /\ \A i \in 1..(n - k) : y[i] = s[k + i]
  BY <1>1, <1>3 DEF n
<1> HIDE DEF x, y
<1>6. /\ z \in Seq(M) /\ Len(z) = Len(y) + Len(t)
      /\ \A i \in 1..Len(y) : z[i] = y[i]
      /\ \A j \in 1..Len(t) : z[Len(y) + j] = t[j]
  <2>1. y \in Seq(M)
    BY <1>5
  <2>2. t \in Seq(M)
    BY <1>1
  <2>3. IsConcat(z, y, t, M)
    BY <2>1, <2>2, ConcatPlaces
  <2> QED
    BY <2>3 DEF IsConcat
<1>7. Len(z) = (n + m) - k
  BY <1>3, <1>5, <1>6 DEF n, m
<1> HIDE DEF z
<1>8. \A i \in 1..((n + m) - k) : x[i] = z[i]
  <2> SUFFICES ASSUME NEW i \in 1..((n + m) - k)
               PROVE  x[i] = z[i]
    OBVIOUS
  <2>1. x[i] = v[k + i] /\ k <= n
    BY <1>4 DEF n
  <2>2. CASE i <= n - k
    <3>1. i \in 1..(n - k) /\ k + i \in 1..n
      BY <1>3, <2>1, <2>2
    <3>2. i \in 1..Len(y)
      BY <1>5, <3>1
    <3> QED
      BY <1>2, <1>5, <1>6, <2>1, <3>1, <3>2
  <2>3. CASE ~(i <= n - k)
    <3> DEFINE j == i - (n - k)
    <3>1. j \in 1..m /\ k + i = n + j /\ i = (n - k) + j
      BY <1>3, <2>1, <2>3
    <3> HIDE DEF j
    <3>2. z[(n - k) + j] = t[j]
      BY <1>5, <1>6, <3>1 DEF m
    <3>3. v[n + j] = t[j]
      BY <1>2, <3>1
    <3> QED
      BY <2>1, <3>1, <3>2, <3>3
  <2> QED
    BY <2>2, <2>3
<1>9. x = [i \in 1..((n + m) - k) |-> x[i]] /\ z = [i \in 1..((n + m) - k) |-> z[i]]
  BY <1>4, <1>6, <1>7
<1>10. x = z
  BY <1>8, <1>9
<1> QED
  BY <1>10 DEF x, y, z, v, n, m

\* The messages of a connection, in order: o is the decoder when it opened, i and r
\* are what the decoder will have.
InOrder(o, t, i, r) ==
    /\ o.input = <<>> \/ t # <<>> => Nulls(i)
    /\ o.input = <<>> => Wire!Executed(r) = Expected(t)
    /\ \E u : IsSeq(u) /\ Wire!Executed(r) = u \o Expected(t)

\* The same without the first packet.
LosesFirst(t, i, r) ==
    /\ Nulls(i)
    /\ \E gone \in 1..2 : \E u :
          /\ gone <= Len(t) /\ IsSeq(u)
          /\ Wire!Executed(r) = u \o SubSeq(Expected(t), gone + 1, Len(t))

\* What the decoder may become.
Good(o, t, f) ==
    \E e \in BOOLEAN, i \in Seq(Byte) : \E r :
        /\ IsSeq(r) /\ f = State(e, i, r)
        /\ ~o.escaping => e = FALSE /\ InOrder(o, t, i, r)
        /\ o.escaping /\ t # <<>> => e = FALSE /\ LosesFirst(t, i, r)

\* The same of a state that is given by its fields.
LEMMA GoodIs ==
  ASSUME NEW o, NEW t, NEW e \in BOOLEAN, NEW i \in Seq(Byte), NEW r, IsSeq(r),
         ~o.escaping => e = FALSE /\ InOrder(o, t, i, r),
         o.escaping /\ t # <<>> => e = FALSE /\ LosesFirst(t, i, r)
  PROVE  Good(o, t, State(e, i, r))
  BY DEF Good

\* The packet of s, when the decoder is outside of an escape.
LEMMA InOrderSend ==
  ASSUME NEW o, NEW t \in Seq(WireMessage), NEW s \in Seq(WireMessage), NEW i, NEW r, NEW p,
         InOrder(o, t, i, r), IsSeq(r), IsSeq(p), Wire!Executed(Expected(s)) = Expected(s),
         Nulls(i) => Wire!Executed(p) = Wire!Executed(r)
  PROVE  InOrder(o, t \o s, <<>>, p \o Expected(s))
<1> DEFINE x == Expected(s)
           y == Expected(t)
           E(q) == Wire!Executed(q)
<1>1. IsSeq(x) /\ IsSeq(y) /\ (t = <<>> => y = <<>>)
  BY ExpectedFacts
<1>2. Expected(t \o s) = y \o x
  BY ExpectedConcat
<1>3. E(p \o x) = E(p) \o x /\ IsSeq(E(p))
  BY <1>1, ExecutedBoth
<1> HIDE DEF x, y, E
<1>4. /\ o.input = <<>> \/ t # <<>> => Nulls(i)
      /\ o.input = <<>> => E(r) = y
      /\ \E u : IsSeq(u) /\ E(r) = u \o y
  BY DEF InOrder, E, y
<1>5. Nulls(i) => E(p) = E(r)
  BY DEF E
<1>6. o.input = <<>> => E(p \o x) = y \o x
  BY <1>3, <1>4, <1>5
<1>7. \E u : IsSeq(u) /\ E(p \o x) = u \o (y \o x)
  <2>1. CASE Nulls(i)
    <3>1. PICK u : IsSeq(u) /\ E(r) = u \o y
      BY <1>4
    <3>2. (u \o y) \o x = u \o (y \o x)
      BY <1>1, <3>1, IsSeqAssociative
    <3>3. E(p \o x) = u \o (y \o x)
      BY <1>3, <1>5, <2>1, <3>1, <3>2
    <3> QED
      BY <3>1, <3>3
  <2>2. CASE ~Nulls(i)
    <3>1. y = <<>>
      BY <1>1, <1>4, <2>2
    <3>2. <<>> \o x = x
      <4>1. PICK M : x \in Seq(M)
        BY <1>1 DEF IsSeq
      <4> QED
        BY <4>1
    <3> QED
      BY <1>3, <3>1, <3>2
  <2> QED
    BY <2>1, <2>2
<1>8. Nulls(<<>>)
  BY DEF Nulls
<1> QED
  BY <1>2, <1>6, <1>7, <1>8 DEF InOrder, x, E

\* The packet of s may be lost, or a packet before it was.
LEMMA LosesFirstSend ==
  ASSUME NEW t \in Seq(WireMessage), NEW s \in Seq(WireMessage), NEW i, NEW r, NEW p, t # <<>>,
         LosesFirst(t, i, r), IsSeq(r), IsSeq(p), Wire!Executed(Expected(s)) = Expected(s),
         Nulls(i) => Wire!Executed(p) = Wire!Executed(r)
  PROVE  LosesFirst(t \o s, <<>>, p \o Expected(s))
<1> DEFINE x == Expected(s)
           y == Expected(t)
           E(q) == Wire!Executed(q)
           n == Len(t)
           m == Len(s)
<1>1. IsSeq(x) /\ IsSeq(y) /\ Len(y) = n /\ Len(x) = m
  BY ExpectedFacts
<1>2. Expected(t \o s) = y \o x
  BY ExpectedConcat
<1>3. E(p \o x) = E(p) \o x /\ IsSeq(E(p))
  BY <1>1, ExecutedBoth
<1>4. Len(t \o s) = n + m /\ n \in Nat /\ m \in Nat
  OBVIOUS
<1> HIDE DEF x, y, E, n, m
<1>5. PICK gone \in 1..2 : \E u : gone <= n /\ IsSeq(u) /\ E(r) = u \o SubSeq(y, gone + 1, n)
  BY DEF LosesFirst, E, y, n
<1>6. PICK u : gone <= n /\ IsSeq(u) /\ E(r) = u \o SubSeq(y, gone + 1, n)
  BY <1>5
<1>7. E(p) = E(r)
  BY DEF LosesFirst, E
<1> DEFINE v == SubSeq(y, gone + 1, n)
<1>8. SubSeq(y \o x, gone + 1, n + m) = v \o x
  <2>1. gone \in Nat /\ gone <= Len(y)
    BY <1>1, <1>5, <1>6
  <2> HIDE DEF v
  <2>2. SubSeq(y \o x, gone + 1, Len(y) + Len(x)) = SubSeq(y, gone + 1, Len(y)) \o x
    BY <1>1, <2>1, RestConcat
  <2> QED
    BY <1>1, <2>2 DEF v
<1>9. IsSeq(v)
  <2>1. PICK M : y \in Seq(M)
    BY <1>1 DEF IsSeq
  <2>2. v \in Seq(M)
    BY <1>1, <1>5, <1>6, <2>1
  <2> QED
    BY <2>2 DEF IsSeq
<1> HIDE DEF v
<1>10. (u \o v) \o x = u \o (v \o x)
  <2>1. IsSeq(u)
    BY <1>6
  <2>2. IsSeq(x)
    BY <1>1
  <2> QED
    BY ONLY <1>9, <2>1, <2>2, IsSeqAssociative
<1>11. E(p \o x) = u \o SubSeq(Expected(t \o s), gone + 1, Len(t \o s))
  BY <1>2, <1>3, <1>4, <1>6, <1>7, <1>8, <1>10 DEF v
<1>12. Nulls(<<>>) /\ gone <= Len(t \o s)
  BY <1>4, <1>5, <1>6 DEF Nulls
<1> QED
  BY <1>6, <1>11, <1>12 DEF LosesFirst, E, x

\* The first packet behind an escape is lost.
LEMMA LosesFirstOne ==
  ASSUME NEW s \in Seq(WireMessage), Len(s) \in 1..2, NEW q, IsSeq(q)
  PROVE  LosesFirst(s, <<>>, q)
<1> DEFINE y == Expected(s)
           u == Wire!Executed(q)
           n == Len(s)
<1>1. IsSeq(u)
  <2>1. IsSeq(<<>>)
    <3>1. <<>> \in Seq({})
      OBVIOUS
    <3> QED
      BY <3>1 DEF IsSeq
  <2> QED
    BY <2>1, ExecutedBoth
<1>2. SubSeq(y, n + 1, n) = <<>>
  <2>1. n \in Int /\ n + 1 \in Int /\ n < n + 1
    OBVIOUS
  <2> HIDE DEF n, y
  <2> QED
    BY <2>1, SubSeqEmpty
<1>3. u \o <<>> = u
  <2>1. PICK M : u \in Seq(M)
    BY <1>1 DEF IsSeq
  <2> QED
    BY <2>1
<1>4. n \in 1..2 /\ n <= n
  OBVIOUS
<1>5. Nulls(<<>>)
  BY DEF Nulls
<1> HIDE DEF u, n, y
<1>6. u = u \o SubSeq(y, n + 1, n)
  BY <1>2, <1>3
<1> QED
  BY <1>1, <1>4, <1>5, <1>6 DEF LosesFirst, u, n, y

\* The byte that ends a packet.
LEMMA EndIsByte == 192 \in Byte
  BY Bytes

\* A packet is sent behind the bytes on their way.
LEMMA GoodSend ==
  ASSUME NEW o, NEW t \in Seq(WireMessage), NEW s \in Seq(WireMessage), Len(s) \in 1..2, NEW f, Good(o, t, f),
         o.escaping \in BOOLEAN,
         NEW b \in Seq(Byte), b # <<>>, Wire!PacketReceived(b) = Expected(s),
         Wire!Executed(Expected(s)) = Expected(s)
  PROVE  Wire!Encode(b) \in Seq(Byte) /\ \E g : Decodes(f, Wire!Encode(b), g) /\ Good(o, t \o s, g)
<1> DEFINE w == Wire!Encode(b)
           x == Expected(s)
           ts == t \o s
<1>1. PICK e \in BOOLEAN, i \in Seq(Byte) : \E r :
        /\ IsSeq(r) /\ f = State(e, i, r)
        /\ ~o.escaping => e = FALSE /\ InOrder(o, t, i, r)
        /\ o.escaping /\ t # <<>> => e = FALSE /\ LosesFirst(t, i, r)
  BY DEF Good
<1>2. PICK r :
        /\ IsSeq(r) /\ f = State(e, i, r)
        /\ ~o.escaping => e = FALSE /\ InOrder(o, t, i, r)
        /\ o.escaping /\ t # <<>> => e = FALSE /\ LosesFirst(t, i, r)
  BY <1>1
<1>3. IsSeq(x) /\ ts \in Seq(WireMessage) /\ ts # <<>> /\ (t = <<>> => ts = s)
  <2>1. IsSeq(x)
    BY ExpectedFacts
  <2>2. ts \in Seq(WireMessage) /\ Len(ts) = Len(t) + Len(s)
    OBVIOUS
  <2>3. ts # <<>>
    <3>1. Len(t) \in Nat /\ Len(s) \in Nat /\ Len(s) > 0
      <4>1. Len(t) \in Nat
        OBVIOUS
      <4> DEFINE n == Len(s)
      <4>2. n \in 1..2
        OBVIOUS
      <4> HIDE DEF n
      <4>3. n \in Nat /\ n > 0
        BY <4>2
      <4> QED
        BY <4>1, <4>3 DEF n
    <3>2. Len(ts) # 0
      BY <2>2, <3>1
    <3>3. Len(<<>>) = 0
      OBVIOUS
    <3> HIDE DEF ts
    <3> QED
      BY <3>2, <3>3
  <2>4. t = <<>> => ts = s
    OBVIOUS
  <2> QED
    BY <2>1, <2>2, <2>3, <2>4
<1>4. <<>> \in Seq(Byte) /\ <<>> \o b = b
  OBVIOUS
<1> HIDE DEF w, x, ts
<1>5. CASE e = FALSE
  <2> DEFINE p == IF i = <<>> THEN r ELSE r \o Wire!PacketReceived(i)
             q == p \o x
             g == State(FALSE, <<>>, q)
  <2>1. IsSeq(p) /\ (Nulls(i) => Wire!Executed(p) = Wire!Executed(r))
    <3>1. CASE i = <<>>
      BY <1>2, <3>1
    <3>2. CASE i # <<>>
      <4> DEFINE y == Wire!PacketReceived(i)
      <4>1. IsSeq(y)
        BY PacketIsSeq
      <4>2. Nulls(i) => Wire!Executed(y) = <<>>
        BY <3>2, NullsExecuted
      <4> HIDE DEF y
      <4>3. IsSeq(r \o y)
        BY <1>2, <4>1, IsSeqConcat
      <4>4. IsSeq(Wire!Executed(r)) /\ Wire!Executed(r \o y) = Wire!Executed(r) \o Wire!Executed(y)
        BY <1>2, <4>1, ExecutedBoth
      <4>5. Wire!Executed(r) \o <<>> = Wire!Executed(r)
        <5>1. PICK M : Wire!Executed(r) \in Seq(M)
          BY <4>4 DEF IsSeq
        <5> QED
          BY <5>1
      <4>6. p = r \o y
        BY <3>2 DEF y
      <4> HIDE DEF p
      <4> QED
        BY <4>2, <4>3, <4>4, <4>5, <4>6
    <3> QED
      BY <3>1, <3>2
  <2>2. Wire!DecodeByte(State(FALSE, i, r), 192) = State(FALSE, <<>>, p)
    BY EndByte, Zenon
  <2> HIDE DEF p
  <2>3. w \in Seq(Byte) /\ Decodes(f, w, g)
    <3> DEFINE d == State(FALSE, i, r)
               h == <<>>
    <3>1. Wire!DecodeByte(d, 192) = State(FALSE, h, p)
      BY <2>2
    <3>2. h \in Seq(Byte) /\ h \o b = b /\ d = f
      BY <1>2, <1>4, <1>5
    <3> HIDE DEF d, h
    <3>3. h \in Seq(Byte)
      BY <3>2
    <3>4. Wire!Encode(b) \in Seq(Byte)
          /\ Decodes(d, Wire!Encode(b), State(FALSE, <<>>, p \o Wire!PacketReceived(h \o b)))
      BY <3>1, <3>3, EncodeDecodes
    <3> QED
      BY <3>2, <3>4 DEF w, x
  <2>4. IsSeq(q)
    BY <1>3, <2>1, IsSeqConcat
  <2>5. ~o.escaping => InOrder(o, ts, <<>>, q)
    <3> SUFFICES ASSUME ~o.escaping
                 PROVE  InOrder(o, ts, <<>>, q)
      OBVIOUS
    <3>1. InOrder(o, t, i, r) /\ IsSeq(r)
      BY <1>2
    <3> QED
      BY <2>1, <3>1, InOrderSend DEF ts, x
  <2>6. o.escaping => LosesFirst(ts, <<>>, q)
    <3> SUFFICES ASSUME o.escaping
                 PROVE  LosesFirst(ts, <<>>, q)
      OBVIOUS
    <3>1. CASE t = <<>>
      <4>1. LosesFirst(s, <<>>, q)
        <5> HIDE DEF q
        <5> QED
          BY <2>4, LosesFirstOne
      <4> QED
        BY <1>3, <3>1, <4>1
    <3>2. CASE t # <<>>
      <4>1. LosesFirst(t, i, r) /\ IsSeq(r)
        BY <1>2, <3>2
      <4> QED
        BY <2>1, <3>2, <4>1, LosesFirstSend DEF ts, x
    <3> QED
      BY <3>1, <3>2
  <2> HIDE DEF q
  <2> DEFINE off == FALSE
             h == <<>>
  <2>7. off \in BOOLEAN /\ h \in Seq(Byte) /\ off = FALSE
    BY <1>4
  <2>8. ~o.escaping => off = FALSE /\ InOrder(o, ts, h, q)
    BY <2>5
  <2>9. o.escaping /\ ts # <<>> => off = FALSE /\ LosesFirst(ts, h, q)
    BY <2>6
  <2>10. g = State(off, h, q)
    OBVIOUS
  <2> HIDE DEF off, h, g
  <2>11. Good(o, ts, State(off, h, q))
    BY <2>4, <2>7, <2>8, <2>9, GoodIs
  <2> QED
    BY <2>3, <2>10, <2>11 DEF w, ts
<1>6. CASE e = TRUE
  <2> DEFINE j == Append(i, 192)
             q == r \o Wire!PacketReceived(j \o b)
             g == State(FALSE, <<>>, q)
  <2>1. 192 \in Byte
    BY EndIsByte
  <2>2. j \in Seq(Byte) /\ j \o b \in Seq(Byte)
    BY <2>1
  <2>3. o.escaping /\ t = <<>>
    BY <1>2, <1>6
  <2>4. Wire!DecodeByte(State(TRUE, i, r), 192) = State(FALSE, Append(i, Unescaped(192)), r)
    BY <2>1, EscapedByte
  <2>5. Unescaped(192) = 192
    BY DEF Unescaped
  <2>6. f = State(TRUE, i, r)
    BY <1>2, <1>6
  <2>7. Wire!DecodeByte(f, 192) = State(FALSE, j, r)
    BY <2>4, <2>5, <2>6
  <2> HIDE DEF j
  <2>8. w \in Seq(Byte) /\ Decodes(f, w, g)
    <3>1. j \in Seq(Byte)
      BY <2>2
    <3> QED
      BY <2>7, <3>1, EncodeDecodes DEF w
  <2>9. IsSeq(q)
    <3> DEFINE k == j \o b
               y == Wire!PacketReceived(k)
    <3>1. k \in Seq(Byte)
      BY <2>2
    <3> HIDE DEF k
    <3>2. IsSeq(y)
      BY <3>1, PacketIsSeq
    <3> HIDE DEF y
    <3>3. IsSeq(r \o y)
      BY <1>2, <3>2, IsSeqConcat
    <3> QED
      BY <3>3 DEF y, k
  <2> HIDE DEF q
  <2>10. LosesFirst(ts, <<>>, q)
    <3>1. LosesFirst(s, <<>>, q)
      BY <2>9, LosesFirstOne
    <3> QED
      BY <1>3, <2>3, <3>1
  <2> DEFINE off == FALSE
             h == <<>>
  <2>11. off \in BOOLEAN /\ h \in Seq(Byte) /\ off = FALSE
    BY <1>4
  <2>12. ~o.escaping => off = FALSE /\ InOrder(o, ts, h, q)
    BY <2>3
  <2>13. o.escaping /\ ts # <<>> => off = FALSE /\ LosesFirst(ts, h, q)
    BY <2>10
  <2>14. g = State(off, h, q)
    OBVIOUS
  <2> HIDE DEF off, h, g
  <2>15. Good(o, ts, State(off, h, q))
    BY <2>9, <2>11, <2>12, <2>13, GoodIs
  <2> QED
    BY <2>8, <2>14, <2>15 DEF w, ts
<1> QED
  BY <1>5, <1>6

\* A null message is sent behind the bytes on their way.
LEMMA GoodNull ==
  ASSUME NEW o, NEW t, NEW f, Good(o, t, f)
  PROVE  /\ Wire!NullMessage \in Seq(Byte)
         /\ \E g : Decodes(f, Wire!NullMessage, g) /\ Good(o, t, g)
<1> DEFINE w == Wire!NullMessage
<1>1. /\ w \in Seq(Byte) /\ Len(w) = 8
      /\ \A k \in 1..8 : w[k] # 192 /\ w[k] # 219 /\ w[k] # 220 /\ w[k] # 221
  <2>1. 47 \in Byte /\ 0 \in Byte /\ 44 \in Byte
    BY Bytes
  <2>2. w = <<47, 0, 0, 0, 44, 0, 0, 0>>
    BY DEF Wire!NullMessage, Wire!COMMA
  <2>3. w \in Seq(Byte) /\ Len(w) = 8
    BY <2>1, <2>2
  <2>4. /\ w[1] = 47 /\ w[2] = 0 /\ w[3] = 0 /\ w[4] = 0
        /\ w[5] = 44 /\ w[6] = 0 /\ w[7] = 0 /\ w[8] = 0
    BY <2>2
  <2>5. \A k \in 1..8 : k = 1 \/ k = 2 \/ k = 3 \/ k = 4 \/ k = 5 \/ k = 6 \/ k = 7 \/ k = 8
    OBVIOUS
  <2> HIDE DEF w
  <2>6. \A k \in 1..8 : w[k] = 47 \/ w[k] = 0 \/ w[k] = 44
    BY <2>4, <2>5
  <2>7. \A k \in 1..8 : w[k] # 192 /\ w[k] # 219 /\ w[k] # 220 /\ w[k] # 221
    BY <2>6
  <2> QED
    BY <2>3, <2>7
<1>2. PICK e \in BOOLEAN, i \in Seq(Byte) : \E r :
        /\ IsSeq(r) /\ f = State(e, i, r)
        /\ ~o.escaping => e = FALSE /\ InOrder(o, t, i, r)
        /\ o.escaping /\ t # <<>> => e = FALSE /\ LosesFirst(t, i, r)
  BY DEF Good
<1>3. PICK r :
        /\ IsSeq(r) /\ f = State(e, i, r)
        /\ ~o.escaping => e = FALSE /\ InOrder(o, t, i, r)
        /\ o.escaping /\ t # <<>> => e = FALSE /\ LosesFirst(t, i, r)
  BY <1>2
<1> DEFINE j == i \o w
           g == State(FALSE, j, r)
<1>4. j \in Seq(Byte) /\ (Nulls(i) => Nulls(j))
  <2>1. w = Wire!NullMessage
    OBVIOUS
  <2> HIDE DEF w
  <2>2. j \in Seq(Byte) /\ Len(j) = Len(i) + 8
    <3>1. w \in Seq(Byte)
      BY <1>1
    <3>2. IsConcat(i \o w, i, w, Byte)
      BY <3>1, ConcatPlaces
    <3> QED
      BY <1>1, <3>2 DEF IsConcat
  <2>3. CASE i = <<>>
    <3>1. j = w
      BY <1>1, <2>3
    <3> QED
      BY <1>1, <2>1, <2>2, <3>1 DEF Nulls
  <2>4. CASE i # <<>>
    <3> SUFFICES ASSUME Nulls(i)
                 PROVE  Nulls(j)
      BY <2>2
    <3>1. Len(i) >= 8 /\ \A k \in 1..8 : i[k] = Wire!NullMessage[k]
      BY <2>4 DEF Nulls
    <3>2. \A k \in 1..Len(i) : j[k] = i[k]
      <4>1. IsConcat(i \o w, i, w, Byte)
        BY <1>1, ConcatPlaces
      <4> QED
        BY <4>1 DEF IsConcat
    <3>3. Len(i) \in Nat
      OBVIOUS
    <3> HIDE DEF j
    <3>4. \A k \in 1..8 : k \in 1..Len(i)
      BY <3>1, <3>3
    <3>5. Len(j) >= 8
      BY <2>2, <3>3
    <3> QED
      BY <3>1, <3>2, <3>4, <3>5 DEF Nulls
  <2> QED
    BY <2>3, <2>4
<1>5. Decodes(f, w, g)
  <2>1. w # <<>> /\ \A k \in 1..Len(w) : w[k] \notin {192, 219, 220, 221}
    <3> HIDE DEF w
    <3> QED
      BY <1>1
  <2>2. w \in Seq(Byte)
    BY <1>1
  <2> HIDE DEF w
  <2>3. Decodes(State(e, i, r), w, State(FALSE, i \o w, r))
    BY <2>1, <2>2, PlainDecodes
  <2> QED
    BY <1>3, <2>3 DEF g
<1>6. ~o.escaping => InOrder(o, t, j, r)
  <2> HIDE DEF j
  <2> QED
    BY <1>3, <1>4 DEF InOrder
<1>7. o.escaping /\ t # <<>> => LosesFirst(t, j, r)
  <2> HIDE DEF j
  <2> QED
    BY <1>3, <1>4 DEF LosesFirst
<1> DEFINE off == FALSE
<1>8. off \in BOOLEAN /\ off = FALSE /\ g = State(off, j, r)
  OBVIOUS
<1> HIDE DEF off, j, g, w
<1>9. ~o.escaping => off = FALSE /\ InOrder(o, t, j, r)
  BY <1>6, <1>8
<1>10. o.escaping /\ t # <<>> => off = FALSE /\ LosesFirst(t, j, r)
  BY <1>7, <1>8
<1>11. j \in Seq(Byte) /\ IsSeq(r)
  BY <1>3, <1>4
<1>12. Good(o, t, State(off, j, r))
  BY <1>8, <1>9, <1>10, <1>11, GoodIs
<1> QED
  BY <1>1, <1>5, <1>8, <1>12 DEF w

\* A decoder of the program.
IsState(d) == \E e \in BOOLEAN, i \in Seq(Byte) : \E r : IsSeq(r) /\ d = State(e, i, r)

\* Its fields make a state.
LEMMA IsStateIs ==
  ASSUME NEW e \in BOOLEAN, NEW i \in Seq(Byte), NEW r, IsSeq(r)
  PROVE  IsState(State(e, i, r))
  BY DEF IsState

\* A byte leads from a state to a state.
LEMMA DecodedIsState ==
  ASSUME NEW d, IsState(d), NEW c \in Byte
  PROVE  IsState(Wire!DecodeByte(d, c))
<1>1. PICK e \in BOOLEAN, i \in Seq(Byte) : \E r : IsSeq(r) /\ d = State(e, i, r)
  BY DEF IsState
<1>2. PICK r : IsSeq(r) /\ d = State(e, i, r)
  BY <1>1
<1> DEFINE on == TRUE
           off == FALSE
<1>3. on \in BOOLEAN /\ off \in BOOLEAN /\ on = TRUE /\ off = FALSE
  OBVIOUS
<1> HIDE DEF on, off
<1>4. CASE e = TRUE
  <2> DEFINE j == Append(i, Unescaped(c))
  <2>1. Unescaped(c) \in Byte
    BY Bytes DEF Unescaped
  <2>2. j \in Seq(Byte)
    BY <2>1
  <2> HIDE DEF j
  <2>3. Wire!DecodeByte(State(TRUE, i, r), c) = State(FALSE, j, r)
    BY EscapedByte DEF j
  <2>4. IsState(State(off, j, r))
    BY <1>2, <1>3, <2>2, IsStateIs
  <2> QED
    BY <1>2, <1>3, <1>4, <2>3, <2>4
<1>5. CASE e = FALSE /\ c = 219
  <2>1. Wire!DecodeByte(State(FALSE, i, r), 219) = State(TRUE, i, r)
    BY EscapeByte
  <2>2. IsState(State(on, i, r))
    BY <1>2, <1>3, IsStateIs
  <2> QED
    BY <1>2, <1>3, <1>5, <2>1, <2>2
<1>6. CASE e = FALSE /\ c = 192
  <2> DEFINE h == <<>>
             y == Wire!PacketReceived(i)
             p == IF i = <<>> THEN r ELSE r \o y
  <2>1. Wire!DecodeByte(State(FALSE, i, r), 192) = State(FALSE, h, p)
    BY EndByte, Zenon
  <2>2. IsSeq(y)
    BY PacketIsSeq
  <2> HIDE DEF y
  <2>3. IsSeq(r \o y)
    BY <1>2, <2>2, IsSeqConcat
  <2>4. IsSeq(p)
    BY <1>2, <2>3
  <2>5. h \in Seq(Byte)
    OBVIOUS
  <2> HIDE DEF h, p
  <2>6. IsState(State(off, h, p))
    BY <1>3, <2>4, <2>5, IsStateIs
  <2> QED
    BY <1>2, <1>3, <1>6, <2>1, <2>6
<1>7. CASE e = FALSE /\ c # 192 /\ c # 219
  <2> DEFINE j == Append(i, c)
  <2>1. j \in Seq(Byte)
    OBVIOUS
  <2> HIDE DEF j
  <2>2. Wire!DecodeByte(State(FALSE, i, r), c) = State(FALSE, j, r)
    BY <1>7, PlainByte DEF j
  <2>3. IsState(State(off, j, r))
    BY <1>2, <1>3, <2>1, IsStateIs
  <2> QED
    BY <1>2, <1>3, <1>7, <2>2, <2>3
<1>8. e = TRUE \/ e = FALSE
  OBVIOUS
<1> QED
  BY <1>4, <1>5, <1>6, <1>7, <1>8

\* The empty sequence is one.
LEMMA EmptyIsSeq == IsSeq(<<>>)
<1>1. <<>> \in Seq({})
  OBVIOUS
<1> QED
  BY <1>1 DEF IsSeq

\* A connection opens with what the decoder had of the former one.
LEMMA GoodStart ==
  ASSUME NEW e \in BOOLEAN, NEW i \in Seq(Byte)
  PROVE  IsState(State(e, i, <<>>)) /\ Good(State(e, i, <<>>), <<>>, State(e, i, <<>>))
<1> DEFINE r == <<>>
           o == State(e, i, r)
           t == <<>>
<1>1. IsSeq(r)
  BY EmptyIsSeq
<1>2. o.escaping = e /\ o.input = i
  BY DEF State
<1>3. InOrder(o, t, i, r)
  <2>1. i = <<>> => Nulls(i)
    BY DEF Nulls
  <2>2. Wire!Executed(r) = <<>>
    BY ExecutedNone
  <2>3. Expected(t) = <<>>
    <3>1. t \in Seq(WireMessage) /\ t = <<>>
      OBVIOUS
    <3> HIDE DEF t
    <3> QED
      BY <3>1, ExpectedFacts
  <2>4. <<>> \o <<>> = <<>>
    <3>1. <<>> \in Seq({})
      OBVIOUS
    <3> QED
      BY <3>1, ConcatEmptySeq
  <2>5. ~(t # <<>>)
    OBVIOUS
  <2> HIDE DEF o, r, t
  <2>6. \E u : IsSeq(u) /\ Wire!Executed(r) = u \o Expected(t)
    BY <2>2, <2>3, <2>4, EmptyIsSeq
  <2> QED
    BY <1>2, <2>1, <2>2, <2>3, <2>5, <2>6 DEF InOrder
<1>4. ~(t # <<>>)
  OBVIOUS
<1> HIDE DEF r, o, t
<1>5. ~o.escaping => e = FALSE /\ InOrder(o, t, i, r)
  BY <1>2, <1>3
<1>6. o.escaping /\ t # <<>> => e = FALSE /\ LosesFirst(t, i, r)
  BY <1>4
<1>7. Good(o, t, State(e, i, r))
  BY <1>1, <1>5, <1>6, GoodIs
<1>8. IsState(State(e, i, r))
  BY <1>1, IsStateIs
<1> QED
  BY <1>7, <1>8 DEF o, t, r

\* The second of two sequences is at the end.
LEMMA SuffixFacts ==
  ASSUME NEW u, NEW s, IsSeq(u), IsSeq(s)
  PROVE  Wire!IsSuffix(s, u \o s)
<1>1. PICK M : u \in Seq(M) /\ s \in Seq(M)
  BY IsSeqConcat
<1> DEFINE t == u \o s
           m == Len(u)
           n == Len(s)
           x == Wire!Reverse(s)
           y == Wire!Reverse(t)
<1>2. /\ t \in Seq(M) /\ Len(t) = m + n
      /\ \A j \in 1..n : t[m + j] = s[j]
  <2>1. u \in Seq(M)
    BY <1>1
  <2>2. s \in Seq(M)
    BY <1>1
  <2>3. IsConcat(t, u, s, M)
    BY <2>1, <2>2, ConcatPlaces
  <2> QED
    BY <2>3 DEF IsConcat
<1>3. n \in Nat /\ m \in Nat /\ \A j \in 1..n : s[j] \in M
  BY <1>1
<1>4. x = [i \in 1..n |-> s[(n - i) + 1]]
  BY DEF Wire!Reverse
<1>5. y = [i \in 1..(m + n) |-> t[((m + n) - i) + 1]]
  BY <1>2 DEF Wire!Reverse
<1> HIDE DEF t, m, n, x, y
<1>6. \A i \in 1..(m + n) : t[((m + n) - i) + 1] \in M
  <2> SUFFICES ASSUME NEW i \in 1..(m + n)
               PROVE  t[((m + n) - i) + 1] \in M
    OBVIOUS
  <2> DEFINE k == ((m + n) - i) + 1
  <2>1. k \in 1..(m + n)
    BY <1>3
  <2> HIDE DEF k
  <2>2. t[k] \in M
    BY <1>2, <2>1
  <2> QED
    BY <2>2 DEF k
<1>7. \A i \in 1..n : /\ s[(n - i) + 1] \in M
                      /\ t[((m + n) - i) + 1] = s[(n - i) + 1]
  <2> SUFFICES ASSUME NEW i \in 1..n
               PROVE  s[(n - i) + 1] \in M /\ t[((m + n) - i) + 1] = s[(n - i) + 1]
    OBVIOUS
  <2> DEFINE j == (n - i) + 1
  <2>1. j \in 1..n /\ ((m + n) - i) + 1 = m + j
    BY <1>3
  <2> HIDE DEF j
  <2>2. s[j] \in M /\ t[m + j] = s[j]
    BY <1>2, <1>3, <2>1
  <2> QED
    BY <2>1, <2>2 DEF j
<1>8. x \in Seq(M) /\ Len(x) = n
  BY <1>3, <1>4, <1>7
<1>9. y \in Seq(M) /\ Len(y) = m + n
  <2> DEFINE p == m + n
             item(i) == t[(p - i) + 1]
  <2>1. p \in Nat /\ y = [i \in 1..p |-> item(i)] /\ \A i \in 1..p : item(i) \in M
    BY <1>3, <1>5, <1>6
  <2> HIDE DEF p, item
  <2>2. y \in Seq(M) /\ Len(y) = p
    BY <2>1
  <2> QED
    BY <2>2 DEF p
<1>10. \A i \in 1..n : x[i] = y[i]
  BY <1>3, <1>4, <1>5, <1>7
<1>11. SubSeq(x, 1, n) = SubSeq(y, 1, n) /\ n <= m + n
  BY <1>3, <1>8, <1>9, <1>10
<1>12. Wire!IsPrefix(x, y)
  BY <1>8, <1>9, <1>11 DEF Wire!IsPrefix
<1> QED
  BY <1>12 DEF Wire!IsSuffix, x, y, t

(***************************************************************************)
(* The inductive invariant of the bytes on their way.                      *)
(***************************************************************************)

\* What is on its way and what the decoder has have their types.
WireTypes ==
    /\ wireConnected \in BOOLEAN /\ serial \in BOOLEAN
    /\ wire \in Seq(Byte) /\ transmitted \in Seq(WireMessage)
    /\ wireBreaks \in 0..MaxWireBreaks
    /\ IsState(decoder) /\ IsState(atOpen)

\* What will be executed when every byte has arrived is what has been sent.
OnTheWay ==
    /\ ~wireConnected => wire = <<>>
    /\ wireConnected => \E f : Decodes(decoder, wire, f) /\ Good(atOpen, transmitted, f)

\* The invariant.
WireInv == WireTypes /\ OnTheWay

\* The fields of a state.
LEMMA StateParts ==
  ASSUME NEW d, IsState(d)
  PROVE  d.escaping \in BOOLEAN /\ d.input \in Seq(Byte)
<1>1. PICK e \in BOOLEAN, i \in Seq(Byte) : \E r : IsSeq(r) /\ d = State(e, i, r)
  BY DEF IsState
<1>2. PICK r : IsSeq(r) /\ d = State(e, i, r)
  BY <1>1
<1> QED
  BY <1>2 DEF State

\* The bytes of a packet or of a null message are put behind those on their way.
LEMMA Written ==
  ASSUME NEW w \in Seq(Byte), NEW v \in Seq(Byte), NEW d, NEW f, NEW g, NEW o, NEW t,
         Decodes(d, w, f), Decodes(f, v, g), Good(o, t, g)
  PROVE  w \o v \in Seq(Byte) /\ \E h : Decodes(d, w \o v, h) /\ Good(o, t, h)
<1>1. w \o v \in Seq(Byte)
  OBVIOUS
<1>2. Decodes(d, w \o v, g)
  BY DecodesConcat, Zenon
<1> QED
  BY <1>1, <1>2

\* A message in a packet of its own.
LEMMA MessagePacket ==
  ASSUME NEW m \in WireMessage
  PROVE  LET b == Wire!WriteMessage(m)
             s == <<m>>
         IN  /\ b \in Seq(Byte) /\ b # <<>> /\ s \in Seq(WireMessage) /\ Len(s) \in 1..2
             /\ Wire!PacketReceived(b) = Expected(s)
             /\ Wire!Executed(Expected(s)) = Expected(s)
<1> DEFINE b == Wire!WriteMessage(m)
           s == <<m>>
           x == Wire!Understood(m)
<1>1. /\ b \in Seq(Byte) /\ Len(b) \in Nat /\ Len(b) > 0 /\ b[1] = 47
      /\ Wire!Legible(b) /\ Wire!ReadMessage(b) = x
      /\ x.address # <<47>>
  BY MessageRead
<1>2. s \in Seq(WireMessage) /\ Len(s) \in 1..2
  OBVIOUS
<1>3. Expected(s) = <<x>>
  BY DEF Expected
<1> HIDE DEF b, s, x
<1>4. b # <<>>
  BY <1>1
<1>5. Wire!PacketReceived(b) = <<x>>
  BY <1>1, <1>4, PacketOfOne
<1>6. Wire!Executed(<<x>>) = <<x>>
  BY <1>1, ExecutedOne
<1> QED
  BY <1>1, <1>2, <1>3, <1>4, <1>5, <1>6 DEF b, s

\* Two messages in a bundle.
LEMMA BundlePacket ==
  ASSUME NEW m \in WireMessage, NEW n \in WireMessage
  PROVE  LET b == Wire!WriteBundle(<<m, n>>)
             s == <<m, n>>
         IN  /\ b \in Seq(Byte) /\ b # <<>> /\ s \in Seq(WireMessage) /\ Len(s) \in 1..2
             /\ Wire!PacketReceived(b) = Expected(s)
             /\ Wire!Executed(Expected(s)) = Expected(s)
<1> DEFINE b == Wire!WriteBundle(<<m, n>>)
           s == <<m, n>>
           x == Wire!Understood(m)
           y == Wire!Understood(n)
<1>1. b \in Seq(Byte) /\ b # <<>> /\ Wire!PacketReceived(b) = <<x, y>>
  BY BundleReceived
<1>2. s \in Seq(WireMessage) /\ Len(s) \in 1..2
  OBVIOUS
<1>3. Expected(s) = <<x, y>>
  BY DEF Expected
<1>4. x.address # <<47>> /\ y.address # <<47>>
  BY MessageRead
<1> HIDE DEF b, s, x, y
<1>6. Wire!Executed(<<x>>) = <<x>> /\ Wire!Executed(<<y>>) = <<y>>
  BY <1>4, ExecutedOne
<1>5. Wire!Executed(<<x, y>>) = <<x, y>>
  BY <1>6, ExecutedTwo
<1> QED
  BY <1>1, <1>2, <1>3, <1>5 DEF b, s

\* Nothing is on its way at the start.
LEMMA WireInit == Wire!Init => WireInv
<1> SUFFICES ASSUME Wire!Init
             PROVE  WireInv
  OBVIOUS
<1> DEFINE off == FALSE
           i == <<>>
           d == State(off, i, <<>>)
<1>1. decoder = d /\ atOpen = d
  BY DEF Wire!Init, Wire!Fresh, State
<1>2. off \in BOOLEAN /\ i \in Seq(Byte)
  OBVIOUS
<1> HIDE DEF off, i
<1>3. IsState(d) /\ Good(d, <<>>, d)
  BY <1>2, GoodStart
<1>4. Decodes(d, <<>>, d)
  BY DecodesNone, Zenon
<1> HIDE DEF d
<1>5. WireTypes
  BY <1>1, <1>3, WireAssumption DEF Wire!Init, WireTypes
<1>6. OnTheWay
  <2>1. wire = <<>> /\ transmitted = <<>>
    BY DEF Wire!Init
  <2> QED
    BY <1>1, <1>3, <1>4, <2>1 DEF OnTheWay
<1> QED
  BY <1>5, <1>6 DEF WireInv

\* A packet of s.
LEMMA SendStep ==
  ASSUME WireInv, wireConnected, NEW s \in Seq(WireMessage), Len(s) \in 1..2, NEW b \in Seq(Byte), b # <<>>,
         Wire!PacketReceived(b) = Expected(s), Wire!Executed(Expected(s)) = Expected(s),
         wire' = wire \o Wire!Encode(b), transmitted' = transmitted \o s,
         UNCHANGED <<wireConnected, serial, decoder, atOpen, wireBreaks>>
  PROVE  WireInv'
<1>1. PICK f : Decodes(decoder, wire, f) /\ Good(atOpen, transmitted, f)
  BY DEF WireInv, OnTheWay
<1> DEFINE w == Wire!Encode(b)
           ts == transmitted \o s
<1>2. transmitted \in Seq(WireMessage) /\ atOpen.escaping \in BOOLEAN /\ wire \in Seq(Byte)
  BY StateParts DEF WireInv, WireTypes
<1>3. w \in Seq(Byte) /\ \E g : Decodes(f, w, g) /\ Good(atOpen, ts, g)
  BY <1>1, <1>2, GoodSend
<1>4. ts \in Seq(WireMessage)
  BY <1>2
<1> HIDE DEF w, ts
<1>5. PICK g : Decodes(f, w, g) /\ Good(atOpen, ts, g)
  BY <1>3
<1>6. wire \o w \in Seq(Byte) /\ \E h : Decodes(decoder, wire \o w, h) /\ Good(atOpen, ts, h)
  BY <1>1, <1>2, <1>3, <1>5, Written
<1>7. wire' = wire \o w /\ transmitted' = ts
  BY DEF w, ts
<1>8. WireTypes'
  BY <1>4, <1>6, <1>7 DEF WireInv, WireTypes
<1>9. OnTheWay'
  BY <1>6, <1>7 DEF WireInv, OnTheWay
<1> QED
  BY <1>8, <1>9 DEF WireInv

\* Every step of the bytes keeps the invariant.
LEMMA WireStep == WireInv /\ [Wire!Next]_(Wire!vars) => WireInv'
<1> SUFFICES ASSUME WireInv, [Wire!Next]_(Wire!vars)
             PROVE  WireInv'
  OBVIOUS
<1>1. ASSUME NEW m \in WireMessage, Wire!Send(m)
      PROVE  WireInv'
  <2> DEFINE b == Wire!WriteMessage(m)
             s == <<m>>
  <2>1. /\ b \in Seq(Byte) /\ b # <<>> /\ s \in Seq(WireMessage) /\ Len(s) \in 1..2
        /\ Wire!PacketReceived(b) = Expected(s)
        /\ Wire!Executed(Expected(s)) = Expected(s)
    BY MessagePacket
  <2>2. /\ wireConnected /\ wire' = wire \o Wire!Encode(b)
        /\ UNCHANGED <<wireConnected, serial, decoder, atOpen, wireBreaks>>
    BY <1>1 DEF Wire!Send
  <2>3. transmitted' = transmitted \o s
    <3>1. transmitted \in Seq(WireMessage)
      BY DEF WireInv, WireTypes
    <3>2. transmitted' = Append(transmitted, m)
      BY <1>1 DEF Wire!Send
    <3>3. Append(transmitted, m) = transmitted \o <<m>>
      BY <3>1
    <3> QED
      BY <3>2, <3>3
  <2> HIDE DEF b, s
  <2> QED
    BY <2>1, <2>2, <2>3, SendStep
<1>2. ASSUME NEW m \in WireMessage, NEW n \in WireMessage, Wire!SendBundle(<<m, n>>)
      PROVE  WireInv'
  <2> DEFINE b == Wire!WriteBundle(<<m, n>>)
             s == <<m, n>>
  <2>1. /\ b \in Seq(Byte) /\ b # <<>> /\ s \in Seq(WireMessage) /\ Len(s) \in 1..2
        /\ Wire!PacketReceived(b) = Expected(s)
        /\ Wire!Executed(Expected(s)) = Expected(s)
    BY BundlePacket
  <2>2. /\ wireConnected /\ wire' = wire \o Wire!Encode(b) /\ transmitted' = transmitted \o s
        /\ UNCHANGED <<wireConnected, serial, decoder, atOpen, wireBreaks>>
    BY <1>2 DEF Wire!SendBundle
  <2> HIDE DEF b, s
  <2> QED
    BY <2>1, <2>2, SendStep
<1>3. ASSUME Wire!SendNull
      PROVE  WireInv'
  <2>1. PICK f : Decodes(decoder, wire, f) /\ Good(atOpen, transmitted, f)
    BY <1>3 DEF WireInv, OnTheWay, Wire!SendNull
  <2> DEFINE w == Wire!NullMessage
  <2>2. w \in Seq(Byte) /\ \E g : Decodes(f, w, g) /\ Good(atOpen, transmitted, g)
    BY <2>1, GoodNull
  <2>3. wire' = wire \o w /\ wireConnected
        /\ UNCHANGED <<wireConnected, serial, decoder, atOpen, transmitted, wireBreaks>>
    BY <1>3 DEF Wire!SendNull
  <2> HIDE DEF w
  <2>4. PICK g : Decodes(f, w, g) /\ Good(atOpen, transmitted, g)
    BY <2>2
  <2>5. wire \in Seq(Byte)
    BY DEF WireInv, WireTypes
  <2>6. wire \o w \in Seq(Byte) /\ \E h : Decodes(decoder, wire \o w, h) /\ Good(atOpen, transmitted, h)
    BY <2>1, <2>2, <2>4, <2>5, Written
  <2>7. WireTypes'
    BY <2>3, <2>6 DEF WireInv, WireTypes
  <2>8. OnTheWay'
    BY <2>3, <2>6 DEF WireInv, OnTheWay
  <2> QED
    BY <2>7, <2>8 DEF WireInv
<1>4. ASSUME Wire!Receive
      PROVE  WireInv'
  <2>1. wireConnected /\ wire # <<>> /\ wire \in Seq(Byte)
    BY <1>4 DEF WireInv, WireTypes, OnTheWay, Wire!Receive
  <2>2. PICK f : Decodes(decoder, wire, f) /\ Good(atOpen, transmitted, f)
    BY <2>1 DEF WireInv, OnTheWay
  <2>3. Decodes(Wire!DecodeByte(decoder, Head(wire)), Tail(wire), f)
    BY <2>1, <2>2, DecodesHead, Zenon
  <2>4. Tail(wire) \in Seq(Byte) /\ Head(wire) \in Byte
    BY <2>1
  <2>5. IsState(Wire!DecodeByte(decoder, Head(wire)))
    <3>1. IsState(decoder) /\ Head(wire) \in Byte
      BY <2>4 DEF WireInv, WireTypes
    <3> QED
      BY <3>1, DecodedIsState
  <2>6. /\ decoder' = Wire!DecodeByte(decoder, Head(wire)) /\ wire' = Tail(wire)
        /\ UNCHANGED <<wireConnected, serial, atOpen, transmitted, wireBreaks>>
    BY <1>4 DEF Wire!Receive
  <2>7. WireTypes'
    BY <2>4, <2>5, <2>6 DEF WireInv, WireTypes
  <2>8. OnTheWay'
    BY <2>1, <2>2, <2>3, <2>6 DEF OnTheWay
  <2> QED
    BY <2>7, <2>8 DEF WireInv
<1>5. ASSUME Wire!Break
      PROVE  WireInv'
  <2>1. wireBreaks + 1 \in 0..MaxWireBreaks
    BY <1>5, WireAssumption DEF Wire!Break, WireInv, WireTypes
  <2>2. <<>> \in Seq(Byte)
    OBVIOUS
  <2>3. WireTypes'
    BY <1>5, <2>1, <2>2 DEF Wire!Break, WireInv, WireTypes
  <2>4. OnTheWay'
    BY <1>5 DEF Wire!Break, OnTheWay
  <2> QED
    BY <2>3, <2>4 DEF WireInv
<1>6. ASSUME NEW new \in BOOLEAN, Wire!Connect(new)
      PROVE  WireInv'
  <2>1. \E e \in BOOLEAN, i \in Seq(Byte) : decoder' = State(e, i, <<>>)
    <3>1. CASE new
      <4> DEFINE off == FALSE
                 i == <<>>
      <4>1. decoder' = State(off, i, <<>>)
        BY <1>6, <3>1 DEF Wire!Connect, Wire!Fresh, State
      <4>2. off \in BOOLEAN /\ i \in Seq(Byte)
        OBVIOUS
      <4> HIDE DEF off, i
      <4> QED
        BY <4>1, <4>2
    <3>2. CASE ~new
      <4>1. PICK e \in BOOLEAN, i \in Seq(Byte) : \E r : IsSeq(r) /\ decoder = State(e, i, r)
        BY DEF WireInv, WireTypes, IsState
      <4>2. PICK r : decoder = State(e, i, r)
        BY <4>1
      <4>3. decoder' = [decoder EXCEPT !.received = <<>>]
        BY <1>6, <3>2 DEF Wire!Connect
      <4>4. [State(e, i, r) EXCEPT !.received = <<>>] = State(e, i, <<>>)
        BY StateReceived
      <4> QED
        BY <4>2, <4>3, <4>4
    <3> QED
      BY <3>1, <3>2
  <2>2. PICK e \in BOOLEAN, i \in Seq(Byte) : decoder' = State(e, i, <<>>)
    BY <2>1
  <2> DEFINE d == State(e, i, <<>>)
  <2>3. IsState(d) /\ Good(d, <<>>, d)
    BY GoodStart
  <2>4. Decodes(d, <<>>, d)
    BY DecodesNone, Zenon
  <2>5. /\ wire = <<>> /\ wire' = <<>> /\ transmitted' = <<>> /\ wireConnected'
        /\ decoder' = d /\ atOpen' = d /\ UNCHANGED <<serial, wireBreaks>>
    BY <1>6, <2>2 DEF Wire!Connect, WireInv, OnTheWay
  <2> HIDE DEF d
  <2>6. wireConnected' \in BOOLEAN
    BY <1>6 DEF Wire!Connect
  <2>7. WireTypes'
    BY <2>3, <2>5, <2>6 DEF WireInv, WireTypes
  <2>8. OnTheWay'
    BY <2>3, <2>4, <2>5 DEF OnTheWay
  <2> QED
    BY <2>7, <2>8 DEF WireInv
<1>7. CASE UNCHANGED Wire!vars
  BY <1>7 DEF Wire!vars, WireInv, WireTypes, OnTheWay
<1> QED
  BY <1>1, <1>2, <1>3, <1>4, <1>5, <1>6, <1>7 DEF Wire!Next

\* When every byte has arrived, the messages of the connection have been executed.
LEMMA WireArrived == WireInv => DeliveredAsSent
<1> SUFFICES ASSUME WireInv
             PROVE  DeliveredAsSent
  OBVIOUS
<1> DEFINE executed == Wire!Executed(decoder.received)
           x == Expected(transmitted)
           n == Len(transmitted)
<1>1. Wire!TypeOK
  BY StateParts DEF WireInv, WireTypes, Wire!TypeOK, Byte
<1>2. ASSUME wireConnected, wire = <<>>
      PROVE  /\ ~atOpen.escaping => /\ Wire!IsSuffix(x, executed)
                                    /\ atOpen.input = <<>> => executed = x
             /\ atOpen.escaping /\ transmitted # <<>> =>
                  \E gone \in 1..2 : Wire!IsSuffix(SubSeq(x, gone + 1, n), executed)
  <2>1. PICK f : Decodes(decoder, wire, f) /\ Good(atOpen, transmitted, f)
    BY <1>2 DEF WireInv, OnTheWay
  <2>2. f = decoder
    <3>1. \A g : Decodes(decoder, <<>>, g) => g = decoder
      BY DecodesNone, Zenon
    <3> QED
      BY <1>2, <2>1, <3>1
  <2>3. PICK e \in BOOLEAN, i \in Seq(Byte) : \E r :
          /\ IsSeq(r) /\ decoder = State(e, i, r)
          /\ ~atOpen.escaping => e = FALSE /\ InOrder(atOpen, transmitted, i, r)
          /\ atOpen.escaping /\ transmitted # <<>> => e = FALSE /\ LosesFirst(transmitted, i, r)
    BY <2>1, <2>2 DEF Good
  <2>4. PICK r :
          /\ IsSeq(r) /\ decoder = State(e, i, r)
          /\ ~atOpen.escaping => e = FALSE /\ InOrder(atOpen, transmitted, i, r)
          /\ atOpen.escaping /\ transmitted # <<>> => e = FALSE /\ LosesFirst(transmitted, i, r)
    BY <2>3
  <2>5. decoder.received = r
    BY <2>4 DEF State
  <2>6. IsSeq(x) /\ Len(x) = n /\ n \in Nat
    <3>1. transmitted \in Seq(WireMessage)
      BY DEF WireInv, WireTypes
    <3> QED
      BY <3>1, ExpectedFacts
  <2> HIDE DEF x, n
  <2>7. ASSUME ~atOpen.escaping
        PROVE  Wire!IsSuffix(x, executed) /\ (atOpen.input = <<>> => executed = x)
    <3>1. InOrder(atOpen, transmitted, i, r)
      BY <2>4, <2>7
    <3>2. PICK u : IsSeq(u) /\ Wire!Executed(r) = u \o x
      BY <3>1 DEF InOrder, x
    <3>3. Wire!IsSuffix(x, u \o x)
      BY <2>6, <3>2, SuffixFacts
    <3> QED
      BY <2>5, <3>1, <3>2, <3>3 DEF InOrder, x
  <2>8. ASSUME atOpen.escaping, transmitted # <<>>
        PROVE  \E gone \in 1..2 : Wire!IsSuffix(SubSeq(x, gone + 1, n), executed)
    <3>1. LosesFirst(transmitted, i, r)
      BY <2>4, <2>8
    <3>2. PICK gone \in 1..2 : \E u : gone <= n /\ IsSeq(u) /\ Wire!Executed(r) = u \o SubSeq(x, gone + 1, n)
      BY <3>1 DEF LosesFirst, x, n
    <3>3. PICK u : gone <= n /\ IsSeq(u) /\ Wire!Executed(r) = u \o SubSeq(x, gone + 1, n)
      BY <3>2
    <3> DEFINE v == SubSeq(x, gone + 1, n)
    <3>4. IsSeq(v)
      <4>1. PICK M : x \in Seq(M)
        BY <2>6 DEF IsSeq
      <4>2. v \in Seq(M)
        BY <2>6, <3>2, <3>3, <4>1
      <4> QED
        BY <4>2 DEF IsSeq
    <3> HIDE DEF v
    <3>5. Wire!IsSuffix(v, u \o v)
      BY <3>3, <3>4, SuffixFacts
    <3> QED
      BY <2>5, <3>2, <3>3, <3>5 DEF v
  <2> QED
    BY <2>7, <2>8
<1>3. x = [k \in DOMAIN transmitted |-> Wire!Understood(transmitted[k])]
  BY DEF Expected
<1>4. Wire!DeliveredAsSent
  <2> HIDE DEF x, executed, n
  <2>1. Wire!DeliveredAsSent
          = (wireConnected /\ wire = <<>> /\ decoder.input = <<>> /\ transmitted # <<>>
               => IF ~atOpen.escaping
                  THEN /\ Wire!IsSuffix(x, executed)
                       /\ atOpen.input = <<>> => executed = x
                  ELSE \E gone \in 1..2 : Wire!IsSuffix(SubSeq(x, gone + 1, n), executed))
    BY <1>3, Zenon DEF Wire!DeliveredAsSent, executed, n
  <2> QED
    BY <1>2, <2>1
<1> QED
  BY <1>1, <1>4 DEF DeliveredAsSent

\* What will be executed when every byte on its way has arrived is what has been sent on the
\* connection, whatever the pieces, the breaks and what was left of a broken packet.
THEOREM WireInductive == Wire!Spec => []WireInv
<1>1. Wire!Init => WireInv
  BY WireInit
<1>2. WireInv /\ [Wire!Next]_(Wire!vars) => WireInv'
  BY WireStep
<1> QED
  BY <1>1, <1>2, PTL DEF Wire!Spec

\* Messages are executed as they were sent, each once and in order.
THEOREM WireDelivers == Wire!Spec => []DeliveredAsSent
<1>1. WireInv => DeliveredAsSent
  BY WireArrived
<1> QED
  BY <1>1, WireInductive, PTL
=============================================================================
