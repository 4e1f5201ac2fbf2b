----------------------------- MODULE DeviceStream -----------------------------
(***************************************************************************)
(* The stream of a sound device behind its rings (DeviceRing):             *)
(* DeviceInputInstance finds the device by its name, opens it at the rate  *)
(* of the settings and measures its clock: JACK's thread averages the      *)
(* latency of a period of callbacks, two averages make a drift, and the    *)
(* fast timer reports it.  DeviceOutputInstance is the same, but for the   *)
(* thread that measures.                                                   *)
(*                                                                         *)
(* A name is a sequence of letters, for the code opens the device whose    *)
(* name resembles most the one it looks for.  PortAudio and its list of    *)
(* devices, which it makes once, are external.                             *)
(***************************************************************************)
EXTENDS Integers, Sequences, FiniteSetsExt

CONSTANTS
    Name,       \* names that users give
    Lists,      \* lists of devices
    Rate,
    Period,     \* bufferLatencyMeasurePeriodSize
    MaxGaps     \* bound: starts and underflows

VARIABLES
    devices,    \* the names of PortAudio's devices
    default,    \* the index of the default input device, 0 for none
    name, rate, \* oscDeviceName, oscDeviceSampleRate
    client,     \* the strip has a client in JACK
    stream,     \* the device opened and its rate
    source,     \* the rate of the resampling filters' source
    history,    \* bufferLatencyHistory: of each latency, the gaps before it
    previous,   \* previousAverageLatency: the gaps before it, 0 for none
    drift,      \* clockDriftPpm: the gaps before the two averages
    clearing,   \* onFastTimer has reported the drift and not cleared it
    isPaRunning, oscIsRunning,
    opened,     \* history: the gaps when the stream was opened
    gaps        \* history: starts and underflows so far

settings == <<devices, default, name, rate>>
latency == <<history, previous, drift>>
streamVars == <<settings, client, stream, source, latency, clearing, isPaRunning, oscIsRunning,
                opened, gaps>>

DefaultIn == <<"default_in">>
Closed == [name |-> <<>>, rate |-> 0]
None == <<>>

\* What the constants are: names are sequences of letters, and no device is called as the
\* settings call the default device.
DeviceAssumption(Letter) ==
    /\ Name \subseteq Seq(Letter)
    /\ \A list \in Lists :
         list \in Seq(Seq(Letter)) /\ \A i \in DOMAIN list : list[i] # DefaultIn

TypeOK ==
    /\ devices \in Lists /\ default \in 0..Len(devices)
    /\ name \in Name /\ {rate, source} \subseteq Rate
    /\ {client, clearing, isPaRunning, oscIsRunning} \subseteq BOOLEAN
    /\ Len(history) < Period
    /\ {previous, opened, gaps} \subseteq 0..MaxGaps

Init ==
    /\ devices \in Lists
    /\ default \in 0..Len(devices)
    /\ name = DefaultIn /\ rate \in Rate
    /\ client = FALSE /\ stream = Closed /\ source = rate
    /\ history = <<>> /\ previous = 0 /\ drift = None /\ clearing = FALSE
    /\ isPaRunning = FALSE /\ oscIsRunning = FALSE
    /\ opened = 0 /\ gaps = 0

\* Mutant: no more for names that end together.
SimilarityOfPrefix(a, b) == Cardinality({i \in DOMAIN a \cap DOMAIN b : a[i] = b[i]})

(* getSimilarity(): the equal letters, and one more for an equal length.     *)
Similarity(a, b) ==
    Cardinality({i \in DOMAIN a \cap DOMAIN b : a[i] = b[i]}) + (IF Len(a) = Len(b) THEN 1 ELSE 0)

(* getDeviceIndex(): the first device with the most similar name, which has  *)
(* to share a letter or its length with it; 0 for none.                      *)
DeviceIndex ==
    LET similarity == [i \in DOMAIN devices |-> Similarity(devices[i], name)]
        best == {i \in DOMAIN devices : \A j \in DOMAIN devices : similarity[i] >= similarity[j]}
    IN  IF name = DefaultIn THEN default
        ELSE IF best = {} \/ \E i \in best : similarity[i] = 0 THEN 0
        ELSE Min(best)

(* The check callbacks of the settings refuse any change while there is a    *)
(* stream; the filters follow a change of the rate.                          *)
SetName(n) ==
    /\ ~clearing
    /\ name' = IF stream = Closed THEN n ELSE name
    /\ UNCHANGED <<devices, default, rate, client, stream, source, latency, clearing, isPaRunning,
                   oscIsRunning, opened, gaps>>

SetRate(r) ==
    /\ ~clearing
    /\ IF stream = Closed THEN rate' = r /\ source' = r ELSE UNCHANGED <<rate, source>>
    /\ UNCHANGED <<devices, default, name, client, stream, latency, clearing, isPaRunning,
                   oscIsRunning, opened, gaps>>

(* ChannelStrip::start() and start(): the strip runs without a stream when   *)
(* no device is found or it does not open.                                   *)
Start(opens) ==
    /\ ~clearing /\ ~client /\ gaps < MaxGaps
    /\ client' = TRUE
    /\ source' = IF DeviceIndex = 0 THEN source ELSE rate
    /\ IF DeviceIndex # 0 /\ opens
       THEN /\ stream' = [name |-> devices[DeviceIndex], rate |-> rate]
            /\ gaps' = gaps + 1 /\ opened' = gaps + 1
            /\ history' = <<>> /\ previous' = 0 /\ drift' = None
            /\ isPaRunning' = FALSE
       ELSE UNCHANGED <<stream, gaps, opened, latency, isPaRunning>>
    /\ UNCHANGED <<settings, clearing, oscIsRunning>>

Stop ==
    /\ ~clearing /\ client
    /\ client' = FALSE /\ stream' = Closed
    /\ UNCHANGED <<settings, source, latency, clearing, isPaRunning, oscIsRunning, opened, gaps>>

(* renderCallback(), in PortAudio's thread.                                  *)
RenderCallback ==
    /\ stream # Closed
    /\ isPaRunning' = TRUE
    /\ UNCHANGED <<settings, client, stream, source, latency, clearing, oscIsRunning, opened, gaps>>

(* postProcessSamples() finds a ring empty: the measure starts anew.         *)
Underflow ==
    /\ client /\ stream # Closed /\ gaps < MaxGaps
    /\ gaps' = gaps + 1
    /\ history' = <<>>
    /\ UNCHANGED <<settings, client, stream, source, previous, drift, clearing, isPaRunning,
                   oscIsRunning, opened>>

(* postProcessSamples() takes the latency of a block; the last one of a      *)
(* period makes an average, of which two make a drift, which may be zero.    *)
MeasureLatency ==
    /\ client /\ stream # Closed
    /\ IF Len(history) + 1 < Period
       THEN history' = Append(history, gaps) /\ UNCHANGED <<previous, drift>>
       ELSE /\ history' = <<>>
            /\ previous' = gaps
            /\ drift' \in IF previous = 0 THEN {drift} ELSE {<<previous, gaps>>, None}
    /\ UNCHANGED <<settings, client, stream, source, clearing, isPaRunning, oscIsRunning, opened, gaps>>

(* onFastTimer() reports a drift, then clears it.                            *)
FastTimer ==
    /\ client /\ ~clearing /\ drift # None
    /\ clearing' = TRUE
    /\ UNCHANGED <<settings, client, stream, source, latency, isPaRunning, oscIsRunning, opened, gaps>>

ClearDrift ==
    /\ clearing
    /\ clearing' = FALSE
    /\ drift' = None
    /\ UNCHANGED <<settings, client, stream, source, history, previous, isPaRunning, oscIsRunning,
                   opened, gaps>>

(* onSlowTimer(): whether PortAudio has called since the last time.          *)
SlowTimer ==
    /\ client /\ ~clearing
    /\ oscIsRunning' = isPaRunning
    /\ isPaRunning' = FALSE
    /\ UNCHANGED <<settings, client, stream, source, latency, clearing, opened, gaps>>

Next ==
    \/ \E n \in Name : SetName(n)
    \/ \E r \in Rate : SetRate(r)
    \/ \E opens \in BOOLEAN : Start(opens)
    \/ Stop
    \/ RenderCallback \/ Underflow \/ MeasureLatency
    \/ FastTimer \/ ClearDrift \/ SlowTimer

Spec == Init /\ [][Next]_streamVars

-----------------------------------------------------------------------------
(* What plays is what the settings say: a device that has the name of the    *)
(* settings is not passed over for another one, and the stream and the       *)
(* filters run at the rate of the settings, which no client can change       *)
(* meanwhile (getDeviceIndex, the check callbacks).                          *)
AsConfigured ==
    stream # Closed =>
        /\ \A i \in DOMAIN devices : devices[i] = name => stream.name = name
        /\ stream.rate = rate /\ source = rate

(* No average mixes latencies from before and after an underflow, and no     *)
(* drift compares averages of two streams (renderCallback, start).           *)
AveragesWhole ==
    /\ \A i \in DOMAIN history : stream # Closed => history[i] = gaps
    /\ stream # Closed /\ drift # None => drift[1] >= opened

(* Both hold for what plays.                                                 *)
StreamAsConfigured == AsConfigured /\ AveragesWhole

-----------------------------------------------------------------------------
(* The strengthening: the latencies kept are those since the latest gap, and *)
(* the averages kept are those of the stream that was opened last.           *)
LatenciesWhole ==
    /\ {opened, gaps, previous} \subseteq Nat /\ opened <= gaps
    /\ history \in Seq(Nat) /\ \A i \in DOMAIN history : history[i] = gaps
    /\ previous # 0 => previous >= opened
    /\ drift # None => drift[1] >= opened

IInv ==
    /\ devices \in Lists
    /\ name \in Name \cup {DefaultIn}
    /\ AsConfigured
    /\ LatenciesWhole
=============================================================================
