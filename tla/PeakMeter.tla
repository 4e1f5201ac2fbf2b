------------------------------ MODULE PeakMeter ------------------------------
(***************************************************************************)
(* The peak meters of a strip (damc_audio_processing/PeakMeter.cpp).  The  *)
(* audio thread keeps the loudest peak of each channel and counts the      *)
(* samples; the fast timer takes both under a mutex, computes afterwards   *)
(* the levels, which fall with the time that was played, and sends them.   *)
(*                                                                         *)
(* A level is a number of steps above silence: the decibels less -192.  It *)
(* falls by one step with each unit of samples.                            *)
(***************************************************************************)
EXTENDS Integers

CONSTANTS
    MaxChannel,
    Peak,       \* peaks of a block of samples; 0 is silence
    Block,      \* units of samples in a block
    MaxSamples  \* bound: samples between two ticks

\* What the constants are: what JACK gives, as the peaks of a block of samples.
PeakMeterAssumption ==
    /\ MaxChannel \in Nat
    /\ Peak \subseteq Nat /\ Block \subseteq Nat \ {0}
    /\ MaxSamples \in Nat \ {0}

VARIABLES
    channels,   \* oscNumChannel
    sampleRateKnown, \* oscSampleRate was set
    active,     \* the strip's client in JACK is active
    samples,    \* samplesInPeaks
    peaks,      \* peaksPerChannel
    taken,      \* what onFastTimer took: its locals, until the levels are sent
    levels,     \* levelsDb
    ideal       \* history: the levels if they fell sample by sample

meterVars == <<channels, sampleRateKnown, active, samples, peaks, taken, levels, ideal>>

Channel == 1..channels
Larger(a, b) == IF a > b THEN a ELSE b
Fallen(level, n) == Larger(0, level - n)
Nothing == [samples |-> -1]

MeterTypeOK ==
    /\ channels \in 1..MaxChannel
    /\ sampleRateKnown \in BOOLEAN /\ active \in BOOLEAN
    /\ samples \in 0..MaxSamples
    /\ peaks \in [Channel -> Nat] /\ levels \in [Channel -> Nat] /\ ideal \in [Channel -> Nat]
    /\ taken = Nothing \/ taken \in [samples : 0..MaxSamples, peaks : [Channel -> Nat]]

MeterInit ==
    /\ channels \in 1..MaxChannel
    /\ sampleRateKnown = FALSE /\ active = FALSE /\ samples = 0 /\ taken = Nothing
    /\ peaks = [c \in Channel |-> 0]
    /\ levels = [c \in Channel |-> 0] /\ ideal = [c \in Channel |-> 0]

\* std::vector::resize(): the channels there are keep their values.
Resized(f, n) == [c \in 1..n |-> IF c \in DOMAIN f THEN f[c] ELSE 0]

(* oscNumChannel changes, which it may while there is no client.            *)
ChangeChannels(n) ==
    /\ ~active /\ taken = Nothing
    /\ channels' = n
    /\ peaks' = Resized(peaks, n) /\ levels' = Resized(levels, n) /\ ideal' = Resized(ideal, n)
    /\ UNCHANGED <<sampleRateKnown, active, samples, taken>>

(* ChannelStrip::start sets the sample rate before it activates the client. *)
StartMeter ==
    /\ ~active /\ taken = Nothing
    /\ active' = TRUE /\ sampleRateKnown' = TRUE
    /\ UNCHANGED <<channels, samples, peaks, taken, levels, ideal>>

StopMeter ==
    /\ active /\ taken = Nothing
    /\ active' = FALSE
    /\ UNCHANGED <<channels, sampleRateKnown, samples, peaks, taken, levels, ideal>>

(* The audio thread: each channel's peak in a block of n samples.           *)
ProcessPeaks(peak, n) ==
    /\ active /\ samples + n <= MaxSamples
    /\ samples' = samples + n
    /\ peaks' = [c \in Channel |-> Larger(peak[c], peaks[c])]
    /\ ideal' = [c \in Channel |-> Larger(peak[c], Fallen(ideal[c], n))]
    /\ UNCHANGED <<channels, sampleRateKnown, active, taken, levels>>

(* Mutant: the samples are counted on.                                      *)
TakeKeepingSamples ==
    /\ active /\ taken = Nothing
    /\ taken' = [samples |-> samples, peaks |-> peaks]
    /\ peaks' = [c \in Channel |-> 0]
    /\ UNCHANGED <<channels, sampleRateKnown, active, samples, levels, ideal>>

(* onFastTimer, while the mutex is locked: the peaks are swapped with new   *)
(* ones.  The timer does nothing for a strip without a client.              *)
Take ==
    /\ active /\ taken = Nothing
    /\ taken' = [samples |-> samples, peaks |-> peaks]
    /\ samples' = 0 /\ peaks' = [c \in Channel |-> 0]
    /\ UNCHANGED <<channels, sampleRateKnown, active, levels, ideal>>

(* onFastTimer, after the mutex is unlocked; the levels are sent to the     *)
(* clients.                                                                 *)
Send ==
    /\ taken # Nothing
    /\ taken' = Nothing
    /\ levels' = IF sampleRateKnown
                 THEN [c \in Channel |-> Larger(taken.peaks[c], Fallen(levels[c], taken.samples))]
                 ELSE levels
    /\ UNCHANGED <<channels, sampleRateKnown, active, samples, peaks, ideal>>

MeterNext ==
    \/ \E n \in 1..MaxChannel : ChangeChannels(n)
    \/ StartMeter \/ StopMeter
    \/ \E n \in Block, peak \in [Channel -> Peak] : ProcessPeaks(peak, n)
    \/ Take \/ Send

MeterSpec == MeterInit /\ [][MeterNext]_meterVars

-----------------------------------------------------------------------------
(* No peak is lost and no sample is counted twice, whatever the audio       *)
(* thread plays between the two halves of a tick: the levels sent, with the *)
(* peaks and samples not yet sent, are at least the levels that fall sample *)
(* by sample; and they are above them by no more than the fall of the       *)
(* blocks that a tick took together (processSamples against onFastTimer).   *)
LevelsFollowPeaks ==
    LET pending == samples + (IF taken = Nothing THEN 0 ELSE taken.samples)
        loudest(c) == Larger(peaks[c], IF taken = Nothing THEN 0 ELSE taken.peaks[c])
    IN  \A c \in Channel :
          /\ Larger(levels[c] - pending, loudest(c)) >= ideal[c]
          /\ levels[c] - pending < ideal[c] + MaxSamples

-----------------------------------------------------------------------------
(* The strengthening: a peak that was taken has fallen since by the samples *)
(* played meanwhile, and a peak is above the level that falls sample by     *)
(* sample by less than the samples with which it is counted.                *)
NotLost ==
    \A c \in Channel :
        ideal[c] <= Larger(peaks[c],
            IF taken = Nothing THEN Fallen(levels[c], samples)
            ELSE Fallen(Larger(taken.peaks[c], Fallen(levels[c], taken.samples)), samples))

NotAbove ==
    \A c \in Channel :
        /\ peaks[c] > 0 => peaks[c] < ideal[c] + samples
        /\ taken # Nothing /\ taken.peaks[c] > 0 => taken.peaks[c] < ideal[c] + taken.samples + samples
        /\ levels[c] - samples - (IF taken = Nothing THEN 0 ELSE taken.samples) < ideal[c] + MaxSamples

RateKnown == active \/ taken # Nothing => sampleRateKnown

MeterInv == MeterTypeOK /\ NotLost /\ NotAbove /\ RateKnown
=============================================================================
