------------------------- MODULE SampleRateMeasure -------------------------
(***************************************************************************)
(* Measure of the real sample rate of an audio device.  The audio thread   *)
(* adds the frames it processes to a TimingInfo, the main thread takes the *)
(* sum every second and divides it by the time it covers.  The audio       *)
(* thread must not wait: the TimingInfo is handed over by exchanging a     *)
(* pointer with null, and who finds null does without.  A callback that    *)
(* finds null leaves its frames out of the sum.                            *)
(*                                                                         *)
(* Time is counted in frames of an ideal device: a callback brings the     *)
(* frames of the time since the previous one, and reads the clock when     *)
(* these have just passed.                                                 *)
(***************************************************************************)
EXTENDS Integers

CONSTANTS
    Frames,  \* the numbers of frames that a callback may bring
    MaxTime  \* bound: the clock

ASSUME FramesAssumption == Frames \subseteq Nat \ {0}
ASSUME MaxTimeAssumption == MaxTime \in Nat

VARIABLES
    data,        \* the TimingInfo
    ptr,         \* runningData holds the pointer to it
    audio,       \* the audio thread: where it is in notifySampleProcessed
    nframes,     \* its argument
    prev,        \* the time of the latest callback
    timer,       \* the main thread: where it is in onTimeoutTimer
    copy,        \* its copy of the TimingInfo
    lost,        \* history: frames left out so far
    lostAtFirst, \* history: and until data.firstSampleTime
    lostAtLast,  \* history: and until data.lastSampleTime
    copyLost     \* history: frames left out of the time that copy covers

vars == <<data, ptr, audio, nframes, prev, timer, copy, lost, lostAtFirst, lostAtLast, copyLost>>

TimingInfo == [firstSampleTime : Nat, lastSampleTime : Nat, sampleNumber : Nat]

NoSample == [firstSampleTime |-> 0, lastSampleTime |-> 0, sampleNumber |-> 0]

TypeOK ==
    /\ data \in TimingInfo
    /\ ptr \in BOOLEAN
    /\ audio \in {"idle", "count", "stamp", "release"}
    /\ nframes \in Nat
    /\ prev \in Nat
    /\ timer \in {"idle", "copy", "reset", "release", "report"}
    /\ copy \in TimingInfo
    /\ lost \in Nat /\ lostAtFirst \in Nat /\ lostAtLast \in Nat
    /\ copyLost \in Int

Init ==
    /\ data = NoSample
    /\ ptr = TRUE
    /\ audio = "idle"
    /\ nframes = 0
    /\ prev = 0
    /\ timer = "idle"
    /\ copy = NoSample
    /\ lost = 0 /\ lostAtFirst = 0 /\ lostAtLast = 0
    /\ copyLost = 0

-----------------------------------------------------------------------------
(* The audio thread: notifySampleProcessed(). *)

\* A callback finds null.
AudioSkip(n) ==
    /\ audio = "idle"
    /\ ~ptr
    /\ prev + n <= MaxTime
    /\ prev' = prev + n
    /\ lost' = lost + n
    /\ UNCHANGED <<data, ptr, audio, nframes, timer, copy, lostAtFirst, lostAtLast, copyLost>>

AudioTake(n) ==
    /\ audio = "idle"
    /\ ptr
    /\ prev + n <= MaxTime
    /\ prev' = prev + n
    /\ nframes' = n
    /\ ptr' = FALSE
    /\ audio' = "count"
    /\ UNCHANGED <<data, timer, copy, lost, lostAtFirst, lostAtLast, copyLost>>

\* Mutant: the first callback counts its frames, which precede the time covered.
AudioCountAlways ==
    /\ audio = "count"
    /\ data' = [data EXCEPT
                  !.firstSampleTime = IF @ = 0 THEN prev ELSE @, !.sampleNumber = @ + nframes]
    /\ lostAtFirst' = IF data.firstSampleTime = 0 THEN lost ELSE lostAtFirst
    /\ audio' = "stamp"
    /\ UNCHANGED <<ptr, nframes, prev, timer, copy, lost, lostAtLast, copyLost>>

AudioCount ==
    /\ audio = "count"
    /\ \/ /\ data.firstSampleTime = 0
          /\ data' = [data EXCEPT !.firstSampleTime = prev]
          /\ lostAtFirst' = lost
       \/ /\ data.firstSampleTime # 0
          /\ data' = [data EXCEPT !.sampleNumber = @ + nframes]
          /\ UNCHANGED lostAtFirst
    /\ audio' = "stamp"
    /\ UNCHANGED <<ptr, nframes, prev, timer, copy, lost, lostAtLast, copyLost>>

AudioStamp ==
    /\ audio = "stamp"
    /\ data' = [data EXCEPT !.lastSampleTime = prev]
    /\ lostAtLast' = lost
    /\ audio' = "release"
    /\ UNCHANGED <<ptr, nframes, prev, timer, copy, lost, lostAtFirst, copyLost>>

AudioRelease ==
    /\ audio = "release"
    /\ ptr' = TRUE
    /\ audio' = "idle"
    /\ UNCHANGED <<data, nframes, prev, timer, copy, lost, lostAtFirst, lostAtLast, copyLost>>

-----------------------------------------------------------------------------
(* The main thread: onTimeoutTimer().  When it finds null it does nothing. *)

\* Mutant: the pointer is read and not exchanged.
TimerPeek ==
    /\ timer = "idle"
    /\ timer' = "copy"
    /\ UNCHANGED <<data, ptr, audio, nframes, prev, copy, lost, lostAtFirst, lostAtLast, copyLost>>

TimerTake ==
    /\ timer = "idle"
    /\ ptr
    /\ ptr' = FALSE
    /\ timer' = "copy"
    /\ UNCHANGED <<data, audio, nframes, prev, copy, lost, lostAtFirst, lostAtLast, copyLost>>

TimerCopy ==
    /\ timer = "copy"
    /\ copy' = data
    /\ copyLost' = lostAtLast - lostAtFirst
    /\ timer' = "reset"
    /\ UNCHANGED <<data, ptr, audio, nframes, prev, lost, lostAtFirst, lostAtLast>>

\* Mutant: the next measure starts one frame early.
TimerResetBack ==
    /\ timer = "reset"
    /\ data' = [NoSample EXCEPT !.firstSampleTime = copy.lastSampleTime - 1]
    /\ lostAtFirst' = lostAtLast
    /\ timer' = "release"
    /\ UNCHANGED <<ptr, audio, nframes, prev, copy, lost, lostAtLast, copyLost>>

TimerReset ==
    /\ timer = "reset"
    /\ data' = [NoSample EXCEPT !.firstSampleTime = copy.lastSampleTime]
    /\ lostAtFirst' = lostAtLast
    /\ timer' = "release"
    /\ UNCHANGED <<ptr, audio, nframes, prev, copy, lost, lostAtLast, copyLost>>

TimerRelease ==
    /\ timer = "release"
    /\ ptr' = TRUE
    /\ timer' = "report"
    /\ UNCHANGED <<data, audio, nframes, prev, copy, lost, lostAtFirst, lostAtLast, copyLost>>

\* The rate is sent: sampleNumber / (lastSampleTime - firstSampleTime), or 0.
TimerReport ==
    /\ timer = "report"
    /\ timer' = "idle"
    /\ UNCHANGED <<data, ptr, audio, nframes, prev, copy, lost, lostAtFirst, lostAtLast, copyLost>>

-----------------------------------------------------------------------------
AudioNext ==
    \/ \E n \in Frames : AudioSkip(n) \/ AudioTake(n)
    \/ AudioCount \/ AudioStamp \/ AudioRelease

TimerNext == TimerTake \/ TimerCopy \/ TimerReset \/ TimerRelease \/ TimerReport

Next == AudioNext \/ TimerNext

Spec == Init /\ [][Next]_vars

-----------------------------------------------------------------------------
AudioHolds == audio # "idle"
TimerHolds == timer \in {"copy", "reset", "release"}

\* The pointer is in exactly one place: the two threads never work on the
\* TimingInfo at the same time, and it never gets lost, which would end the
\* measure for good.
PointerInOnePlace == (AudioHolds => ~TimerHolds) /\ (ptr <=> ~AudioHolds /\ ~TimerHolds)

\* What is reported as processed between two times are exactly the frames of
\* that time, less those of callbacks that found null; and a count that is not
\* zero is never divided by zero.
ReportExact ==
    timer = "report" /\ copy.sampleNumber > 0 =>
        /\ copy.firstSampleTime # 0
        /\ copy.firstSampleTime < copy.lastSampleTime
        /\ copyLost >= 0
        /\ copy.sampleNumber = copy.lastSampleTime - copy.firstSampleTime - copyLost

-----------------------------------------------------------------------------
(* The inductive strengthening of ReportExact. *)

\* data is the outcome of whole callbacks.
Whole ==
    /\ data.firstSampleTime = 0 => data.lastSampleTime = 0
    /\ data.lastSampleTime = 0 => data.sampleNumber = 0
    /\ data.lastSampleTime # 0 =>
        /\ lostAtFirst <= lostAtLast
        /\ data.sampleNumber =
             data.lastSampleTime - data.firstSampleTime - (lostAtLast - lostAtFirst)

\* The time of the latest callback that is in data, or found null.
Before == IF audio = "count" THEN prev - nframes ELSE prev

\* All callbacks since time t, when l frames had been left out, found null.
AllLostSince(t, l) == l <= lost /\ Before - t = lost - l

DataInv ==
    /\ audio # "stamp" =>
        /\ Whole
        /\ data.lastSampleTime # 0 => AllLostSince(data.lastSampleTime, lostAtLast)
        /\ data.lastSampleTime = 0 /\ data.firstSampleTime # 0 =>
             AllLostSince(data.firstSampleTime, lostAtFirst)
    /\ audio = "stamp" =>
        /\ data.firstSampleTime # 0
        /\ lostAtFirst <= lost
        /\ data.sampleNumber = prev - data.firstSampleTime - (lost - lostAtFirst)
    /\ AudioHolds => prev > 0
    /\ audio = "count" => nframes \in Frames

CopyInv ==
    /\ timer = "reset" => copy = data /\ copyLost = lostAtLast - lostAtFirst
    /\ timer \in {"release", "report"} /\ copy.sampleNumber > 0 =>
        /\ copy.firstSampleTime # 0
        /\ copy.firstSampleTime < copy.lastSampleTime
        /\ copyLost >= 0
        /\ copy.sampleNumber = copy.lastSampleTime - copy.firstSampleTime - copyLost

IInv == TypeOK /\ PointerInOnePlace /\ DataInv /\ CopyInv

-----------------------------------------------------------------------------
(* The two functions, step by step, implement the atomic ones. *)

\* A callback counts when AudioCount has passed, a measure is taken by TimerCopy:
\* what the function still has to write is known by then.
Measure ==
    IF audio = "stamp" THEN [data EXCEPT !.lastSampleTime = prev]
    ELSE IF timer = "reset" THEN [NoSample EXCEPT !.firstSampleTime = copy.lastSampleTime]
    ELSE data

Atomic == INSTANCE AtomicMeasure WITH clock <- Before, measure <- Measure, taken <- copy

\* The exchange of the pointer makes the steps of notifySampleProcessed() one, and
\* those of onTimeoutTimer() one, as seen by the other thread.
ImplementsAtomic == Atomic!Spec
=============================================================================
