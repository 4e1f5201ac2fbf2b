--------------------------- MODULE AtomicMeasure ---------------------------
(***************************************************************************)
(* What SampleRateMeasure promises, with no threads and no pointer: a      *)
(* callback of the audio device is added to the measure in one step, or    *)
(* left out of it as a whole, and a measure is taken in one step, which    *)
(* starts the next one where it ends.  Nothing is added to a measure that  *)
(* was taken, and nothing is taken twice.                                  *)
(***************************************************************************)
EXTENDS Integers

CONSTANT Frames  \* the numbers of frames that a callback may bring

VARIABLES
    clock,    \* the time, in frames
    measure,  \* the measure that is going on
    taken     \* the latest one that was taken

NoMeasure == [firstSampleTime |-> 0, lastSampleTime |-> 0, sampleNumber |-> 0]

Init ==
    /\ clock = 0
    /\ measure = NoMeasure
    /\ taken = NoMeasure

\* The frames of the first callback precede the time that is measured.
Add(n) ==
    /\ clock' = clock + n
    /\ measure' = IF measure.firstSampleTime = 0
                  THEN [measure EXCEPT !.firstSampleTime = clock', !.lastSampleTime = clock']
                  ELSE [measure EXCEPT !.lastSampleTime = clock', !.sampleNumber = @ + n]
    /\ UNCHANGED taken

LeaveOut(n) ==
    /\ clock' = clock + n
    /\ UNCHANGED <<measure, taken>>

Take ==
    /\ taken' = measure
    /\ measure' = [NoMeasure EXCEPT !.firstSampleTime = measure.lastSampleTime]
    /\ UNCHANGED clock

Next == Take \/ \E n \in Frames : Add(n) \/ LeaveOut(n)

Spec == Init /\ [][Next]_<<clock, measure, taken>>
=============================================================================
