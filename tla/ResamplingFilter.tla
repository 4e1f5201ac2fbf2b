-------------------------- MODULE ResamplingFilter --------------------------
(***************************************************************************)
(* ResamplingFilter: how many frames come out of it, and when.  previous-  *)
(* Delay is where, before the latest input frame, the next output falls,   *)
(* in steps of an oversampled frame; downsamplingRatio is the number of    *)
(* steps from one output to the next.  What the outputs are is left out,   *)
(* and so is the rounding of the delay, a double.  A ratio is a double     *)
(* too, counted in the smallest steps between two of them; callers that    *)
(* ask for it get it as a float.                                           *)
(***************************************************************************)
EXTENDS Integers

CONSTANTS
    OversamplingRatio, \* 128 in the code
    FloatStep          \* how far two floats next to each other are apart

\* getDownSamplingRatio(): the float next to the ratio (that a tie is rounded to even
\* is left out).
AsFloat(r) == FloatStep * ((r + FloatStep \div 2) \div FloatStep)

\* setClockDrift(): a ratio under one step is refused.
ClockDriftRatio(old, new) == IF new >= 1 THEN new ELSE old

\* previousDelay after reset().
ResetDelay == OversamplingRatio - 1

\* Mutant: the output that falls exactly on a frame is left to the next frame.
GetLate(d, r) ==
    LET n == IF d <= 0 THEN 0 ELSE (d - 1) \div r + 1
    IN  [outputs |-> n, delay |-> d - n * r + OversamplingRatio]

\* get(): the outputs that fall between two input frames.
Get(d, r) ==
    LET n == IF d < 0 THEN 0 ELSE d \div r + 1
    IN  [outputs |-> n, delay |-> d - n * r + OversamplingRatio]

\* processSamples() of n frames.
ProcessSamples(d, r, n) ==
    LET f[k \in 0..n] ==
            IF k = 0 THEN [outputs |-> 0, delay |-> d]
            ELSE LET g == Get(f[k - 1].delay, r)
                 IN  [outputs |-> f[k - 1].outputs + g.outputs, delay |-> g.delay]
    IN  f[n]

\* getMaxRequiredOutputSize().
MaxRequiredOutputSize(n, r) == (n * OversamplingRatio + r - 1) \div r

\* getMinRequiredOutputSize().
MinRequiredOutputSize(n, r) == (n * OversamplingRatio) \div r
=============================================================================
