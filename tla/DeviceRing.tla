----------------------------- MODULE DeviceRing -----------------------------
(***************************************************************************)
(* The samples between JACK and a sound device: DeviceOutputInstance and   *)
(* DeviceInputInstance.  Two audio threads with clocks of their own, one   *)
(* of JACK and one of PortAudio, meet in ring buffers, one per channel.    *)
(* The producer resamples a block of each channel in turn and writes it,   *)
(* or drops all of it when it does not fit; the consumer reads a block of  *)
(* each channel in turn, or plays silence when there is not enough.  The   *)
(* main thread adjusts the resampling filters while they run, one after    *)
(* the other, and counts overflows and underflows.                         *)
(*                                                                         *)
(* Rings hold frames, of which only the number matters.  jack_ringbuffer   *)
(* is external: a write and the look at the space before it are one step,  *)
(* for the other thread can only make more space meanwhile, and likewise   *)
(* for a read.                                                             *)
(***************************************************************************)
EXTENDS ResamplingFilter, FiniteSetsExt

CONSTANTS
    NumChannel,
    Size,              \* frames of a ring
    ProducerFrames,    \* the block sizes of the producer, before resampling
    ConsumerFrames,    \* the block sizes of the consumer
    Ratio,             \* downsampling ratios: rates of the device, clock drifts
    MaxDrifts          \* bound: changes of oscClockDrift

DeviceRingAssumption ==
    /\ {NumChannel, Size, OversamplingRatio} \subseteq Nat \ {0}
    /\ ProducerFrames \cup ConsumerFrames \cup Ratio \subseteq Nat \ {0}
    /\ MaxDrifts \in Nat

Channel == 1..NumChannel

VARIABLES
    stream,     \* PortAudio's stream is open, and the client of JACK active
    fill,       \* fill[c]: frames in ringBuffers[c]
    ratio,      \* ratio[c]: downsamplingRatio of resamplingFilters[c]
    delay,      \* delay[c]: its previousDelay
    producer,   \* the channel whose turn it is in the producer's callback, or 0
    nframes,    \* the producer's block
    consumer,   \* the same for the consumer
    frameCount, \* the consumer's block
    silent,     \* the consumer's local underflowOccured
    main,       \* the main thread: idle, at a filter or between two statements
    drift,      \* the ratio of the latest clock drift
    overflow,   \* overflowOccured
    underflow,  \* underflowOccured
    counted,    \* the ones among oscOverflowCount and oscUnderflowCount that are not zero
    occurred,   \* history: overflows and underflows that occurred
    uneven,     \* history: a block was resampled while the filters were being adjusted
    drifts      \* changes of the clock drift so far

threads == <<producer, nframes, consumer, frameCount, silent>>
vars == <<stream, fill, ratio, delay, threads, main, drift, overflow, underflow, counted, occurred,
          uneven, drifts>>

Idle == [at |-> "idle"]
AtFilter(c) == [at |-> "filter", channel |-> c]
Counted(kind) == [at |-> "counted", kind |-> kind]
CheckUnderflow == [at |-> "underflow"]

TypeOK ==
    /\ {stream, silent, overflow, underflow, uneven} \subseteq BOOLEAN
    /\ fill \in [Channel -> 0..(Size - 1)]
    /\ ratio \in [Channel -> Ratio]
    /\ delay \in [Channel -> Int]
    /\ {producer, consumer} \subseteq 0..NumChannel
    /\ nframes \in ProducerFrames \cup {0} /\ frameCount \in ConsumerFrames \cup {0}
    /\ main \in {Idle, CheckUnderflow, Counted("overflow"), Counted("underflow")}
                \cup {AtFilter(c) : c \in Channel}
    /\ drift \in Ratio
    /\ {counted, occurred} \subseteq SUBSET {"overflow", "underflow"}
    /\ drifts \in 0..MaxDrifts

Init ==
    /\ stream = FALSE
    /\ fill = [c \in Channel |-> 0]
    /\ drift \in Ratio
    /\ ratio = [c \in Channel |-> drift]
    /\ delay = [c \in Channel |-> ResetDelay]
    /\ producer = 0 /\ nframes = 0
    /\ consumer = 0 /\ frameCount = 0 /\ silent = FALSE
    /\ main = Idle
    /\ overflow = FALSE /\ underflow = FALSE
    /\ counted = {} /\ occurred = {}
    /\ uneven = FALSE
    /\ drifts = 0

-----------------------------------------------------------------------------
(* start() and stop(), while neither audio thread is in a callback. *)

\* The rings are new, the filters reset.
Start ==
    /\ ~stream
    /\ main = Idle
    /\ stream' = TRUE
    /\ fill' = [c \in Channel |-> 0]
    /\ ratio' = [c \in Channel |-> drift]
    /\ delay' = [c \in Channel |-> ResetDelay]
    /\ uneven' = FALSE
    /\ UNCHANGED <<threads, main, drift, overflow, underflow, counted, occurred, drifts>>

Stop ==
    /\ stream
    /\ main = Idle
    /\ producer = 0 /\ consumer = 0
    /\ stream' = FALSE
    /\ UNCHANGED <<fill, ratio, delay, threads, main, drift, overflow, underflow, counted, occurred,
                   uneven, drifts>>

-----------------------------------------------------------------------------
(* The audio threads. *)

ProducerEnter(n) ==
    /\ stream
    /\ producer = 0
    /\ producer' = 1
    /\ nframes' = n
    /\ UNCHANGED <<stream, fill, ratio, delay, consumer, frameCount, silent, main, drift, overflow, underflow,
                   counted, occurred, uneven, drifts>>

\* Mutant: the last channel is left out.
NextChannelButLast(c) == IF c + 1 >= NumChannel THEN 0 ELSE c + 1

NextChannel(c) == IF c = NumChannel THEN 0 ELSE c + 1

\* Mutant: a block that fits a part of the ring is written.
FitsAnywhere(c, n) == n < Size

\* jack_ringbuffer_write_space() is one byte short of the ring.
Fits(c, n) == fill[c] + n < Size

\* A block is written whole or not at all.
Produce ==
    /\ producer # 0
    /\ LET c == producer
           r == ProcessSamples(delay[c], ratio[c], nframes)
       IN  /\ delay' = [delay EXCEPT ![c] = r.delay]
           /\ IF Fits(c, r.outputs)
              THEN fill' = [fill EXCEPT ![c] = @ + r.outputs] /\ UNCHANGED <<overflow, occurred>>
              ELSE /\ overflow' = TRUE
                   /\ occurred' = occurred \cup {"overflow"}
                   /\ UNCHANGED fill
    /\ producer' = NextChannel(producer)
    /\ uneven' = (uneven \/ Cardinality({ratio[c] : c \in Channel}) > 1)
    /\ UNCHANGED <<stream, ratio, nframes, consumer, frameCount, silent, main, drift, underflow, counted,
                   drifts>>

ConsumerEnter(n) ==
    /\ stream
    /\ consumer = 0
    /\ consumer' = 1
    /\ frameCount' = n
    /\ silent' = FALSE
    /\ UNCHANGED <<stream, fill, ratio, delay, producer, nframes, main, drift, overflow, underflow,
                   counted, occurred, uneven, drifts>>

\* A block is read whole or not at all.
Consume ==
    /\ consumer # 0
    /\ LET enough == fill[consumer] >= frameCount
       IN  /\ fill' = IF enough THEN [fill EXCEPT ![consumer] = @ - frameCount] ELSE fill
           /\ silent' = (silent \/ ~enough)
    /\ consumer' = NextChannel(consumer)
    /\ IF consumer' = 0 /\ silent'
       THEN underflow' = TRUE /\ occurred' = occurred \cup {"underflow"}
       ELSE UNCHANGED <<underflow, occurred>>
    /\ UNCHANGED <<stream, ratio, delay, producer, nframes, frameCount, main, drift, overflow, counted,
                   uneven, drifts>>

-----------------------------------------------------------------------------
(* The main thread. *)

\* oscClockDrift changes: its callback adjusts the filters one after the other.
ClockDrift(r) ==
    /\ drifts < MaxDrifts
    /\ drifts' = drifts + 1
    /\ main = Idle
    /\ drift' = r
    /\ main' = AtFilter(1)
    /\ UNCHANGED <<stream, fill, ratio, delay, threads, overflow, underflow, counted, occurred, uneven>>

SetClockDrift ==
    /\ main.at = "filter"
    /\ ratio' = [ratio EXCEPT ![main.channel] = drift]
    /\ main' = IF main.channel = NumChannel THEN Idle ELSE AtFilter(main.channel + 1)
    /\ uneven' = (uneven \/ producer # 0)
    /\ UNCHANGED <<stream, fill, delay, threads, drift, overflow, underflow, counted, occurred, drifts>>

\* onSlowTimer(): a flag that is up is counted and then taken down.
SlowTimer ==
    /\ main = Idle
    /\ IF overflow
       THEN counted' = counted \cup {"overflow"} /\ main' = Counted("overflow")
       ELSE main' = CheckUnderflow /\ UNCHANGED counted
    /\ UNCHANGED <<stream, fill, ratio, delay, threads, drift, overflow, underflow, occurred, uneven,
                   drifts>>

\* Mutant: one flag too many is taken down.
ClearOverflowBoth ==
    /\ main = Counted("overflow")
    /\ overflow' = FALSE
    /\ underflow' = FALSE
    /\ main' = CheckUnderflow
    /\ UNCHANGED <<stream, fill, ratio, delay, threads, drift, counted, occurred, uneven, drifts>>

ClearOverflow ==
    /\ main = Counted("overflow")
    /\ overflow' = FALSE
    /\ main' = CheckUnderflow
    /\ UNCHANGED <<stream, fill, ratio, delay, threads, drift, underflow, counted, occurred, uneven,
                   drifts>>

SlowTimerUnderflow ==
    /\ main = CheckUnderflow
    /\ IF underflow
       THEN counted' = counted \cup {"underflow"} /\ main' = Counted("underflow")
       ELSE main' = Idle /\ UNCHANGED counted
    /\ UNCHANGED <<stream, fill, ratio, delay, threads, drift, overflow, underflow, occurred, uneven,
                   drifts>>

ClearUnderflow ==
    /\ main = Counted("underflow")
    /\ underflow' = FALSE
    /\ main' = Idle
    /\ UNCHANGED <<stream, fill, ratio, delay, threads, drift, overflow, counted, occurred, uneven,
                   drifts>>

-----------------------------------------------------------------------------
ProducerNext == Produce \/ \E n \in ProducerFrames : ProducerEnter(n)
ConsumerNext == Consume \/ \E n \in ConsumerFrames : ConsumerEnter(n)
MainNext ==
    \/ Start \/ Stop
    \/ SetClockDrift \/ \E r \in Ratio : ClockDrift(r)
    \/ SlowTimer \/ ClearOverflow \/ SlowTimerUnderflow \/ ClearUnderflow

Next == ProducerNext \/ ConsumerNext \/ MainNext

Spec == Init /\ [][Next]_vars

-----------------------------------------------------------------------------
\* The largest block that either thread moves.
MaxBlock ==
    Max(ConsumerFrames \cup
        {ProcessSamples(ResetDelay, r, n).outputs : r \in Ratio, n \in ProducerFrames})

Between == stream /\ producer = 0 /\ consumer = 0

\* The channels of a device stay together: those that find their ring full or
\* empty while others do not, because the other thread is halfway through its
\* channels, are less than two blocks apart, however often that happens; unless
\* the filters were adjusted in the middle of a block.
SkewBounded ==
    Between /\ ~uneven => \A c, d \in Channel : fill[c] - fill[d] < 2 * MaxBlock

\* The filter makes one output for each step of the ratio, blocks of any sizes
\* following one another, and never interpolates beyond the latest frame: the
\* error that getLinearInterpolatedPoint() logs does not occur.
ResampleExact ==
    \A c \in Channel, n \in ProducerFrames :
        LET p == ProcessSamples(delay[c], ratio[c], n)
            latest == delay[c] + (n - 1) * OversamplingRatio
        IN  /\ p.outputs = IF latest < 0 THEN 0 ELSE latest \div ratio[c] + 1
            /\ delay[c] < OversamplingRatio

\* An overflow or underflow is counted at least once: the flags two threads write
\* without a lock never lose the first one.
XrunsNoticed ==
    occurred \subseteq counted \cup (IF overflow THEN {"overflow"} ELSE {})
                               \cup (IF underflow THEN {"underflow"} ELSE {})
=============================================================================
