--------------------------- MODULE WasapiInstance ---------------------------
(***************************************************************************)
(* WasapiInstance: a strip's samples go to, or come from, a Windows sound  *)
(* device, all in JACK's audio thread.  A block is resampled channel by    *)
(* channel into one buffer per channel and, for an output, what the device *)
(* takes is computed from channel 1 and then taken from every channel.     *)
(* start() obtains COM objects one after the other and any of its calls    *)
(* may fail; ChannelStrip ignores the failure and runs its client anyway.  *)
(* Meanwhile the main thread adjusts the filters one after the other and   *)
(* its timer reports whether the device runs.                              *)
(*                                                                         *)
(* COM is external.  Buffers hold frames of which only the number matters; *)
(* a sample rate is named by the ratio it makes with JACK's.               *)
(***************************************************************************)
EXTENDS ResamplingFilter, Sequences

CONSTANTS
    MaxChannel,
    Frames,     \* the block sizes of JACK, and those of the device's packets
    BufferSize, \* wasapiBufferSize
    MaxSize,    \* bound: no block comes while a channel has more frames
    Rate,       \* the sample rates of devices
    MixRate,    \* the one of the mixer of Windows, which shared mode imposes
    Drift,      \* what oscClockDrift adds to the ratio
    MaxDrifts   \* bound: changes of oscClockDrift

\* What downsamplingRatio may be.
Ratios == {q \in {r + d : r \in Rate, d \in Drift \cup {0}} : q >= 1}

WasapiAssumption ==
    /\ {MaxChannel, BufferSize, MaxDrifts} \subseteq Nat
    /\ {OversamplingRatio, FloatStep} \subseteq Nat \ {0}
    /\ Frames \subseteq Nat /\ Drift \subseteq Int
    /\ Rate \subseteq Nat \ {0} /\ MixRate \in Rate
    /\ \A q \in Ratios : AsFloat(q) >= 1

\* No two ratios are further apart than a block, and the rounding of one moves the
\* length of a block's output by one frame at most.
RatiosClose ==
    \A n \in Frames \ {0}, q \in Ratios :
        LET f == AsFloat(q)
        IN  /\ \A r \in Ratios : f - AsFloat(r) <= n * OversamplingRatio
            /\ n * OversamplingRatio * (f - q) <= q * f
            /\ n * OversamplingRatio * (q - f) <= q * f

VARIABLES
    direction,    \* "output" or "input"
    exclusive,    \* oscExclusiveMode
    deviceRate,   \* oscDeviceSampleRate
    active,       \* the strip has a client in JACK
    held,         \* the COM objects held: pDevice, pAudioClient, the service
    streamRate,   \* the rate of the stream that was initialised
    size,         \* size[c]: frames in resampledBuffer[c]
    ratio,        \* ratio[c]: downsamplingRatio of resamplingFilters[c]
    delay,        \* delay[c]: its previousDelay
    callback,     \* where postProcessSamples() is, in the audio thread
    padding,      \* frames that the device has not played yet
    state,        \* of the device: "stopped", "playing" or, once unplugged, "invalidated"
    main,         \* the filter that the main thread adjusts next, or 0
    drift, drifts,
    xruns,        \* which of overflowOccured and underflowOccured are up
    isPaRunning, oscIsRunning,
    adjusted,     \* history: the filters adjusted since they last ran
    uneven,       \* history: the channels were not treated alike
    overread      \* history: since the start, more was taken from a channel than it had

settings == <<direction, exclusive, deviceRate>>
stream == <<active, held, streamRate>>
filters == <<size, ratio, delay>>
report == <<xruns, isPaRunning, oscIsRunning>>
clock == <<main, drift, drifts>>
device == <<padding, state>>
history == <<adjusted, uneven, overread>>
vars == <<settings, stream, filters, callback, device, clock, report, history>>

Objects == {"device", "client", "service"}
Idle == [channel |-> 0, nframes |-> 0, fed |-> 0, required |-> 0]
Channel == DOMAIN size

TypeOK ==
    /\ direction \in {"output", "input"}
    /\ {exclusive, active, isPaRunning, oscIsRunning, uneven, overread} \subseteq BOOLEAN
    /\ {deviceRate, streamRate} \subseteq Rate
    /\ held \subseteq Objects
    /\ Len(ratio) = Len(size) /\ Len(delay) = Len(size) /\ Len(size) \in 0..MaxChannel
    /\ \A c \in Channel : size[c] \in Nat /\ ratio[c] \in Nat \ {0} /\ delay[c] < OversamplingRatio
    /\ callback.channel \in 0..(MaxChannel + 1)
    /\ padding \in 0..BufferSize /\ state \in {"stopped", "playing", "invalidated"}
    /\ main \in 0..MaxChannel
    /\ drift \in Drift \cup {0} /\ drifts \in 0..MaxDrifts
    /\ xruns \subseteq {"overflow", "underflow"}
    /\ adjusted \subseteq 1..MaxChannel

Init ==
    /\ direction \in {"output", "input"}
    /\ exclusive = TRUE
    /\ deviceRate \in Rate
    /\ active = FALSE
    /\ held = {} /\ streamRate = deviceRate
    /\ size = <<>> /\ ratio = <<>> /\ delay = <<>>
    /\ callback = Idle
    /\ padding = 0 /\ state = "stopped"
    /\ main = 0 /\ drift = 0 /\ drifts = 0
    /\ xruns = {} /\ isPaRunning = FALSE /\ oscIsRunning = FALSE
    /\ adjusted = {} /\ uneven = FALSE /\ overread = FALSE

-----------------------------------------------------------------------------
(* Settings, start() and stop(), in the main thread. *)

\* The check callbacks: nothing changes while pDevice is not null.
Checked(old, new, objects) == IF "device" \in objects THEN old ELSE new

SetDeviceRate(r) ==
    /\ deviceRate' = Checked(deviceRate, r, held)
    /\ UNCHANGED <<direction, exclusive, stream, filters, callback, device, clock, report,
                   history>>

SetExclusiveMode(b) ==
    /\ exclusive' = Checked(exclusive, b, held)
    /\ UNCHANGED <<direction, deviceRate, stream, filters, callback, device, clock, report,
                   history>>

\* The rate that findAudioConfig() leaves in oscDeviceSampleRate, pDevice being obtained.
ConfiguredRate == IF exclusive THEN deviceRate ELSE Checked(deviceRate, MixRate, {"device", "client"})

\* initializeWasapi() fails after having obtained some of the objects, before any
\* buffer or filter is touched, and releases them.
StartFails(obtained) ==
    /\ ~active
    /\ active' = TRUE
    /\ held' = {}
    /\ deviceRate' = IF "client" \in obtained THEN ConfiguredRate ELSE deviceRate
    /\ UNCHANGED <<direction, exclusive, streamRate, filters, callback, device, clock, report,
                   history>>

\* Mutant: only the first filter is reset.
ResetFirstDelay(numChannel) ==
    [c \in 1..numChannel |-> IF c \in 2..Len(delay) THEN delay[c] ELSE ResetDelay]

\* reset() of each filter.
ResetDelays(numChannel) == [c \in 1..numChannel |-> ResetDelay]

\* The buffers are resized, not emptied; the filters are reset.  The last call,
\* pAudioClient->Start(), may fail too: everything is kept, nothing plays, and the
\* settings cannot be changed before stop().
Start(numChannel, plays) ==
    /\ ~active
    /\ active' = TRUE
    /\ held' = Objects
    /\ deviceRate' = ConfiguredRate
    /\ streamRate' = IF exclusive THEN deviceRate ELSE MixRate
    /\ size' = [c \in 1..numChannel |-> IF c <= Len(size) THEN size[c] ELSE 0]
    /\ ratio' = [c \in 1..numChannel |-> ClockDriftRatio(deviceRate', deviceRate' + drift)]
    /\ delay' = ResetDelays(numChannel)
    /\ padding' = 0
    /\ state' = IF plays THEN "playing" ELSE "stopped"
    /\ adjusted' = {}
    /\ uneven' = \E c, d \in 1..numChannel : size'[c] # size'[d]
    /\ overread' = FALSE
    /\ UNCHANGED <<direction, exclusive, callback, clock, report>>

\* stop(), after JACK's client was closed.
Stop ==
    /\ active
    /\ callback = Idle
    /\ active' = FALSE
    /\ held' = {}
    /\ state' = "stopped"
    /\ UNCHANGED <<settings, streamRate, filters, callback, padding, clock, report, history>>

-----------------------------------------------------------------------------
(* postProcessSamples(), in JACK's audio thread. *)

\* After an over-read the behaviour of the code is undefined: the model stops there.
Ready ==
    /\ active
    /\ ~overread
    /\ \A c \in Channel : size[c] <= MaxSize
    /\ callback = Idle
    /\ "service" \in held
    /\ state # "invalidated"

\* postProcessSamplesRender(): the block is resampled if the device has room for the
\* output of channel 1 and not too much is left in its buffer.  Else it is lost; what
\* the device gets if there was room is the former content of its buffer.
Render(n) ==
    /\ Ready
    /\ direction = "output"
    /\ LET required == MinRequiredOutputSize(n, ratio[1]) + size[1]
           room == BufferSize - padding >= required
           tooMuchLeft == size[1] > 3 * MaxRequiredOutputSize(required, ratio[1])
       IN  \/ /\ room /\ ~tooMuchLeft
              /\ callback' = [channel |-> 1, nframes |-> n, fed |-> n, required |-> required]
              /\ UNCHANGED <<xruns, padding, isPaRunning>>
           \/ /\ room /\ tooMuchLeft
              /\ xruns' = xruns \cup {"overflow"}
              /\ padding' = padding + required /\ isPaRunning' = TRUE
              /\ UNCHANGED callback
           \/ /\ ~room
              /\ xruns' = xruns \cup {"overflow"}
              /\ UNCHANGED <<callback, padding, isPaRunning>>
    /\ UNCHANGED <<settings, stream, filters, state, clock, oscIsRunning, history>>

\* postProcessSamplesCapture(): one packet of the device, if there is one.
Capture(n, packet, discontinuity) ==
    /\ Ready
    /\ direction = "input"
    /\ packet > 0 => state = "playing"
    /\ callback' = [channel |-> 1, nframes |-> n, fed |-> packet, required |-> n]
    /\ xruns' = xruns \cup (IF discontinuity THEN {"overflow"} ELSE {})
    /\ UNCHANGED <<settings, stream, filters, device, clock, isPaRunning, oscIsRunning, history>>

\* The loop of copySamplesRender() and copySamplesCapture() over the channels, each
\* resampled at its ratio as a float.
Filter ==
    /\ callback.channel \in Channel
    /\ LET c == callback.channel
           p == ProcessSamples(delay[c], AsFloat(ratio[c]), callback.fed)
       IN  /\ size' = [size EXCEPT ![c] = @ + p.outputs]
           /\ delay' = [delay EXCEPT ![c] = p.delay]
           /\ adjusted' = IF callback.fed > 0 THEN adjusted \ {c} ELSE adjusted
    /\ callback' = [callback EXCEPT !.channel = @ + 1]
    /\ uneven' = (uneven \/ \E c, d \in Channel : ratio[c] # ratio[d])
    /\ UNCHANGED <<settings, stream, ratio, device, clock, report, overread>>

\* The end of copySamplesRender(): only channel 1 tells an underflow, and what the
\* device gets then is the former content of its buffer.
Play ==
    /\ direction = "output"
    /\ callback.channel > Len(size)
    /\ LET required == callback.required
       IN  /\ IF required > size[1]
              THEN xruns' = xruns \cup {"underflow"} /\ UNCHANGED <<size, overread>>
              ELSE /\ size' = [c \in Channel |-> IF required > size[c] THEN 0 ELSE size[c] - required]
                   /\ overread' = (overread \/ \E c \in Channel : required > size[c])
                   /\ UNCHANGED xruns
           /\ IF state = "invalidated"
              THEN UNCHANGED <<padding, isPaRunning>>
              ELSE padding' = padding + required /\ isPaRunning' = TRUE
    /\ callback' = Idle
    /\ UNCHANGED <<settings, stream, ratio, delay, state, clock, oscIsRunning, adjusted, uneven>>

\* The end of copySamplesCapture(): each channel gets its frames or silence.
Deliver ==
    /\ direction = "input"
    /\ callback.channel > Len(size)
    /\ LET enough == {c \in Channel : size[c] >= callback.required}
       IN  /\ size' = [c \in Channel |-> IF c \in enough THEN size[c] - callback.required ELSE size[c]]
           /\ xruns' = xruns \cup (IF enough = Channel THEN {} ELSE {"underflow"})
    /\ isPaRunning' = (isPaRunning \/ (callback.fed > 0 /\ state # "invalidated"))
    /\ callback' = Idle
    /\ UNCHANGED <<settings, stream, ratio, delay, device, clock, oscIsRunning, history>>

-----------------------------------------------------------------------------
(* The device. *)

DevicePlays(n) ==
    /\ state = "playing" /\ direction = "output"
    /\ padding > 0
    /\ padding' = IF n < padding THEN padding - n ELSE 0
    /\ UNCHANGED <<settings, stream, filters, callback, state, clock, report, history>>

DeviceLost ==
    /\ state = "playing"
    /\ state' = "invalidated"
    /\ UNCHANGED <<settings, stream, filters, callback, padding, clock, report, history>>

-----------------------------------------------------------------------------
(* The main thread, while the audio thread runs. *)

ClockDrift(d) ==
    /\ drifts < MaxDrifts
    /\ drift' = d
    /\ drifts' = drifts + 1
    /\ main' = IF size = <<>> THEN 0 ELSE 1
    /\ UNCHANGED <<settings, stream, filters, callback, device, report, history>>

SetClockDrift ==
    /\ main # 0
    /\ ratio' = [ratio EXCEPT ![main] = ClockDriftRatio(@, deviceRate + drift)]
    /\ adjusted' = adjusted \cup {main}
    /\ uneven' = (uneven \/ callback # Idle)
    /\ main' = IF main = Len(size) THEN 0 ELSE main + 1
    /\ UNCHANGED <<settings, stream, size, delay, callback, device, drift, drifts, report, overread>>

\* Mutant: the audio thread's flag stays up.
SlowTimerKeepsFlag ==
    /\ active
    /\ xruns' = {}
    /\ oscIsRunning' = isPaRunning
    /\ UNCHANGED <<settings, stream, filters, callback, device, clock, isPaRunning, history>>

\* onSlowTimer(); each flag is taken down after it was looked at.
SlowTimer ==
    /\ active
    /\ xruns' = {}
    /\ oscIsRunning' = isPaRunning
    /\ isPaRunning' = FALSE
    /\ UNCHANGED <<settings, stream, filters, callback, device, clock, history>>

-----------------------------------------------------------------------------
AudioThread ==
    \/ \E n \in Frames : Render(n)
    \/ \E n \in Frames, p \in Frames \cup {0}, b \in BOOLEAN : Capture(n, p, b)
    \/ Filter \/ Play \/ Deliver

MainThread ==
    \/ SetClockDrift
    \/ /\ main = 0
       /\ \/ \E r \in Rate : SetDeviceRate(r)
          \/ \E b \in BOOLEAN : SetExclusiveMode(b)
          \/ \E objects \in {{}, {"device"}, {"device", "client"}, Objects} : StartFails(objects)
          \/ \E n \in 1..MaxChannel, plays \in BOOLEAN : Start(n, plays)
          \/ Stop \/ SlowTimer
          \/ \E d \in Drift : ClockDrift(d)

Device == DeviceLost \/ \E n \in Frames : DevicePlays(n)

Next == AudioThread \/ MainThread \/ Device

\* A loop over the filters ends and libuv's timer comes back; nothing is asked of the
\* audio thread, which JACK may not call.
Fairness ==
    /\ WF_vars(SetClockDrift)
    /\ WF_vars(main = 0 /\ SlowTimer)

Spec == Init /\ [][Next]_vars /\ Fairness

-----------------------------------------------------------------------------
\* The channels of a strip keep the same number of frames whatever the blocks, the
\* overflows and the underflows, so that what channel 1 has is there in every
\* channel, though only channel 1 is asked; unless the filters were adjusted
\* in the middle of a block or a channel was added to one with frames left over.
ChannelsTogether ==
    ~uneven => /\ callback = Idle => \A c, d \in Channel : size[c] = size[d]
               /\ ~overread

\* A filter that was not adjusted since its latest block gives the frames for which
\* the device was asked to have room, or up to two more; or one less, but only if the
\* float at which it resamples is more than the ratio from which the room is computed.
RenderExact ==
    /\ TypeOK
    /\ \A c \in Channel \ adjusted, n \in Frames :
         LET f == AsFloat(ratio[c])
             more == ProcessSamples(delay[c], f, n).outputs - MinRequiredOutputSize(n, ratio[c])
         IN  /\ more \in (-1)..2
             /\ f >= ratio[c] => more <= 1
             /\ f <= ratio[c] => more >= 0

\* A device that is unplugged is reported as not running, as long as the strip has
\* its client.
LossReported == (active /\ state = "invalidated") ~> (~oscIsRunning \/ ~active)

\* README: "the sample rate of the external portaudio / WASAPI device".
RateOfDevice == held = Objects => deviceRate = streamRate
=============================================================================
