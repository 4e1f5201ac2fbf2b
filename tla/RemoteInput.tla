----------------------------- MODULE RemoteInput -----------------------------
(***************************************************************************)
(* A strip of type RemoteInput plays what comes over UDP: RemoteUdpInput   *)
(* and RemoteInputInstance.  The main thread puts the frames of packets,   *)
(* left and right interleaved, into one ring; the audio thread takes all   *)
(* of them, follows the rate that VBAN headers name, resamples left and    *)
(* right into one buffer each and plays from both what the left one has.   *)
(* The main thread adjusts the filters meanwhile.                          *)
(*                                                                         *)
(* Any packet may arrive at any time: some were lost, doubled or           *)
(* overtaken on the way, and nobody looks at their numbers.  A header      *)
(* whose format_SR is none of the 21 rates of the list is left out: the    *)
(* code reads beyond the list there.  So is a start before libuv has       *)
(* closed the handle of the latest stop, which is the same one.            *)
(* libuv and jack_ringbuffer are external.  A rate is named by the ratio   *)
(* it makes with JACK's.  The strip has two channels or more.              *)
(***************************************************************************)
EXTENDS ResamplingFilter, FiniteSetsExt

CONSTANTS
    Frames,     \* the block sizes of JACK, and the frames of packets
    RingSize,   \* of sampleRing, in samples
    Rate,       \* the sample rates, all of them in the VBAN list
    Drift,      \* what oscClockDrift adds to the ratio
    MaxSize,    \* bound: frames in the buffers when a packet arrives
    MaxChanges  \* bound: changes of settings

RemoteInputAssumption ==
    /\ {OversamplingRatio, RingSize} \subseteq Nat \ {0} /\ MaxChanges \in Nat
    /\ Frames \subseteq Nat
    /\ Rate \subseteq Nat \ {0} /\ Drift \subseteq Int /\ 0 \in Drift
    /\ FloatStep \in Nat \ {0}
    /\ \A r \in Rate, d \in Drift : r + d >= 1 /\ AsFloat(r + d) >= 1

VARIABLES
    socket,       \* "closed", "bound", or "failed" to bind
    ring,         \* samples in sampleRing
    inputRate,    \* the rate of the latest packet, 0 without a header
    vbanFormat,   \* oscAddVbanHeader
    vbanRate,     \* vbanSampleRate
    deviceRate,   \* oscDeviceSampleRate
    drift,        \* oscClockDrift
    filter,       \* source rate, ratio and delay of the two filters
    size,         \* frames in inBuffers
    callback,     \* where the audio thread is
    main,         \* what the main thread does to the filters
    uneven,       \* history: the two filters differed during a block
    overread,     \* history: more was erased from the right buffer than it had
    changes

settings == <<vbanFormat, deviceRate, drift>>
vars == <<settings, socket, ring, inputRate, vbanRate, filter, size, callback, main, uneven, overread,
          changes>>

Side == 1..2
Idle == [at |-> "idle", channel |-> 0, nframes |-> 0, rate |-> 0, fed |-> 0]
AtRest == [filter |-> 0, set |-> "none"]

TypeOK ==
    /\ socket \in {"closed", "bound", "failed"}
    /\ ring \in 0..(RingSize - 1)
    /\ {inputRate, vbanRate} \subseteq Rate \cup {0}
    /\ {vbanFormat, uneven, overread} \subseteq BOOLEAN
    /\ deviceRate \in Rate /\ drift \in Drift
    /\ filter \in [Side -> [source : Rate \cup {0}, ratio : Nat, delay : Int]]
    /\ size \in [Side -> Nat]
    /\ callback \in [at : {"idle", "heard", "follow", "take", "filter", "endless", "erase"},
                     channel : 0..2, nframes : Frames \cup {0}, rate : Rate \cup {0}, fed : Nat]
    /\ main \in [filter : 0..2, set : {"none", "drift", "rate"}]
    /\ changes \in 0..MaxChanges

\* setSourceSamplingRate() and setClockDrift(), each a single step; a ratio of 0 is
\* kept, for no drift makes it 1 or more.
Adjusted(f, rate, d) ==
    [f EXCEPT !.source = rate, !.ratio = IF rate = 0 THEN 0 ELSE rate + d]

Reset(rate, d) == [source |-> rate, ratio |-> rate + d, delay |-> ResetDelay]

Init ==
    /\ socket = "closed" /\ ring = 0 /\ inputRate = 0
    /\ vbanFormat = TRUE /\ vbanRate = 0
    /\ deviceRate \in Rate /\ drift = 0
    /\ filter = [i \in Side |-> Reset(deviceRate, 0)]
    /\ size = [i \in Side |-> 0]
    /\ callback = Idle /\ main = AtRest
    /\ uneven = FALSE /\ overread = FALSE
    /\ changes = 0

Change == changes < MaxChanges /\ changes' = changes + 1

-----------------------------------------------------------------------------
(* The main thread. *)

\* Mutant: the room in the ring is counted in samples.
FramesThatFitSplit(frames) == Min({frames, RingSize - 1 - ring})

\* jack_ringbuffer_write_space() / sampleSize: whole frames.
FramesThatFit(frames) == Min({frames, (RingSize - 1 - ring) \div 2})

\* onPacketReceived(): what does not fit is dropped.
Receive(frames, rate) ==
    /\ socket = "bound" /\ main = AtRest
    /\ size[1] + size[2] <= 2 * MaxSize
    /\ ring' = Min({ring + 2 * FramesThatFit(frames), RingSize - 1})
    /\ inputRate' = rate
    /\ UNCHANGED <<settings, socket, vbanRate, filter, size, callback, main, uneven, overread, changes>>

\* start(): a new ring, filters reset, the buffers as they were.  The strip's client
\* runs even if the socket is not bound.
Start(bound) ==
    /\ socket = "closed" /\ main = AtRest
    /\ socket' = IF bound THEN "bound" ELSE "failed"
    /\ ring' = 0 /\ inputRate' = 0 /\ vbanRate' = 0
    /\ filter' = [i \in Side |-> Reset(deviceRate, drift)]
    /\ uneven' = (size[1] # size[2]) /\ overread' = FALSE
    /\ UNCHANGED <<settings, size, callback, main, changes>>

\* stop(), JACK's client being closed and, before the next start, libuv's handle too.
Stop ==
    /\ Change
    /\ socket # "closed" /\ main = AtRest /\ callback = Idle
    /\ socket' = "closed"
    /\ UNCHANGED <<settings, ring, inputRate, vbanRate, filter, size, callback, main,
                   uneven, overread>>

ClockDrift(d) ==
    /\ Change
    /\ main = AtRest /\ d # drift
    /\ drift' = d
    /\ main' = [filter |-> 1, set |-> "drift"]
    /\ UNCHANGED <<vbanFormat, deviceRate, socket, ring, inputRate, vbanRate, filter,
                   size, callback, uneven, overread>>

ChangeDeviceRate(r) ==
    /\ main = AtRest /\ r # deviceRate
    /\ deviceRate' = r
    /\ main' = [filter |-> 1, set |-> "rate"]
    /\ UNCHANGED <<vbanFormat, drift, socket, ring, inputRate, vbanRate, filter,
                   size, callback, uneven, overread>>

\* onSlowTimer() takes the rate of the headers over.
Follow == vbanFormat /\ vbanRate # 0

SlowTimer == socket # "closed" /\ Follow /\ ChangeDeviceRate(vbanRate) /\ UNCHANGED changes

SetDeviceRate(r) == Change /\ ChangeDeviceRate(r)

\* The callbacks' loops: setClockDrift() keeps the source rate of a filter,
\* setSourceSamplingRate() forgets its drift.
AdjustFilter ==
    /\ main # AtRest
    /\ LET i == main.filter
       IN  filter' = [filter EXCEPT ![i] = IF main.set = "rate" THEN Adjusted(@, deviceRate, 0)
                                           ELSE Adjusted(@, @.source, drift)]
    /\ main' = IF main.filter = 1 THEN [main EXCEPT !.filter = 2] ELSE AtRest
    /\ uneven' = (uneven \/ callback.at = "filter")
    /\ UNCHANGED <<settings, socket, ring, inputRate, vbanRate, size, callback, overread,
                   changes>>

SetVbanFormat(b) ==
    /\ Change
    /\ main = AtRest /\ b # vbanFormat
    /\ vbanFormat' = b
    /\ vbanRate' = IF b THEN vbanRate ELSE 0
    /\ UNCHANGED <<deviceRate, drift, socket, ring, inputRate, filter, size, callback, main,
                   uneven, overread>>

-----------------------------------------------------------------------------
(* The audio thread: postProcessSamples(). *)

\* Mutant: a header's rate is taken once.
NewRateOnce == vbanFormat /\ inputRate # 0 /\ vbanRate = 0

NewRate == vbanFormat /\ inputRate \notin {0, vbanRate}

Play(n) ==
    /\ socket # "closed" /\ callback = Idle /\ ~overread
    /\ callback' = IF NewRate
                   THEN [Idle EXCEPT !.at = "heard", !.nframes = n, !.rate = inputRate]
                   ELSE [Idle EXCEPT !.at = "take", !.nframes = n]
    /\ UNCHANGED <<settings, socket, ring, inputRate, vbanRate, filter, size, main, uneven, overread, changes>>

TakeRate ==
    /\ callback.at = "heard"
    /\ vbanRate' = callback.rate
    /\ callback' = [callback EXCEPT !.at = "follow", !.channel = 1]
    /\ UNCHANGED <<settings, socket, ring, inputRate, filter, size, main, uneven, overread, changes>>

\* One filter after the other follows vbanSampleRate, which the main thread may have
\* set to 0 meanwhile.
FollowRate ==
    /\ callback.at = "follow"
    /\ filter' = [filter EXCEPT ![callback.channel] = Adjusted(@, vbanRate, drift)]
    /\ callback' = IF callback.channel = 1 THEN [callback EXCEPT !.channel = 2]
                   ELSE [callback EXCEPT !.at = "take", !.channel = 0]
    /\ UNCHANGED <<settings, socket, ring, inputRate, vbanRate, size, main, uneven, overread, changes>>

\* receivePacket(): all whole frames are taken from the ring.
Take ==
    /\ callback.at = "take"
    /\ callback' = [callback EXCEPT !.at = "filter", !.channel = 1, !.fed = ring \div 2]
    /\ ring' = ring - 2 * (ring \div 2)
    /\ UNCHANGED <<settings, socket, inputRate, vbanRate, filter, size, main, uneven, overread, changes>>

\* Mutant: the left filter resamples both sides.
ResampledByLeft(i) == ProcessSamples(filter[1].delay, AsFloat(filter[1].ratio), callback.fed)

\* The ratio is read anew for each frame; a change in the middle counts as uneven.
Resampled(i) == ProcessSamples(filter[i].delay, AsFloat(filter[i].ratio), callback.fed)

\* Where the ratio is 0, get() never leaves its loop.
Endless(f) == f.ratio = 0 /\ callback.fed > 0 /\ f.delay + (callback.fed - 1) * OversamplingRatio >= 0

NeverEnds ==
    /\ callback.at = "filter" /\ Endless(filter[callback.channel])
    /\ callback' = [callback EXCEPT !.at = "endless"]
    /\ UNCHANGED <<settings, socket, ring, inputRate, vbanRate, filter, size, main, uneven, overread, changes>>

Filter ==
    /\ callback.at = "filter" /\ ~Endless(filter[callback.channel])
    /\ LET i == callback.channel
           p == Resampled(i)
       IN  /\ size' = [size EXCEPT ![i] = @ + p.outputs]
           /\ filter' = [filter EXCEPT ![i].delay = p.delay]
    /\ callback' = IF callback.channel = 1 THEN [callback EXCEPT !.channel = 2]
                   ELSE [callback EXCEPT !.at = "erase"]
    /\ uneven' = (uneven \/ filter[1].ratio # filter[2].ratio)
    /\ UNCHANGED <<settings, socket, ring, inputRate, vbanRate, main, overread, changes>>

\* As many frames are erased from both buffers as the left one has.
Erase ==
    /\ callback.at = "erase"
    /\ LET played == Min({callback.nframes, size[1]})
       IN  /\ size' = [i \in Side |-> IF size[i] < played THEN 0 ELSE size[i] - played]
           /\ overread' = (overread \/ size[2] < played)
    /\ callback' = Idle
    /\ UNCHANGED <<settings, socket, ring, inputRate, vbanRate, filter, main, uneven,
                   changes>>

-----------------------------------------------------------------------------
MainThread ==
    \/ \E n \in Frames, r \in Rate \cup {0} : Receive(n, r)
    \/ \E bound \in BOOLEAN : Start(bound)
    \/ Stop
    \/ \E d \in Drift : ClockDrift(d)
    \/ \E r \in Rate : SetDeviceRate(r)
    \/ \E b \in BOOLEAN : SetVbanFormat(b)
    \/ SlowTimer \/ AdjustFilter

AudioThread == TakeRate \/ FollowRate \/ Take \/ NeverEnds \/ Filter \/ Erase \/ \E n \in Frames : Play(n)

Next == MainThread \/ AudioThread

\* JACK calls its clients as long as they run, loops end and timers come back.
Fairness ==
    /\ WF_vars(AudioThread)
    /\ WF_vars(AdjustFilter)
    /\ SF_vars(SlowTimer)

Spec == Init /\ [][Next]_vars /\ Fairness

-----------------------------------------------------------------------------
\* The ring of interleaved samples never holds half a frame, whatever its room, so
\* that left and right are never swapped.
WholeFrames == ring % 2 = 0

\* Left and right stay together through lost, doubled and late packets, changes of
\* rate and restarts, so that erasing from the right one what the left one has is
\* sound; unless the filters differed during a block.
SidesTogether == ~uneven => (callback = Idle => size[1] = size[2]) /\ ~overread

\* If the headers keep naming one rate, the filters and the setting that is shown end
\* up at that rate, whatever rates were set or received before and whichever of
\* the two threads wrote last to each filter; unless the audio thread hangs, as it does
\* with the rate 0 that vbanFormat, switched off, leaves it.
EventuallyFollows ==
    \A r \in Rate :
        <>[](vbanFormat /\ inputRate = r /\ socket = "bound" /\ ~overread /\ callback.at # "endless")
            => <>[](deviceRate = r /\ \A i \in Side : filter[i].source = r)
=============================================================================
