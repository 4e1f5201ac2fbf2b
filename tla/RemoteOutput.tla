---------------------------- MODULE RemoteOutput ----------------------------
(***************************************************************************)
(* A strip of type RemoteOutput sends its samples over UDP: RemoteOutput-  *)
(* Instance and RemoteUdpOutput.  The audio thread resamples left, then    *)
(* right, cuts what the left filter gave into packets and sends them one   *)
(* after the other, each under the rate that the header names just then.   *)
(* The main thread changes the rate of one filter, then of the other, then *)
(* of the header, or the drift of one filter, then of the other, at any    *)
(* point of a block.                                                       *)
(*                                                                         *)
(* A rate is named by the number of steps between two outputs.  How many   *)
(* channels are mixed into left and right is left out, and so are packets  *)
(* without a header, which are cut alike but larger.                       *)
(***************************************************************************)
EXTENDS ResamplingFilter, FiniteSetsExt

CONSTANTS
    Frames,    \* the block sizes of JACK
    MaxPacket, \* frames of a packet: 256 in the code
    Rate,      \* the sample rates
    VbanRate,  \* those in the VBAN list
    Drift      \* what oscClockDrift adds to the ratio

RemoteOutputAssumption ==
    /\ {OversamplingRatio, MaxPacket} \subseteq Nat \ {0}
    /\ Frames \subseteq Nat /\ Rate \subseteq Nat \ {0}
    /\ Drift \subseteq Int /\ 0 \in Drift

VARIABLES
    socket,     \* "closed", "open", or "failed": started without a socket
    filter,     \* target rate, ratio and delay of the two filters
    deviceRate, \* oscDeviceSampleRate
    drift,      \* oscClockDrift
    header,     \* format_SR
    main,       \* what the main thread changes: a filter, or the header as number 3
    block,      \* where the audio thread is in its block, or the latest block
    packet,     \* the latest packet of the block: its frames and the header's rate
    uneven      \* history: the two filters differed during a block

vars == <<socket, filter, deviceRate, drift, header, main, block, packet, uneven>>

Side == 1..2
AtRest == [at |-> 0, set |-> "none"]
Sending == 3
NoBlock == [at |-> 0, nframes |-> 0, frames |-> <<0, 0>>, done |-> 0,
            target |-> 0, changed |-> FALSE, failed |-> FALSE]
NoPacket == [frames |-> 0, rate |-> 0]

TypeOK ==
    /\ socket \in {"closed", "open", "failed"}
    /\ filter \in [Side -> [target : Rate, ratio : Nat \ {0}, delay : Int]]
    /\ deviceRate \in Rate /\ header \in VbanRate \cup {0} /\ drift \in Drift
    /\ main \in [at : 0..3, set : {"none", "drift", "rate"}]
    /\ block \in [at : 0..Sending, nframes : Nat, frames : [Side -> Nat], done : Nat,
                  target : Rate \cup {0}, changed : BOOLEAN, failed : BOOLEAN]
    /\ packet \in [frames : Nat, rate : VbanRate \cup {0}]
    /\ uneven \in BOOLEAN

\* reset(), setTargetSamplingRate() and setClockDrift().
Reset(rate, d) == [target |-> rate, ratio |-> ClockDriftRatio(rate, rate + d), delay |-> ResetDelay]

Init ==
    /\ socket = "closed"
    /\ deviceRate \in Rate /\ drift = 0
    /\ filter = [i \in Side |-> Reset(deviceRate, 0)]
    /\ header = 0
    /\ main = AtRest /\ block = NoBlock /\ packet = NoPacket /\ uneven = FALSE

\* setSampleRate(): a rate that is not in the list leaves the header as it was.
SampleRateIndex(rate, former) == IF rate \in VbanRate THEN rate ELSE former

-----------------------------------------------------------------------------
(* The main thread. *)

\* start() and init(): the strip's client runs even if there is no socket.
Start(opens) ==
    /\ socket = "closed" /\ main = AtRest
    /\ filter' = [i \in Side |-> Reset(deviceRate, drift)]
    /\ IF opens
       THEN socket' = "open" /\ header' = SampleRateIndex(deviceRate, header)
       ELSE socket' = "failed" /\ UNCHANGED header
    /\ block' = NoBlock /\ packet' = NoPacket /\ uneven' = FALSE
    /\ UNCHANGED <<deviceRate, drift, main>>

\* stop(), JACK's client being closed.
Stop ==
    /\ socket # "closed" /\ main = AtRest /\ block.at = 0
    /\ socket' = "closed"
    /\ UNCHANGED <<filter, deviceRate, drift, header, main, block, packet, uneven>>

ClockDrift(d) ==
    /\ main = AtRest /\ d # drift
    /\ drift' = d
    /\ main' = [at |-> 1, set |-> "drift"]
    /\ UNCHANGED <<socket, filter, deviceRate, header, block, packet, uneven>>

SetDeviceRate(r) ==
    /\ main = AtRest /\ r # deviceRate
    /\ deviceRate' = r
    /\ main' = [at |-> 1, set |-> "rate"]
    /\ block' = [block EXCEPT !.changed = @ \/ block.at # 0]
    /\ UNCHANGED <<socket, filter, drift, header, packet, uneven>>

\* The callbacks' loops: setTargetSamplingRate() forgets the drift of a filter.
AdjustFilter ==
    /\ main.at \in Side
    /\ LET i == main.at
           target == IF main.set = "rate" THEN deviceRate ELSE filter[i].target
           ratio == IF main.set = "rate" THEN target
                    ELSE ClockDriftRatio(filter[i].ratio, target + drift)
       IN  filter' = [filter EXCEPT ![i].target = target, ![i].ratio = ratio]
    /\ main' = IF main = [at |-> 2, set |-> "drift"] THEN AtRest ELSE [main EXCEPT !.at = @ + 1]
    /\ uneven' = (uneven \/ block.at \in Side)
    /\ UNCHANGED <<socket, deviceRate, drift, header, block, packet>>

\* Mutant: the header keeps the rate of the start.
KeepHeader ==
    /\ main.at = 3
    /\ main' = AtRest
    /\ UNCHANGED <<socket, filter, deviceRate, drift, header, block, packet, uneven>>

\* remoteUdpOutput.setSampleRate().
SetHeader ==
    /\ main.at = 3
    /\ header' = SampleRateIndex(deviceRate, header)
    /\ main' = AtRest
    /\ UNCHANGED <<socket, filter, deviceRate, drift, block, packet, uneven>>

-----------------------------------------------------------------------------
(* The audio thread: postProcessSamples(). *)

Begin(n) ==
    /\ socket # "closed" /\ block.at = 0
    /\ block' = [NoBlock EXCEPT !.at = 1, !.nframes = n, !.changed = (main.set = "rate")]
    /\ packet' = NoPacket
    /\ UNCHANGED <<socket, filter, deviceRate, drift, header, main, uneven>>

\* The ratio is read anew for each frame; a change in the middle counts as uneven.
Resample ==
    /\ block.at \in Side
    /\ LET i == block.at
           p == ProcessSamples(filter[i].delay, filter[i].ratio, block.nframes)
       IN  /\ filter' = [filter EXCEPT ![i].delay = p.delay]
           /\ block' = [block EXCEPT !.at = i + 1, !.frames[i] = p.outputs,
                                     !.target = IF i = 1 THEN filter[1].target ELSE @]
    /\ uneven' = (uneven \/ filter[1].ratio # filter[2].ratio)
    /\ UNCHANGED <<socket, deviceRate, drift, header, main, packet>>

Left == block.frames[1] - block.done

\* The loop of sendAudio(): full packets and a last one.  Whether a packet arrives, or
\* is dropped for a full buffer, nobody looks at.
SendPacket ==
    /\ block.at = Sending /\ socket = "open" /\ Left > 0
    /\ packet' = [frames |-> Min({MaxPacket, Left}), rate |-> header]
    /\ block' = [block EXCEPT !.done = @ + packet'.frames]
    /\ UNCHANGED <<socket, filter, deviceRate, drift, header, main, uneven>>

\* The end of the loop, or an error of the socket, which ends it early.
End(failed) ==
    /\ block.at = Sending
    /\ IF Left = 0 THEN ~failed ELSE failed \/ socket = "failed"
    /\ block' = [block EXCEPT !.at = 0, !.failed = (Left > 0)]
    /\ UNCHANGED <<socket, filter, deviceRate, drift, header, main, packet, uneven>>

-----------------------------------------------------------------------------
MainThread ==
    \/ \E opens \in BOOLEAN : Start(opens)
    \/ Stop
    \/ \E d \in Drift : ClockDrift(d)
    \/ \E r \in Rate : SetDeviceRate(r)
    \/ AdjustFilter \/ SetHeader

AudioThread ==
    \/ \E n \in Frames : Begin(n)
    \/ Resample \/ SendPacket
    \/ \E failed \in BOOLEAN : End(failed)

Next == MainThread \/ AudioThread

Spec == Init /\ [][Next]_vars

-----------------------------------------------------------------------------
\* Each packet's number of frames fits the 8 bits of format_nbs, which holds one
\* less, and the packets hold no more than the block; all of it unless the socket failed.
PacketsHoldBlock ==
    /\ packet.frames <= MaxPacket
    /\ block.done <= block.frames[1]
    /\ block.at = 0 /\ ~block.failed => block.done = block.frames[1]

\* A block has as many frames on the right as on the left, whatever the drifts and
\* the rates that came before, unless the filters differed during a block; and its
\* packets are sent under the rate that it was resampled to, unless that rate was being
\* changed, or is none of the VBAN list, whose packets keep the former rate's name.
SentAtItsRate ==
    /\ ~uneven /\ block.at \in {0, Sending} => block.frames[1] = block.frames[2]
    /\ packet # NoPacket /\ ~block.changed /\ block.target \in VbanRate =>
           packet.rate = block.target
=============================================================================
