---------------------------- MODULE DelayControl ----------------------------
(***************************************************************************)
(* The tool delayControl aligns speakers: once per period it lets each     *)
(* strip play a pulse, one after the other, hears them with a microphone,  *)
(* takes the pulses in the order in which they came for those of the       *)
(* strips, and corrects the delay of a strip whose error stayed the same.  *)
(* Delays are messages to DAMC; they queue until the connection is there   *)
(* and one is written at a time.                                           *)
(*                                                                         *)
(* Time is counted in small units, from the moment a period's pulses       *)
(* start; a pulse that comes after the period is found in the next one.    *)
(* The sound, the speakers and DAMC are external.  The correction of small *)
(* errors by the clock drift is arithmetic on reals and left out, but for  *)
(* its message.                                                            *)
(***************************************************************************)
EXTENDS Integers, SequencesExt, FiniteSetsExt

CONSTANTS
    NumOutput,      \* outputInstances; the first one is the base
    Latency,        \* the latencies a speaker may have
    Between,        \* samplesBetweenPulses
    Period,         \* of doDelayMeasureTimer
    DeadTime,       \* a pulse so soon after another one is not heard
    BigError,       \* 96 in the code: larger errors are delays
    Unstable,       \* 15 in the code: errors so different are not the same
    HistorySize,    \* of previousBigDelayError
    MaxDisturbances, \* bound: pulses missed and measures taken too early
    MaxCommands     \* bound: no measure with more messages in the queue

VARIABLES
    latency,    \* latency[i]: of the speaker of output i
    connected,  \* "no", "yes" or "failed"
    commands,   \* queued messages: the output and its delay, or a clock drift
    writing,    \* writeRequestInProgress
    delays,     \* delays[i]: what DAMC has as the delay of output i
    assigned,   \* assignedDelayPerOutputInstance
    configured, \* configuredDelayPerOutputInstance, -1 for none
    bigErrors,  \* bigErrors[i]: the errors stored in previousBigDelayError of generator i
    trigger,    \* triggerPulse
    flight,     \* when the pulses that were played will arrive
    detected,   \* detectedPulses
    disturbances
net == <<connected, commands, writing, delays>>
vars == <<latency, net, assigned, configured, bigErrors, trigger, flight, detected, disturbances>>

Output == 1..NumOutput
Abs(x) == IF x < 0 THEN -x ELSE x
Drift(i) == [output |-> i, delay |-> -1]
Delay(i, d) == [output |-> i, delay |-> d]

\* A finite set of numbers as a sequence, the least first.
Ascending(S) ==
    [k \in 1..Cardinality(S) |-> CHOOSE x \in S : Cardinality({y \in S : y <= x}) = k]

Init ==
    /\ latency \in [Output -> Latency]
    /\ connected = "no" /\ commands = <<>> /\ writing = FALSE
    /\ delays \in {[i \in Output |-> IF i = 2 THEN d ELSE 0] : d \in {0, BigError + 1}}
    /\ assigned = [i \in Output |-> 0]
    /\ configured = [i \in Output |-> -1]
    /\ bigErrors = [i \in Output |-> <<>>]
    /\ trigger = FALSE /\ flight = <<>> /\ detected = <<>>
    /\ disturbances = 0

Disturbance(b) == disturbances' = disturbances + (IF b THEN 1 ELSE 0) /\ disturbances' <= MaxDisturbances

-----------------------------------------------------------------------------
(* ServerControl: the connection. *)

OnConnect(succeeds) ==
    /\ connected = "no"
    /\ connected' = IF succeeds THEN "yes" ELSE "failed"
    /\ writing' = (succeeds /\ commands # <<>>)
    /\ UNCHANGED <<latency, commands, delays, assigned, configured, bigErrors, trigger, flight,
                   detected, disturbances>>

\* The message written reaches DAMC; the next one is written.  A connection that is lost
\* later is left out: nobody looks at the status of a write, so that its message counts
\* as sent, and nothing connects again.
OnWrite ==
    /\ writing
    /\ LET m == Head(commands)
       IN  delays' = IF m.delay >= 0 THEN [delays EXCEPT ![m.output] = m.delay] ELSE delays
    /\ commands' = Tail(commands)
    /\ writing' = (commands' # <<>>)
    /\ UNCHANGED <<latency, connected, assigned, configured, bigErrors, trigger, flight, detected,
                   disturbances>>

\* setRawDelay() of every output: a delay it was not told yet is sent.
RawDelays(delay) ==
    LET untold == Ascending({i \in Output : delay[i] # configured[i]})
    IN  [k \in DOMAIN untold |-> Delay(untold[k], delay[untold[k]])]

\* Mutant: the base is not moved.
UpdatedDelaysButBase(a) ==
    LET least == Min({a[i] : i \in Output})
        base == IF least < 0 THEN -least ELSE 0
    IN  [i \in Output |-> IF i = 1 THEN a[1] ELSE a[i] + base]

\* updateDelays(): no delay may be negative, so that all are moved up by the least one.
UpdatedDelays(a) ==
    LET least == Min({a[i] : i \in Output})
        base == IF least < 0 THEN -least ELSE 0
    IN  [i \in Output |-> a[i] + base]

-----------------------------------------------------------------------------
(* PulseGenerator. *)

\* Mutant: errors that differ do not start the count anew.
DelayErrorKept(errors, e) ==
    IF \E k \in DOMAIN errors : Abs(errors[k] - e) >= Unstable
    THEN [errors |-> errors, correction |-> 0]
    ELSE IF Len(errors) < HistorySize
    THEN [errors |-> Append(errors, e), correction |-> 0]
    ELSE [errors |-> <<>>, correction |-> -e]

\* computeDelayControl(): only an error that was stored often enough is corrected.
DelayError(errors, e) ==
    IF \E k \in DOMAIN errors : Abs(errors[k] - e) >= Unstable
    THEN [errors |-> <<>>, correction |-> 0]
    ELSE IF Len(errors) < HistorySize
    THEN [errors |-> Append(errors, e), correction |-> 0]
    ELSE [errors |-> <<>>, correction |-> -e]

-----------------------------------------------------------------------------
(* The audio thread of JACK and the sound. *)

\* When the pulses of a period are heard, in the order of their arrival.
Arrivals ==
    LET at == Ascending({(i - 1) * Between + latency[i] + delays[i] : i \in Output})
        heard[k \in 0..Len(at)] ==
            IF k = 0 THEN <<>>
            ELSE IF heard[k - 1] # <<>> /\ at[k] <= Last(heard[k - 1]) + DeadTime THEN heard[k - 1]
            ELSE Append(heard[k - 1], at[k])
    IN  heard[Len(at)]

\* processSamples(): the generators start anew when the timer asked for it.
StartNewPulse(missed) ==
    /\ trigger
    /\ trigger' = FALSE
    /\ Disturbance(missed # 0)
    /\ missed <= Len(Arrivals)
    /\ flight' = flight \o (IF missed = 0 THEN Arrivals ELSE RemoveAt(Arrivals, missed))
    /\ UNCHANGED <<latency, net, assigned, configured, bigErrors, detected>>

\* doAGC() hears a pulse.
Detect ==
    /\ flight # <<>>
    /\ detected' = Append(detected, Head(flight))
    /\ flight' = Tail(flight)
    /\ UNCHANGED <<latency, net, assigned, configured, bigErrors, trigger, disturbances>>

-----------------------------------------------------------------------------
\* onDoMeasure(), once per period: early if not all pulses were heard, or if DAMC was
\* not told the latest delays.
DoMeasure ==
    LET e == [i \in Output |-> IF i <= Len(detected) THEN detected[i] - detected[1] - (i - 1) * Between
                               ELSE 0]
        measured == {i \in 2..NumOutput : i <= Len(detected)}
        big == {i \in measured : Abs(e[i]) > BigError}
        control == [i \in big |-> DelayError(bigErrors[i], e[i])]
        delay == UpdatedDelays(assigned')
    IN  /\ Len(commands) <= MaxCommands
        /\ Disturbance(trigger \/ flight # <<>> \/ (connected = "yes" /\ commands # <<>>))
        /\ bigErrors' = [i \in Output |-> CASE i \in big -> control[i].errors
                                            [] i \in measured \ big -> <<>>
                                            [] OTHER -> bigErrors[i]]
        /\ assigned' = [i \in Output |-> IF i \in big THEN assigned[i] + control[i].correction
                                         ELSE assigned[i]]
        /\ configured' = delay
        /\ commands' = commands \o [k \in 1..Cardinality(measured \ big) |->
                                       Drift(Ascending(measured \ big)[k])]
                                \o RawDelays(delay)
        /\ writing' = (writing \/ (connected = "yes" /\ commands' # <<>>))
        /\ trigger' = TRUE
        /\ detected' = <<>>
        /\ flight' = [k \in DOMAIN flight |-> flight[k] - Period]
        /\ UNCHANGED <<latency, connected, delays>>

Next ==
    \/ \E b \in BOOLEAN : OnConnect(b)
    \/ OnWrite
    \/ \E missed \in 0..NumOutput : StartNewPulse(missed)
    \/ Detect
    \/ DoMeasure

Fairness ==
    /\ WF_vars(OnWrite)
    /\ WF_vars(StartNewPulse(0))
    /\ WF_vars(Detect)
    /\ WF_vars(DoMeasure)

Spec == Init /\ [][Next]_vars /\ Fairness

TypeOK ==
    /\ connected \in {"no", "yes", "failed"}
    /\ writing \in BOOLEAN /\ trigger \in BOOLEAN
    /\ delays \in [Output -> Nat]
    /\ \A i \in Output : Len(bigErrors[i]) <= HistorySize
    /\ disturbances \in 0..MaxDisturbances

-----------------------------------------------------------------------------
\* When all messages are written, DAMC has the delays that were assigned, none of them
\* negative, with the base and every other output moved by the same time.
ServerFollows ==
    connected = "yes" /\ commands = <<>> /\ configured[1] # -1
        => \A i \in Output : delays[i] - delays[1] = assigned[i] - assigned[1] /\ delays[i] >= 0

\* Once it is connected the tool aligns the speakers, if their latencies differ by less
\* than the time between pulses, and fewer measures were disturbed than it takes to
\* correct a delay.  As many of the same disturbance in a row would give a correction
\* by a whole interval, after which two pulses come in the wrong order for good and
\* each is taken for the other.
EventuallyAligned ==
    MaxDisturbances <= HistorySize /\ (\A i, j \in Output : Abs(latency[i] - latency[j]) < Between)
        => (connected = "yes" ~>
                [](\A i \in Output : Abs(latency[i] + delays[i] - latency[1] - delays[1]) <= BigError))
=============================================================================
