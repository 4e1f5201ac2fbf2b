------------------------------ MODULE MCDevices ------------------------------
(***************************************************************************)
(* Three kinds of endpoints of a strip in one instance for TLC: each       *)
(* behaviour is one of a WASAPI device, of a remote input or of a remote   *)
(* output, which `part' names; the variables of the other two keep their   *)
(* initial values.  Floats are the multiples of 3: the ratios 3 and 9 are  *)
(* floats; 2 and 4 are 3 as floats, 5 and 7 are 6.                         *)
(***************************************************************************)
EXTENDS WasapiInstance, RemoteInstances

VARIABLE part

\* A drift of -2 takes the ratio 2 under one step, which is refused.
MCOutputDrift == {0, 1, -2}

\* The values of the constants are such as the proofs (DeviceProofs) take.
ASSUME WasapiAssumed == WasapiAssumption /\ RatiosClose
ASSUME InputAssumed == Input!RemoteInputAssumption
ASSUME OutputAssumed == Output!RemoteOutputAssumption

allVars == <<part, vars, inputVars, outputVars>>

DevicesInit ==
    /\ part \in {"wasapi", "input", "output"}
    /\ Init /\ Input!Init /\ Output!Init
    /\ part # "wasapi" => direction = "output" /\ deviceRate = MixRate
    /\ part # "input" => inputDeviceRate = 2
    /\ part # "output" => outputRate = 2

InWasapi == part = "wasapi" /\ UNCHANGED <<part, inputVars, outputVars>>
InInput == part = "input" /\ UNCHANGED <<part, vars, outputVars>>
InOutput == part = "output" /\ UNCHANGED <<part, vars, inputVars>>

DevicesNext ==
    \/ InWasapi /\ Next
    \/ InInput /\ Input!Next
    \/ InOutput /\ Output!Next

(* The fairness of WasapiInstance or the one of RemoteInput.                *)
DevicesFairness ==
    /\ WF_allVars(\/ InWasapi /\ SetClockDrift
                  \/ InInput /\ Input!AudioThread)
    /\ WF_allVars(\/ InWasapi /\ main = 0 /\ SlowTimer
                  \/ InInput /\ Input!AdjustFilter)
    /\ SF_allVars(InInput /\ Input!SlowTimer)

DevicesSpec == DevicesInit /\ [][DevicesNext]_allVars /\ DevicesFairness
=============================================================================
