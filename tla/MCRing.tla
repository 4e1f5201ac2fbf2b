-------------------------------- MODULE MCRing --------------------------------
(***************************************************************************)
(* Sound devices and meters in one instance for TLC: each behaviour is one *)
(* of the rings of a device (DeviceRing), of the stream of a device or of  *)
(* the meters of a strip, which `part' names; the variables of the others  *)
(* keep their initial values.                                              *)
(***************************************************************************)
EXTENDS RingInstance, DeviceStream, PeakMeter

VARIABLE part

\* Names of letters, the default device and the lists that PortAudio may give.
Names == {<<"default_in">>, <<"a", "b">>, <<"a", "c">>, <<"b">>}
DeviceLists == {<<>>, <<<<"a", "b", "c">>, <<"a", "b">>>>,
                <<<<"a", "c">>, <<"a", "b", "b">>, <<"a", "b">>>>, <<<<"c", "c", "b">>>>}

\* The values of the constants are such as the proofs take (StreamProofs,
\* DeviceProofs).
ASSUME DeviceAssumed == DeviceAssumption({"a", "b", "c", "default_in"})
ASSUME MeterAssumed == PeakMeterAssumption
ASSUME RingAssumed == Ring!DeviceRingAssumption

RingInit ==
    /\ part \in {"ring", "device", "meter"}
    /\ Ring!Init /\ Init /\ MeterInit
    /\ part # "ring" => ringDrift = 3
    /\ part # "device" => devices = <<>> /\ rate = 2
    /\ part # "meter" => channels = 1

InRing == part = "ring" /\ UNCHANGED <<part, streamVars, meterVars>>
InDevice == part = "device" /\ UNCHANGED <<part, ringVars, meterVars>>
InMeter == part = "meter" /\ UNCHANGED <<part, ringVars, streamVars>>

RingNext ==
    \/ InRing /\ Ring!Next
    \/ InDevice /\ Next
    \/ InMeter /\ MeterNext

RingSpec == RingInit /\ [][RingNext]_<<part, ringVars, streamVars, meterVars>>
=============================================================================
