--------------------------- MODULE RemoteInstances ---------------------------
(***************************************************************************)
(* A remote input and a remote output as parts of something larger:        *)
(* instances of their modules whose names clash with those of no other     *)
(* endpoint, for TLC (MCDevices) and for the proofs (DeviceProofs).        *)
(***************************************************************************)
EXTENDS ResamplingFilter

CONSTANTS
    RemoteRate,                                                    \* both
    InputFrames, RingSize, InputDrift, MaxInputSize, InputChanges, \* RemoteInput
    OutputFrames, MaxPacket, VbanRate, OutputDrift                 \* RemoteOutput

VARIABLES
    \* RemoteInput
    inputSocket, ring, inputRate, vbanFormat, vbanRate, inputDeviceRate, inputAdded,
    inputFilter, inputSize, inputCallback, inputMain, inputUneven, inputOverread, changes,
    \* RemoteOutput
    outputSocket, outputFilter, outputRate, outputAdded, header, outputMain, block, packet,
    outputUneven

Input == INSTANCE RemoteInput WITH
    Frames <- InputFrames, Rate <- RemoteRate, Drift <- InputDrift,
    MaxSize <- MaxInputSize, MaxChanges <- InputChanges,
    socket <- inputSocket, deviceRate <- inputDeviceRate, drift <- inputAdded,
    filter <- inputFilter, size <- inputSize, callback <- inputCallback,
    main <- inputMain, uneven <- inputUneven, overread <- inputOverread

Output == INSTANCE RemoteOutput WITH
    Frames <- OutputFrames, Rate <- RemoteRate, Drift <- OutputDrift,
    socket <- outputSocket, filter <- outputFilter, deviceRate <- outputRate,
    drift <- outputAdded, main <- outputMain, uneven <- outputUneven

inputVars == <<inputSocket, ring, inputRate, vbanFormat, vbanRate, inputDeviceRate,
    inputAdded, inputFilter, inputSize, inputCallback, inputMain, inputUneven,
    inputOverread, changes>>
outputVars == <<outputSocket, outputFilter, outputRate, outputAdded, header, outputMain,
    block, packet, outputUneven>>

(* Both sides of a remote input stay together, and its ring never holds     *)
(* half a frame (RemoteInput).                                              *)
SidesTogether == Input!TypeOK /\ Input!WholeFrames /\ Input!SidesTogether

(* A remote input ends up at the rate its packets name (RemoteInput).       *)
InputEventuallyFollows == Input!EventuallyFollows

(* The packets of a remote output hold its block, under the rate it was     *)
(* resampled at (RemoteOutput).                                             *)
SentAtItsRate == Output!TypeOK /\ Output!PacketsHoldBlock /\ Output!SentAtItsRate
=============================================================================
