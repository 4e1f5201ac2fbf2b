---------------------------- MODULE RingInstance ----------------------------
(***************************************************************************)
(* The rings of a sound device as a part of something larger: an instance  *)
(* of DeviceRing whose names clash with those of no other endpoint, for    *)
(* TLC (MCRing) and for the proofs (DeviceProofs).                         *)
(***************************************************************************)
EXTENDS ResamplingFilter

CONSTANTS
    NumChannel, Size, ProducerFrames, ConsumerFrames, Ratio, RingDrifts

VARIABLES
    ringStream, fill, ringRatio, ringDelay, producer, ringFrames, consumer, frameCount, silent,
    ringMain, ringDrift, overflow, underflow, counted, occurred, ringUneven, ringChanges

Ring == INSTANCE DeviceRing WITH
    MaxDrifts <- RingDrifts, stream <- ringStream, ratio <- ringRatio, delay <- ringDelay,
    main <- ringMain, drift <- ringDrift, uneven <- ringUneven, drifts <- ringChanges,
    nframes <- ringFrames

ringVars == <<ringStream, fill, ringRatio, ringDelay, producer, ringFrames, consumer,
    frameCount, silent, ringMain, ringDrift, overflow, underflow, counted, occurred,
    ringUneven, ringChanges>>

(* The channels of a device stay less than two blocks apart (DeviceRing).    *)
SkewBounded == Ring!TypeOK /\ Ring!SkewBounded

(* The filters make exactly the outputs of their ratio (DeviceRing).         *)
ResampleExact == Ring!ResampleExact

(* No overflow or underflow passes unnoticed (DeviceRing).                   *)
XrunsNoticed == Ring!XrunsNoticed
=============================================================================
