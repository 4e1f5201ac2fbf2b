--------------------------- MODULE PartsInstances ---------------------------
(***************************************************************************)
(* A per-channel array of FilterChain and the tool delayControl as parts   *)
(* of something larger: instances of ChannelArray and DelayControl whose   *)
(* names clash with those of no other part, for TLC (MCParts) and for the  *)
(* proofs (ArrayProofs and PartsProofs).                                   *)
(***************************************************************************)
EXTENDS Integers

CONSTANTS MaxChannels, DefaultChannels, ClientKeys, MaxClientKeys

ASSUME ChannelAssumption ==
    /\ MaxChannels \in Nat
    /\ DefaultChannels \in 1..MaxChannels
    /\ ClientKeys \subseteq Int
    /\ MaxClientKeys \in Nat

VARIABLES arr, channels, touched

Channels == INSTANCE ChannelArray

channelVars == <<arr, channels, touched>>

(* While only the server works on it, a per-channel array has every channel *)
(* (ChannelArray).                                                          *)
ChannelsPresent == Channels!TypeOK /\ Channels!ChannelsPresent

(* A change of the number of channels leaves one item per channel           *)
(* (ChannelArray).                                                          *)
ResizeExact == Channels!ResizeExact

-----------------------------------------------------------------------------
CONSTANTS
    NumOutput, Latency, Between, Period, DeadTime, BigError, Unstable, HistorySize,
    MaxDisturbances, MaxCommands

ASSUME DelayAssumption ==
    /\ NumOutput \in Nat \ {0}
    /\ Latency \subseteq Nat
    /\ {Between, Period, DeadTime, BigError, Unstable, HistorySize} \subseteq Nat
    /\ {MaxDisturbances, MaxCommands} \subseteq Nat

VARIABLES
    latency, connected, commands, writing, delays, assigned, configured, bigErrors,
    trigger, flight, detected, disturbances

Delay == INSTANCE DelayControl

delayVars == <<latency, connected, commands, writing, delays, assigned, configured,
    bigErrors, trigger, flight, detected, disturbances>>

(* DAMC has the delays that the tool assigned (DelayControl).               *)
ServerFollows == Delay!TypeOK /\ Delay!ServerFollows
=============================================================================
