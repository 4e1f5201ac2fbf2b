------------------------------- MODULE MCParts -------------------------------
(***************************************************************************)
(* Six smaller parts in one instance for TLC: each behaviour is one of the *)
(* sample rate measure, of a per-channel array, of the dispatch of a       *)
(* message, of the hotkeys, of the server's loop or of delayControl, which *)
(* `part' names; the variables of the others keep their initial values.    *)
(***************************************************************************)
EXTENDS SampleRateMeasure, Hotkeys, PartsInstances

CONSTANTS c1, c2

VARIABLES
    part,
    \* OscDispatch
    address, slash, dispatchTodo, executed,
    \* ServerLoop
    handle, started, sends, request, jack, served, state

MCClientKeys == {-1, 0, 1, 3}

Dispatch == INSTANCE OscDispatch WITH
    Name <- {1, 2, 3},
    Leaf <- {<<1, 1, 1>>, <<1, 1, 2>>, <<1, 2>>, <<2, 1>>, <<2, 3, 2, 1>>},
    MaxLength <- 4, todo <- dispatchTodo

Loop == INSTANCE ServerLoop WITH Client <- {c1, c2}, MaxSends <- 2

dispatchVars == <<address, slash, dispatchTodo, executed>>
loopVars == <<handle, started, sends, request, jack, served, state>>
allVars == <<part, vars, channelVars, dispatchVars, hotkeyVars, loopVars, delayVars>>

PartsInit ==
    /\ part \in {"measure", "channels", "dispatch", "hotkeys", "loop", "delay"}
    /\ Init /\ Channels!Init /\ Dispatch!Init /\ HotkeyInit /\ Loop!Init /\ Delay!Init
    /\ part # "dispatch" => address = <<1>> /\ ~slash
    /\ part # "delay" => \A i \in DOMAIN latency : latency[i] = 0 /\ delays[i] = 0

InMeasure ==
    part = "measure"
        /\ UNCHANGED <<part, channelVars, dispatchVars, hotkeyVars, loopVars, delayVars>>
InChannels ==
    part = "channels" /\ UNCHANGED <<part, vars, dispatchVars, hotkeyVars, loopVars, delayVars>>
InDispatch ==
    part = "dispatch" /\ UNCHANGED <<part, vars, channelVars, hotkeyVars, loopVars, delayVars>>
InHotkeys ==
    part = "hotkeys" /\ UNCHANGED <<part, vars, channelVars, dispatchVars, loopVars, delayVars>>
InLoop ==
    part = "loop" /\ UNCHANGED <<part, vars, channelVars, dispatchVars, hotkeyVars, delayVars>>
InDelay ==
    part = "delay" /\ UNCHANGED <<part, vars, channelVars, dispatchVars, hotkeyVars, loopVars>>

PartsNext ==
    \/ InMeasure /\ Next
    \/ InChannels /\ Channels!Next
    \/ InDispatch /\ Dispatch!Next
    \/ InHotkeys /\ HotkeyNext
    \/ InLoop /\ Loop!Next
    \/ InDelay /\ Delay!Next

(* The fairness of OscDispatch, of ServerLoop or of DelayControl.           *)
PartsFairness ==
    /\ WF_allVars(\/ InDispatch /\ Dispatch!Next
                  \/ InLoop /\ Loop!Start
                  \/ InDelay /\ Delay!OnWrite)
    /\ WF_allVars(\/ InLoop /\ Loop!EndIteration
                  \/ InDelay /\ Delay!StartNewPulse(0))
    /\ WF_allVars(\/ InLoop /\ Loop!OnWriteDone
                  \/ InDelay /\ Delay!Detect)
    /\ WF_allVars(\/ InLoop /\ Loop!OnShutdownRequest
                  \/ InDelay /\ Delay!DoMeasure)

PartsSpec == PartsInit /\ [][PartsNext]_allVars /\ PartsFairness

-----------------------------------------------------------------------------
(* A message executes exactly the nodes its address matches (OscDispatch).  *)
DispatchExact == []Dispatch!TypeOK /\ (part = "dispatch" => Dispatch!DispatchExact)


(* The tool aligns the speakers (DelayControl).                             *)
EventuallyAligned == Delay!EventuallyAligned
=============================================================================
