---------------------------- MODULE StripWindow ----------------------------
(***************************************************************************)
(* What a GUI shows of one strip: OutputController and its configuration   *)
(* dialog.  A widget is hidden until its value arrives.  Whether a group   *)
(* box of the dialog is shown is decided twice: by the strip's type        *)
(* (updateGroupBoxes), and by the widgets in it (WidgetAutoHidden, an      *)
(* event filter).  Whether the strip itself is shown depends on its        *)
(* enabling, on a check box of the main window and on the dialog.          *)
(*                                                                         *)
(* The server is here what it says to a GUI: it replaces the endpoint of a *)
(* strip before it tells the new type.  Qt is external: it sends an event  *)
(* when a widget is hidden or shown, be its parent visible or not.         *)
(***************************************************************************)
EXTENDS Integers, SequencesExt

CONSTANTS
    MaxInputs, \* bound: what users and other clients do
    MaxBreaks  \* bound: connections that end

VARIABLES
    server,    \* the strip in the server
    up, down,  \* messages on their way
    connected,
    windows,   \* the GUI was built for Windows
    present,   \* the GUI has a controller for the strip
    type,      \* oscType of the dialog
    enable,    \* oscEnable: its value, and whether it is still the default
    named,     \* oscName is not the default
    shown,     \* the widgets and boxes that are not hidden
    dialog,    \* the dialog is shown
    controller,   \* the controller is shown
    showDisabled, \* showDisabledCheckBox
    asked,     \* history: a user or a client asked for the strip to be enabled
    early,     \* history: a client renamed the strip before the GUI knew its enabling
    raced,     \* history: the user picked a type, or the connection ended, between
               \* the values of an endpoint and its type
    inputs, breaks

widgets == <<type, enable, named, shown, dialog, controller>>
gui == <<windows, present, widgets, showDisabled>>
bounds == <<inputs, breaks>>
vars == <<server, up, down, connected, gui, asked, early, raced, bounds>>

Type == {"Loopback", "Remote", "Device", "None"}
Box == {"audio", "remote", "device"}
Node == {"rate", "buffer", "ip", "name", "exclusive"}

\* The group box that a widget of the dialog is in.
BoxOf == [rate |-> "audio", buffer |-> "audio", ip |-> "remote", name |-> "device", exclusive |-> "device"]

\* The variables of the endpoint of a type.
NodesOf(t) == CASE t = "Remote" -> <<"rate", "ip">>
                [] t = "Device" -> <<"name", "buffer", "rate", "exclusive">>
                [] OTHER -> <<>>

\* Mutant: the clock box stays for every type.
BoxesAlwaysClock(t) == CASE t = "Remote" -> {"audio", "remote"}
                         [] t = "Device" -> {"audio", "device"}
                         [] OTHER -> {"audio"}

\* updateGroupBoxes(): the boxes that a type uses.
BoxesOf(t) == CASE t = "Remote" -> {"audio", "remote"}
                [] t = "Device" -> {"audio", "device"}
                [] OTHER -> {}

TypeMessage(t) == [node |-> "_type", type |-> t]
EnableMessage(b) == [node |-> "enable", on |-> b]
NameMessage == [node |-> "name of the strip"]
DumpMessage == [node |-> "dump"]
NodeMessages(t) == [i \in DOMAIN NodesOf(t) |-> [node |-> NodesOf(t)[i]]]

TypeOK ==
    /\ server \in [exists : BOOLEAN, type : Type, enabled : BOOLEAN, running : BOOLEAN, fresh : BOOLEAN]
    /\ {connected, windows, present, named, dialog, controller, showDisabled,
        asked, early, raced} \subseteq BOOLEAN
    /\ type \in Type
    /\ enable \in [on : BOOLEAN, default : BOOLEAN]
    /\ shown \subseteq Node \cup Box

Fresh == [exists |-> TRUE, type |-> "None", enabled |-> FALSE, running |-> FALSE, fresh |-> TRUE]

Init ==
    /\ server \in {Fresh, [Fresh EXCEPT !.exists = FALSE]}
                  \cup {[Fresh EXCEPT !.type = t, !.fresh = FALSE] : t \in Type}
    /\ up = <<>> /\ down = <<>> /\ connected = FALSE
    /\ windows \in BOOLEAN /\ showDisabled = FALSE
    /\ present = FALSE
    /\ type = "Loopback" /\ enable = [on |-> FALSE, default |-> TRUE] /\ named = FALSE
    /\ shown = {} /\ dialog = FALSE /\ controller = FALSE
    /\ asked = FALSE /\ early = FALSE /\ raced = FALSE
    /\ inputs = 0 /\ breaks = 0

Input == inputs < MaxInputs /\ inputs' = inputs + 1 /\ UNCHANGED breaks

-----------------------------------------------------------------------------
(* The server. *)

Broadcast(messages) == down' = IF connected THEN down \o messages ELSE down

\* The variables of a new strip in the order of their declaration.
Created == <<EnableMessage(FALSE), TypeMessage("None"), NameMessage>>

\* A message for a strip that does not exist makes it.
Reached == IF server.exists THEN server ELSE Fresh
Making == IF server.exists THEN <<>> ELSE Created

\* oscType is set: refused while the strip runs; the endpoint's variables tell their
\* values when they are made, before the type does.
SetType(t) ==
    IF t = Reached.type /\ ~Reached.fresh
    THEN UNCHANGED <<server, down>>
    ELSE IF Reached.running
    THEN Broadcast(<<TypeMessage(server.type)>>) /\ UNCHANGED server
    ELSE /\ server' = [Reached EXCEPT !.type = t, !.fresh = FALSE]
         /\ Broadcast(Making \o NodeMessages(t) \o <<TypeMessage(t)>>)

\* oscEnable is set: refused without an endpoint; start() may fail.
SetEnable(on) ==
    IF on = Reached.enabled
    THEN server' = Reached /\ Broadcast(Making)
    ELSE IF on /\ Reached.type = "None"
    THEN server' = Reached /\ Broadcast(Making \o <<EnableMessage(FALSE)>>)
    ELSE /\ \E started \in BOOLEAN :
               server' = [Reached EXCEPT !.enabled = on, !.running = on /\ started]
         /\ Broadcast(Making \o <<EnableMessage(on)>>)

\* Mutant: the nodes in the reverse order.
DumpNameFirst(s) ==
    IF s.exists
    THEN <<NameMessage, EnableMessage(s.enabled)>> \o NodeMessages(s.type) \o <<TypeMessage(s.type)>>
    ELSE <<>>

\* The nodes in the order of OscContainer's map.
DumpOf(s) ==
    IF s.exists
    THEN <<TypeMessage(s.type)>> \o NodeMessages(s.type) \o <<EnableMessage(s.enabled), NameMessage>>
    ELSE <<>>

ServerReceive ==
    /\ up # <<>>
    /\ up' = Tail(up)
    /\ LET m == Head(up)
       IN  \/ m.node = "dump" /\ Broadcast(DumpOf(server)) /\ UNCHANGED server
           \/ /\ m.node = "keys"
              /\ IF server.exists THEN UNCHANGED <<server, down>>
                 ELSE server' = Fresh /\ Broadcast(Created)
           \/ m.node = "_type" /\ SetType(m.type)
           \/ m.node = "enable" /\ SetEnable(m.on)
    /\ UNCHANGED <<connected, gui, asked, early, raced, bounds>>

\* Another client.
ClientSetsType(t) ==
    /\ Input /\ server.exists
    /\ SetType(t)
    /\ UNCHANGED <<up, connected, gui, asked, early, raced>>

ClientSetsName ==
    /\ Input /\ server.exists /\ ~server.running
    /\ Broadcast(<<NameMessage>>)
    /\ early' = (early \/ (connected /\ enable.default))
    /\ UNCHANGED <<server, up, connected, gui, asked, raced>>

-----------------------------------------------------------------------------
(* The GUI. *)

\* updateHiddenState(), which the enabling and the main window's check box call.
Controller(disabled, on) == disabled \/ on \/ dialog

\* A box is hidden by its widgets when the last of them is.
HiddenWith(widget, s) ==
    LET rest == s \ {widget}
    IN  IF widget \in s /\ ~\E n \in rest \cap Node : BoxOf[n] = BoxOf[widget]
        THEN rest \ {BoxOf[widget]} ELSE rest

\* updateGroupBoxes(): the boxes by the type, then the check box of exclusive mode.
GroupBoxes(t, s) ==
    LET boxes == (s \ Box) \cup BoxesOf(t)
    IN  IF t = "Device" /\ windows THEN boxes \cup {"exclusive"} ELSE HiddenWith("exclusive", boxes)

\* The first message about a strip makes its controller.
GuiReceive ==
    /\ down # <<>>
    /\ down' = Tail(down)
    /\ present' = TRUE
    /\ LET m == Head(down)
       IN  \/ /\ m.node \in Node
              \* the mapper shows the widget, which shows its box
              /\ shown' = IF m.node \in shown THEN shown ELSE shown \cup {m.node, BoxOf[m.node]}
              /\ UNCHANGED <<type, enable, named, dialog, controller, up>>
           \/ /\ m.node = "_type"
              /\ type' = m.type
              /\ shown' = IF m.type = type THEN shown ELSE GroupBoxes(m.type, shown)
              /\ UNCHANGED <<enable, named, dialog, controller, up>>
           \/ /\ m.node = "enable"
              /\ enable' = [on |-> m.on, default |-> FALSE]
              /\ controller' = IF m.on = enable.on THEN controller ELSE Controller(showDisabled, m.on)
              /\ UNCHANGED <<type, named, shown, dialog, up>>
           \/ /\ m.node = "name of the strip"
              \* a name without an enabling is that of a device without one: it is enabled
              /\ named' = TRUE
              /\ IF enable.default /\ ~enable.on
                 THEN /\ enable' = [enable EXCEPT !.on = TRUE]
                      /\ controller' = TRUE
                      /\ up' = IF connected THEN Append(up, EnableMessage(TRUE)) ELSE up
                 ELSE UNCHANGED <<enable, controller, up>>
              /\ UNCHANGED <<type, shown, dialog>>
    /\ UNCHANGED <<server, connected, windows, showDisabled, asked, early, raced, bounds>>

Send(m) == up' = IF connected THEN Append(up, m) ELSE up

\* onAddInstance(): the list of strips is sent, the dialog and the controller open.
Add ==
    /\ Input /\ ~present /\ ~server.exists
    /\ present' = TRUE /\ dialog' = TRUE /\ controller' = TRUE
    /\ Send([node |-> "keys"])
    /\ UNCHANGED <<server, down, connected, windows, type, enable, named, shown, showDisabled,
                   asked, early, raced>>

\* The user picks a type: the boxes follow at once.
PickType(t) ==
    /\ Input /\ present /\ dialog
    /\ t # type
    /\ type' = t
    /\ shown' = GroupBoxes(t, shown)
    /\ Send(TypeMessage(t))
    /\ raced' = (raced \/ \E i \in DOMAIN down : down[i].node \in Node)
    /\ UNCHANGED <<server, down, connected, windows, present, enable, named, dialog, controller,
                   showDisabled, asked, early>>

ToggleEnable ==
    /\ Input /\ present /\ controller
    /\ enable' = [enable EXCEPT !.on = ~@]
    /\ controller' = Controller(showDisabled, ~enable.on)
    /\ Send(EnableMessage(~enable.on))
    /\ asked' = TRUE
    /\ UNCHANGED <<server, down, connected, windows, present, type, named, shown, dialog,
                   showDisabled, early, raced>>

ToggleShowDisabled ==
    /\ Input
    /\ showDisabled' = ~showDisabled
    /\ controller' = IF present THEN Controller(~showDisabled, enable.on) ELSE controller
    /\ UNCHANGED <<server, up, down, connected, windows, present, type, enable, named, shown, dialog,
                   asked, early, raced>>

\* onShowConfig(), or the dialog is closed: only its button follows.
ToggleDialog ==
    /\ present
    /\ dialog \/ controller
    /\ dialog' = ~dialog
    /\ UNCHANGED <<server, up, down, connected, windows, present, type, enable, named, shown,
                   controller, showDisabled, asked, early, raced, bounds>>

Connect ==
    /\ ~connected
    /\ connected' = TRUE
    /\ up' = <<DumpMessage>>
    /\ UNCHANGED <<server, down, gui, asked, early, raced, bounds>>

Disconnect ==
    /\ connected /\ breaks < MaxBreaks
    /\ breaks' = breaks + 1
    /\ connected' = FALSE
    /\ up' = <<>> /\ down' = <<>>
    /\ raced' = (raced \/ down # <<>>)
    /\ UNCHANGED <<server, gui, asked, early, inputs>>

Next ==
    \/ ServerReceive \/ GuiReceive
    \/ Connect \/ Disconnect
    \/ \E t \in Type : ClientSetsType(t) \/ PickType(t)
    \/ ClientSetsName
    \/ Add \/ ToggleEnable \/ ToggleShowDisabled \/ ToggleDialog

Spec == Init /\ [][Next]_vars

-----------------------------------------------------------------------------
Quiet == connected /\ present /\ server.exists /\ up = <<>> /\ down = <<>>

\* With nothing on its way, the dialog shows the boxes that the strip's type uses and
\* no others, and in them each setting of the endpoint, though two mechanisms hide
\* and show them and the messages of a dump and of a change come in different
\* orders; unless the user picked a type, or the connection ended, while values
\* were on their way.
\* Exclusive mode is left out: on other systems than Windows whether its check box
\* shows depends on that order.
BoxesFollowType ==
    Quiet /\ ~raced =>
        /\ shown \cap Box = BoxesOf(server.type)
        /\ ToSet(NodesOf(server.type)) \ {"exclusive"} \subseteq shown

\* A strip is enabled because a user asked for it: the rule that enables devices
\* without an enabling takes no strip of the server for one; unless another client
\* renamed the strip just when the GUI connected.
EnabledByUser == server.enabled => asked \/ early
=============================================================================
