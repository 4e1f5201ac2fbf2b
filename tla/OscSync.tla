------------------------------ MODULE OscSync ------------------------------
(***************************************************************************)
(* Replication of one OSC variable between the server, which holds the     *)
(* authoritative value, and the GUIs, each of which shows the value in     *)
(* widgets and lets its user edit it.  A GUI edits its own copy at once    *)
(* and sends the new value; the server decides, and broadcasts what it     *)
(* decided to every connected client, the sender included.  A GUI that     *)
(* connects asks for all values with the message "/**/dump".               *)
(*                                                                         *)
(* A GUI owns one TCP connection at a time and opens another one when it   *)
(* has noticed that the former is closed; the two ends notice a broken     *)
(* connection at different times.                                          *)
(***************************************************************************)
EXTENDS OscVariable, Naturals, Sequences

CONSTANTS
    Gui,        \* GUI processes
    Conn,       \* identities of TCP connections, reused once both ends closed
    NoConn,     \* "the socket of this GUI is unconnected"
    Dump,       \* the message "/**/dump"
    MaxInputs,  \* bound: edits by users, controllers and the server itself
    MaxBreaks   \* bound: connections closed by a failure or a restart

ASSUME OscSyncAssumption ==
    /\ NoConn \notin Conn
    /\ Dump \notin Wire
    /\ MaxInputs \in Nat
    /\ MaxBreaks \in Nat

VARIABLES
    x,       \* the server's variable
    locked,  \* check callbacks refuse everything: the strip is running
    cur,     \* cur[g]: the connection of GUI g, or NoConn
    widget,  \* widget[g]: the value GUI g shows
    shown,   \* shown[g]: the widget is visible (a value was received once)
    link,    \* link[k]: life of connection k as the server sees it
    up,      \* up[k]: messages from the GUI to the server on k
    down,    \* down[k]: messages from the server to the GUI on k
    inputs,  \* edits made so far
    breaks   \* connections broken so far

vars == <<x, locked, cur, widget, shown, link, up, down, inputs, breaks>>

UpMsg == Wire \cup {Dump}

\* free: unused.  opened: connected, waiting in the listen backlog.
\* accepted: its OscTcpClient is in OscRoot's connectors.
\* closed: the server closed it and the GUI has not noticed yet.
LinkState == {"free", "opened", "accepted", "closed"}

TypeOK ==
    /\ x \in OscVar
    /\ locked \in BOOLEAN
    /\ cur \in [Gui -> Conn \cup {NoConn}]
    /\ widget \in [Gui -> Wire]
    /\ shown \in [Gui -> BOOLEAN]
    /\ link \in [Conn -> LinkState]
    /\ up \in [Conn -> Seq(UpMsg)]
    /\ down \in [Conn -> Seq(Wire)]
    /\ inputs \in 0..MaxInputs
    /\ breaks \in 0..MaxBreaks

Init ==
    /\ x \in OscVar /\ IsInitial(x)
    /\ locked = FALSE
    /\ cur = [g \in Gui |-> NoConn]
    /\ widget \in [Gui -> Wire]
    /\ shown = [g \in Gui |-> FALSE]
    /\ link = [k \in Conn |-> "free"]
    /\ up = [k \in Conn |-> <<>>]
    /\ down = [k \in Conn |-> <<>>]
    /\ inputs = 0
    /\ breaks = 0

Owned(k) == \E g \in Gui : cur[g] = k

Checked(v) == ~locked /\ v \in Valid

Input == inputs < MaxInputs /\ inputs' = inputs + 1
Break == breaks < MaxBreaks /\ breaks' = breaks + 1

-----------------------------------------------------------------------------
(* The server: one thread, the libuv loop. *)

\* sendMessage() writes to every connector; what is written to a connection
\* whose other end is gone is lost.
Broadcast(w) ==
    down' = [k \in Conn |->
                IF link[k] = "accepted" /\ Owned(k) THEN Append(down[k], w) ELSE down[k]]

\* Mutant: getToOsc() forgets convertToOsc.
ApplyUnconverted(r) ==
    /\ x' = r.var
    /\ IF r.notified THEN Broadcast(r.var.value) ELSE UNCHANGED down

\* The variable takes the outcome r of one of OscVariable's operators.
Apply(r) ==
    /\ x' = r.var
    /\ IF r.notified THEN Broadcast(ToOsc[r.var.value]) ELSE UNCHANGED down

Accept(k) ==
    /\ link[k] = "opened"
    /\ link' = [link EXCEPT ![k] = "accepted"]
    /\ UNCHANGED <<x, locked, cur, widget, shown, up, down, inputs, breaks>>

ServerReceive(k) ==
    /\ link[k] = "accepted"
    /\ up[k] # <<>>
    /\ up' = [up EXCEPT ![k] = Tail(@)]
    /\ IF Head(up[k]) = Dump
       THEN Broadcast(ToOsc[x.value]) /\ UNCHANGED x
       ELSE Apply(SetFromOsc(x, Head(up[k]), Checked(FromOsc[Head(up[k])])))
    /\ UNCHANGED <<locked, cur, widget, shown, link, inputs, breaks>>

\* A control surface (OSC over UDP) or a hotkey, toggles and increments included.
ControllerSet(w) ==
    /\ Input
    /\ Apply(SetFromOsc(x, w, Checked(FromOsc[w])))
    /\ UNCHANGED <<locked, cur, widget, shown, link, up, breaks>>

\* The server's own code assigns the variable, or its default.
ServerSet(v) ==
    /\ Input
    /\ \/ Apply(Set(x, v, Checked(v), FALSE))
       \/ Apply(SetDefault(x, v, Checked(v)))
       \/ Apply(ForceDefault(x, v, Checked(v)))
    /\ UNCHANGED <<locked, cur, widget, shown, link, up, breaks>>

\* The strip starts or stops: from then on check callbacks refuse or accept.
ServerLock ==
    /\ Input
    /\ locked' = ~locked
    /\ UNCHANGED <<x, cur, widget, shown, link, up, down, breaks>>

\* onReadData() sees EOF or an error: the connector is deleted with whatever
\* it had not read.  Without an owner this is not a failure but the normal end.
ServerClose(k) ==
    /\ link[k] = "accepted"
    /\ IF Owned(k) THEN Break ELSE UNCHANGED breaks
    /\ link' = [link EXCEPT ![k] = IF Owned(k) THEN "closed" ELSE "free"]
    /\ up' = [up EXCEPT ![k] = <<>>]
    /\ UNCHANGED <<x, locked, cur, widget, shown, down, inputs>>

\* The server ends and starts again with the value of its configuration file
\* (any value that passed its checks) or with the default.
ServerRestart ==
    /\ Break
    /\ x' \in OscVar /\ IsInitial(x')
    /\ locked' = FALSE
    /\ link' = [k \in Conn |-> IF Owned(k) THEN "closed" ELSE "free"]
    /\ up' = [k \in Conn |-> <<>>]
    /\ UNCHANGED <<cur, widget, shown, down, inputs>>

-----------------------------------------------------------------------------
(* A GUI: one thread, the Qt event loop. *)

\* Mutant: a GUI that connects does not ask for the values.
ConnectWithoutDump(g, k) ==
    /\ cur[g] = NoConn
    /\ link[k] = "free"
    /\ cur' = [cur EXCEPT ![g] = k]
    /\ link' = [link EXCEPT ![k] = "opened"]
    /\ up' = [up EXCEPT ![k] = <<>>]
    /\ down' = [down EXCEPT ![k] = <<>>]
    /\ UNCHANGED <<x, locked, widget, shown, inputs, breaks>>

Connect(g, k) ==
    /\ cur[g] = NoConn
    /\ link[k] = "free"
    /\ cur' = [cur EXCEPT ![g] = k]
    /\ link' = [link EXCEPT ![k] = "opened"]
    /\ up' = [up EXCEPT ![k] = <<Dump>>]
    /\ down' = [down EXCEPT ![k] = <<>>]
    /\ UNCHANGED <<x, locked, widget, shown, inputs, breaks>>

GuiReceive(g) ==
    /\ cur[g] # NoConn
    /\ down[cur[g]] # <<>>
    /\ widget' = [widget EXCEPT ![g] = Head(down[cur[g]])]
    /\ shown' = [shown EXCEPT ![g] = TRUE]
    /\ down' = [down EXCEPT ![cur[g]] = Tail(@)]
    /\ UNCHANGED <<x, locked, cur, link, up, inputs, breaks>>

\* The user edits the widget.  Without a connection the message is dropped.
GuiEdit(g, w) ==
    /\ Input
    /\ shown[g]
    /\ widget' = [widget EXCEPT ![g] = w]
    /\ up' = IF cur[g] = NoConn THEN up ELSE [up EXCEPT ![cur[g]] = Append(@, w)]
    /\ UNCHANGED <<x, locked, cur, shown, link, down, breaks>>

\* The GUI sees the connection go: after the server closed it, or by itself.
GuiClose(g) ==
    /\ cur[g] # NoConn
    /\ IF link[cur[g]] = "closed" THEN UNCHANGED breaks ELSE Break
    /\ cur' = [cur EXCEPT ![g] = NoConn]
    /\ link' = [link EXCEPT ![cur[g]] = IF @ = "closed" THEN "free" ELSE @]
    /\ UNCHANGED <<x, locked, widget, shown, up, down, inputs>>

-----------------------------------------------------------------------------
Next ==
    \/ \E k \in Conn : Accept(k) \/ ServerReceive(k) \/ ServerClose(k)
    \/ \E w \in Wire : ControllerSet(w)
    \/ \E v \in Internal : ServerSet(v)
    \/ ServerLock
    \/ ServerRestart
    \/ \E g \in Gui, k \in Conn : Connect(g, k)
    \/ \E g \in Gui : GuiReceive(g) \/ GuiClose(g)
    \/ \E g \in Gui, w \in Wire : GuiEdit(g, w)

Spec == Init /\ [][Next]_vars

\* Both event loops run, TCP delivers on a connection that does not break, and
\* an unconnected GUI tries again every second.  Nobody is obliged to edit.
Fairness ==
    /\ \A k \in Conn :
        /\ WF_vars(Accept(k))
        /\ WF_vars(ServerReceive(k))
        /\ WF_vars(~Owned(k) /\ ServerClose(k))
    /\ \A g \in Gui :
        /\ WF_vars(\E k \in Conn : Connect(g, k))
        /\ WF_vars(GuiReceive(g))
        /\ WF_vars(cur[g] # NoConn /\ link[cur[g]] = "closed" /\ GuiClose(g))

FairSpec == Spec /\ Fairness

-----------------------------------------------------------------------------
(* Properties. *)

\* w is a faithful picture of the server's value: it is the wire value the
\* server would send, or one that the server reads as the value it has.
Agrees(w) == w = ToOsc[x.value] \/ FromOsc[w] = x.value

\* Nothing is in flight between GUI g and the server.
Quiet(g) ==
    /\ cur[g] # NoConn
    /\ link[cur[g]] = "accepted"
    /\ up[cur[g]] = <<>>
    /\ down[cur[g]] = <<>>

\* Whatever the order of concurrent edits, refusals, ignored equal values,
\* late joins and reconnections, a connected GUI with nothing in flight shows
\* the server's value: OscReadOnlyVariable::set never leaves a GUI behind.
QuiescentConsistency == \A g \in Gui : Quiet(g) => shown[g] /\ Agrees(widget[g])

\* Once users stop editing and connections stop breaking, every GUI ends up
\* connected and showing the server's value for good: the echoes die out.
EventuallyInSync == <>[](\A g \in Gui : Quiet(g) /\ Agrees(widget[g]))

-----------------------------------------------------------------------------
(* The inductive strengthening of QuiescentConsistency. *)

\* The request for all values is still to be answered.
AwaitsDump(k) == up[k] # <<>> /\ up[k][1] = Dump

\* No two GUIs share a connection, and a GUI's connection is in use.
OwnInv ==
    /\ \A g, h \in Gui : cur[g] = cur[h] /\ cur[g] # NoConn => g = h
    /\ \A g \in Gui : cur[g] # NoConn => link[cur[g]] # "free"

\* The dump request is the first message of a connection, and the only one.
DumpInv ==
    \A k \in Conn :
        /\ link[k] = "opened" => AwaitsDump(k)
        /\ \A i \in 1..Len(up[k]) : up[k][i] = Dump => i = 1

\* The last message on the way down is the server's value; with none on the
\* way, the GUI agrees with the server or its last edit is on the way up.
InSync(g, k) ==
    /\ down[k] # <<>> => down[k][Len(down[k])] = ToOsc[x.value]
    /\ down[k] = <<>> =>
        /\ shown[g]
        /\ Agrees(widget[g]) \/ (up[k] # <<>> /\ up[k][Len(up[k])] = widget[g])

SyncInv ==
    \A g \in Gui, k \in Conn :
        cur[g] = k /\ link[k] = "accepted" /\ ~AwaitsDump(k) => InSync(g, k)

IInv == TypeOK /\ OwnInv /\ DumpInv /\ SyncInv
=============================================================================
