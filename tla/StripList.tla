----------------------------- MODULE StripList -----------------------------
(***************************************************************************)
(* The list of channel strips, replicated between the server and the GUIs. *)
(* The server keeps it in an OscGenericArray; a GUI keeps an               *)
(* OscWidgetArray, the strips in the order in which they are laid out.  A  *)
(* user adds, removes or drags a strip in one GUI: the GUI changes its own *)
(* layout at once and sends its list of keys.  The server adopts the list, *)
(* creates and destroys strips, and broadcasts what it adopted; a GUI that *)
(* receives a list moves, adds and removes widgets until it has that list. *)
(* A message about a strip that its receiver does not know creates it, in  *)
(* a GUI and in the server.                                                *)
(*                                                                         *)
(* Connections are the subject of OscSync.  Here a GUI is online or not,   *)
(* and what is in flight when a connection ends is lost.                   *)
(***************************************************************************)
EXTENDS OscGenericArray

CONSTANTS
    Gui,
    MaxKey,         \* bound: largest key in use
    SavedKeys,      \* the lists of keys that a configuration file may hold
    ControllerKeys, \* the lists of keys that other OSC clients write
    MaxInputs,      \* bound: edits by users and other OSC clients
    MaxBreaks       \* bound: connections that end

ASSUME StripListAssumption ==
    /\ MaxKey \in Nat
    /\ SavedKeys \cup ControllerKeys \subseteq Seq(0..MaxKey)
    /\ MaxInputs \in Nat
    /\ MaxBreaks \in Nat

VARIABLES
    strips,  \* the server's array
    order,   \* order[g]: keysOrder of GUI g, the strips from left to right
    nextKey, \* nextKey[g]: the key GUI g gives to the next strip it adds
    aborted, \* aborted[g]: GUI g reached abort()
    online,  \* online[g]: GUI g is connected
    up,      \* up[g]: messages from GUI g to the server
    down,    \* down[g]: messages from the server to GUI g
    inputs,  \* edits made so far
    breaks   \* connections ended so far

vars == <<strips, order, nextKey, aborted, online, up, down, inputs, breaks>>

Key == 0..MaxKey
Dump == [type |-> "dump"]

TypeOK ==
    /\ strips.keys \in Seq(Key) /\ strips.value \subseteq Key /\ strips.nextKey \in 0..(MaxKey + 1)
    /\ order \in [Gui -> Seq(Key)]
    /\ nextKey \in [Gui -> 0..(MaxKey + 1)]
    /\ aborted \in [Gui -> BOOLEAN]
    /\ online \in [Gui -> BOOLEAN]
    /\ \A g \in Gui : \A i \in DOMAIN up[g] : up[g][i].type \in {"dump", "keys", "item"}
    /\ \A g \in Gui : \A i \in DOMAIN down[g] : down[g][i].type \in {"keys", "item"}
    /\ inputs \in 0..MaxInputs
    /\ breaks \in 0..MaxBreaks

\* The server restores its strips before it listens; the GUIs start empty.
Init ==
    /\ \E s \in SavedKeys : strips = SetKeys(Empty, s).arr
    /\ order = [g \in Gui |-> <<>>]
    /\ nextKey = [g \in Gui |-> 0]
    /\ aborted = [g \in Gui |-> FALSE]
    /\ online = [g \in Gui |-> FALSE]
    /\ up = [g \in Gui |-> <<>>]
    /\ down = [g \in Gui |-> <<>>]
    /\ inputs = 0
    /\ breaks = 0

Input == inputs < MaxInputs /\ inputs' = inputs + 1

-----------------------------------------------------------------------------
(* The layout of a GUI. *)

\* Mutant: the widgets change places and keysOrder does not.
MoveWidgetsOnly(s, k, target, before) == s

\* The position of strip k, or 0.
Position(s, k) == SelectInSeq(s, LAMBDA e : e = k)

\* The layout without strip k, if it is there.
Without(s, k) == IF Contains(s, k) THEN RemoveAt(s, Position(s, k)) ELSE s

\* swapWidgets(): strip k goes before or behind strip target.  Both are in s.
Move(s, k, target, before) ==
    LET rest == Without(s, k)
        at   == Position(rest, target)
    IN  IF k = target THEN s ELSE InsertAt(rest, IF before THEN at ELSE at + 1, k)

\* addWidget() appends a strip that is not there yet.
Add(s, k) == IF Contains(s, k) THEN s ELSE Append(s, k)

\* execute() of a list of keys: the i-th key is added at the end when it is new and
\* then moved to position i.  A position beyond the end of the layout aborts.
Place(new, r, i) ==
    LET t == Add(r.order, new[i])
    IN  IF Position(t, new[i]) = i THEN [r EXCEPT !.order = t]
        ELSE IF i <= Len(t) THEN [r EXCEPT !.order = Move(t, new[i], t[i], TRUE)]
        ELSE IF i = Len(t) + 1 THEN [r EXCEPT !.order = Move(t, new[i], Last(t), FALSE)]
        ELSE [r EXCEPT !.aborted = TRUE]

PlaceAll(s, new) ==
    FoldLeft(LAMBDA r, i : Place(new, r, i), [order |-> s, aborted |-> FALSE],
             [i \in DOMAIN new |-> i])

\* The keys not listed are removed at the end.
Reconcile(s, new) ==
    [PlaceAll(s, new) EXCEPT !.order = Pick(@, ToSet(new))]

\* Mutant: one is added twice.
KeyTwoAfterAll(next, new) == Max({next} \cup {k + 2 : k \in ToSet(new)})

\* addWidget() keeps nextKey above every key the GUI has seen.
KeyAfterAll(next, new) == Max({next} \cup {k + 1 : k \in ToSet(new)})

-----------------------------------------------------------------------------
(* The server. *)

Broadcast(sent) == down' = [g \in Gui |-> IF online[g] THEN down[g] \o sent ELSE down[g]]

\* "/**/dump": each node sends its value, the keys before the strips in the order
\* of their numbers.
DumpOf(a) ==
    LET numbered == Pick([i \in 1..(MaxKey + 1) |-> i - 1], a.value)
    IN  <<Keys(a.keys)>> \o [i \in DOMAIN numbered |-> Item(numbered[i])]

ServerReceive(g) ==
    /\ up[g] # <<>>
    /\ up' = [up EXCEPT ![g] = Tail(@)]
    /\ LET m == Head(up[g])
       IN  \/ m.type = "dump" /\ Broadcast(DumpOf(strips)) /\ UNCHANGED strips
           \/ /\ m.type = "keys"
              /\ LET r == SetKeys(strips, m.keys) IN strips' = r.arr /\ Broadcast(r.sent)
           \/ /\ m.type = "item"
              /\ LET r == Access(strips, m.key)
                 IN  /\ strips' = r.arr
                     \* the strip's variable echoes its value, unless it is the same
                     /\ Broadcast(r.sent) \/ Broadcast(Append(r.sent, m))
    /\ UNCHANGED <<order, nextKey, aborted, online, inputs, breaks>>

\* Another OSC client writes the list of keys, duplicates included.
ControllerSetKeys(s) ==
    /\ Input
    /\ LET r == SetKeys(strips, s) IN strips' = r.arr /\ Broadcast(r.sent)
    /\ UNCHANGED <<order, nextKey, aborted, online, up, breaks>>

\* Another OSC client, or a hotkey, addresses strip k.
ControllerAccess(k) ==
    /\ Input
    /\ LET r == Access(strips, k) IN strips' = r.arr /\ Broadcast(Append(r.sent, Item(k)))
    /\ UNCHANGED <<order, nextKey, aborted, online, up, breaks>>

-----------------------------------------------------------------------------
(* A GUI. *)

Send(g, m) == up' = [up EXCEPT ![g] = IF online[g] THEN Append(@, m) ELSE @]

GuiAdd(g) ==
    /\ Input
    /\ nextKey[g] <= MaxKey
    /\ order' = [order EXCEPT ![g] = Append(@, nextKey[g])]
    /\ nextKey' = [nextKey EXCEPT ![g] = @ + 1]
    /\ Send(g, Keys(order'[g]))
    /\ UNCHANGED <<strips, aborted, online, down, breaks>>

\* The user types the key of the strip to remove, which may not exist.
GuiRemove(g, k) ==
    /\ Input
    /\ order' = [order EXCEPT ![g] = Without(@, k)]
    /\ Send(g, Keys(order'[g]))
    /\ UNCHANGED <<strips, nextKey, aborted, online, down, breaks>>

GuiMove(g, k, target, before) ==
    /\ Input
    /\ {k, target} \subseteq ToSet(order[g])
    /\ k # target
    /\ order' = [order EXCEPT ![g] = Move(@, k, target, before)]
    /\ Send(g, Keys(order'[g]))
    /\ UNCHANGED <<strips, nextKey, aborted, online, down, breaks>>

\* The user edits a widget of strip k.
GuiEdit(g, k) ==
    /\ Input
    /\ Contains(order[g], k)
    /\ Send(g, Item(k))
    /\ UNCHANGED <<strips, order, nextKey, aborted, online, down, breaks>>

GuiReceive(g) ==
    /\ ~aborted[g]
    /\ down[g] # <<>>
    /\ down' = [down EXCEPT ![g] = Tail(@)]
    /\ LET m == Head(down[g])
       IN  \/ /\ m.type = "keys"
              /\ order' = [order EXCEPT ![g] = Reconcile(@, m.keys).order]
              /\ aborted' = [aborted EXCEPT ![g] = Reconcile(order[g], m.keys).aborted]
              /\ nextKey' = [nextKey EXCEPT ![g] = KeyAfterAll(@, m.keys)]
           \/ /\ m.type = "item"
              /\ order' = [order EXCEPT ![g] = Add(@, m.key)]
              /\ nextKey' = [nextKey EXCEPT ![g] = KeyAfterAll(@, <<m.key>>)]
              /\ UNCHANGED aborted
    /\ UNCHANGED <<strips, online, up, inputs, breaks>>

Connect(g) ==
    /\ ~online[g]
    /\ online' = [online EXCEPT ![g] = TRUE]
    /\ up' = [up EXCEPT ![g] = <<Dump>>]
    /\ UNCHANGED <<strips, order, nextKey, aborted, down, inputs, breaks>>

Disconnect(g) ==
    /\ online[g]
    /\ breaks < MaxBreaks
    /\ breaks' = breaks + 1
    /\ online' = [online EXCEPT ![g] = FALSE]
    /\ up' = [up EXCEPT ![g] = <<>>]
    /\ down' = [down EXCEPT ![g] = <<>>]
    /\ UNCHANGED <<strips, order, nextKey, aborted, inputs>>

-----------------------------------------------------------------------------
Next ==
    \/ \E s \in ControllerKeys : ControllerSetKeys(s)
    \/ \E k \in Key : ControllerAccess(k)
    \/ \E g \in Gui :
        \/ ServerReceive(g)
        \/ GuiAdd(g)
        \/ \E k \in Key : GuiRemove(g, k) \/ GuiEdit(g, k)
        \/ \E k, target \in Key, before \in BOOLEAN : GuiMove(g, k, target, before)
        \/ GuiReceive(g)
        \/ Connect(g)
        \/ Disconnect(g)

Spec == Init /\ [][Next]_vars

-----------------------------------------------------------------------------
\* Nothing is in flight between GUI g and the server.
Quiet(g) == online[g] /\ up[g] = <<>> /\ down[g] = <<>>

\* A list of keys says which strips exist: none is listed twice, each is listed.
Coherent ==
    /\ ToSet(strips.keys) = strips.value
    /\ Len(strips.keys) = Cardinality(strips.value)

\* Whatever users did at the same time in several GUIs, a GUI with nothing in
\* flight shows the server's strips in the server's order: ignored equal lists,
\* implicit additions and lost messages leave no difference behind.
SameStrips == TypeOK /\ Coherent /\ \A g \in Gui : Quiet(g) => order[g] = strips.keys

\* OscWidgetArray::execute() never reaches its abort(): the server broadcasts no
\* list with duplicates, even when a client wrote one.
NeverAborts == \A g \in Gui : ~aborted[g]

\* Receiving a list of keys leaves exactly that list in that order, from any
\* layout: the moves one by one and the removals at the end amount to assignment.
ReconcileExact ==
    [][\A g \in Gui :
          /\ online'[g]
          /\ down[g] # <<>> /\ down'[g] = Tail(down[g]) /\ Head(down[g]).type = "keys"
          => order'[g] = Head(down[g]).keys]_vars

-----------------------------------------------------------------------------
(* The strengthening.  What is in flight and what the parts hold fit together. *)

\* Where a key is listed once and exactly the keys have items.
ArrayOK(a) ==
    /\ a = [keys |-> a.keys, value |-> a.value, nextKey |-> a.nextKey]
    /\ a.keys \in Seq(Key) /\ IsInjective(a.keys)
    /\ a.value = ToSet(a.keys)
    /\ a.nextKey \in 0..(MaxKey + 1)

Message == [type : {"keys"}, keys : Seq(Key)] \cup [type : {"item"}, key : Key]

\* No list of keys follows message i of s.
Newest(s, i) == \A j \in DOMAIN s : j > i => s[j].type # "keys"
NoKeys(s) == \A i \in DOMAIN s : s[i].type # "keys"

\* Message m says what the server has.
Tells(m, a) == IF m.type = "keys" THEN m.keys = a.keys ELSE m.key \in a.value

\* A GUI lists no strip twice, and the key of its next strip is above those listed.
LayoutInv ==
    /\ order \in [Gui -> Seq(Key)]
    /\ nextKey \in [Gui -> 0..(MaxKey + 1)]
    /\ \A g \in Gui : IsInjective(order[g]) /\ \A k \in ToSet(order[g]) : k < nextKey[g]

FlightInv ==
    /\ online \in [Gui -> BOOLEAN]
    /\ up \in [Gui -> Seq(Message \cup {Dump})]
    /\ down \in [Gui -> Seq(Message)]
    /\ \A g \in Gui : online[g] \/ down[g] = <<>>
    /\ \A g \in Gui : \A i \in DOMAIN down[g] :
          /\ down[g][i].type = "keys" => IsInjective(down[g][i].keys)
          /\ Newest(down[g], i) => Tells(down[g][i], strips)

\* A GUI that was told of no other list, and need not ask, has the server's list or
\* has sent another one since.
AgreeInv ==
    \A g \in Gui :
        (/\ online[g]
         /\ \A i \in DOMAIN up[g] : up[g][i].type # "dump"
         /\ NoKeys(down[g]))
        => \/ order[g] = strips.keys
           \/ \E i \in DOMAIN up[g] :
                 /\ up[g][i].type = "keys" /\ up[g][i].keys # strips.keys
                 /\ Newest(up[g], i)

IInv ==
    /\ ArrayOK(strips) /\ LayoutInv /\ FlightInv /\ AgreeInv
    /\ aborted = [g \in Gui |-> FALSE]
    /\ inputs \in 0..MaxInputs /\ breaks \in 0..MaxBreaks
=============================================================================
