------------------------ MODULE JackPortAutoConnect ------------------------
(***************************************************************************)
(* The server remembers which JACK ports were connected, and connects them *)
(* again when their clients come back.                                     *)
(*                                                                         *)
(* JACK calls back from its own thread when ports appear, disappear, are   *)
(* connected or disconnected, and when the graph was reordered after such  *)
(* changes; the callbacks only queue a notification.  The slow timer of    *)
(* the main thread takes the queue once it has stopped growing.  It then   *)
(* looks the ports up by their id, in the graph as it is by now: a         *)
(* disconnection of ports that no longer exist is the end of a client,     *)
(* which is not to be remembered.                                          *)
(*                                                                         *)
(* Each client has one port here.  JACK itself (jackd and libjack) is      *)
(* external: ids are given to ports as they register and are free again    *)
(* when they unregister.                                                   *)
(***************************************************************************)
EXTENDS Naturals, Sequences, SequencesExt, FiniteSets

CONSTANTS
    Output,    \* names of output ports
    Input,     \* names of input ports
    Id,        \* port ids
    NoId,      \* "this port is not registered"
    MaxEvents  \* bound: what users and clients do

ASSUME JackAssumption ==
    /\ Output \cap Input = {}
    /\ IsFiniteSet(Output) /\ IsFiniteSet(Input)
    /\ NoId \notin Id
    /\ MaxEvents \in Nat

Port == Output \cup Input
Pair == Output \X Input

VARIABLES
    idOf,      \* JACK: idOf[p] is the id of port p, or NoId
    usedIds,   \* JACK: the ids given so far
    links,     \* JACK: the connections
    dirty,     \* JACK: a graph-reordered notification is due
    queue,     \* jackNotifications, guarded by jackNotificationMutex
    prevCount, \* previousNotificationCount
    batch,     \* pendingNotifications: taken from the queue and not handled yet
    pending,   \* pendingPortChanges
    outs,      \* outputPortConnections, as pairs
    ins,       \* inputPortConnections, as pairs
    auto,      \* oscEnableAutoConnect
    monitor,   \* oscEnableConnectMonitoring
    events,    \* events so far
    cut,       \* history: connections that a user has undone
    blind,     \* history: monitoring was off at some time
    reused     \* history: JACK gave a port the id of one that had gone

jack == <<idOf, usedIds, reused, links, dirty>>
vars == <<idOf, usedIds, reused, links, dirty, queue, prevCount, batch, pending, outs, ins,
          auto, monitor, events, cut, blind>>

Reorder == [type |-> "reorder"]
Registration(id) == [type |-> "registration", id |-> id]
Change(a, b, connect) == [type |-> "connect", a |-> a, b |-> b, connect |-> connect]

PortChange == {Change(a, b, connect) : a \in Id, b \in Id, connect \in BOOLEAN}
Notification == PortChange \cup {Registration(id) : id \in Id} \cup {Reorder}

Present(p) == idOf[p] # NoId
PresentPairs == {p \in Pair : Present(p[1]) /\ Present(p[2])}

\* The change notifications for a set of connections, in some order.
Changes(pairs, connect) ==
    LET of == [p \in pairs |-> Change(idOf[p[1]], idOf[p[2]], connect)]
        s  == SetToSeq(pairs)
    IN  [i \in 1..Len(s) |-> of[s[i]]]

TypeOK ==
    /\ idOf \in [Port -> Id \cup {NoId}]
    /\ usedIds \subseteq Id /\ reused \in BOOLEAN
    /\ links \subseteq PresentPairs
    /\ dirty \in BOOLEAN
    /\ {queue, batch} \subseteq Seq(Notification)
    /\ pending \in Seq(PortChange)
    /\ prevCount \in Nat
    /\ outs \subseteq Pair /\ ins \subseteq Pair
    /\ {auto, monitor, blind} \subseteq BOOLEAN
    /\ events \in 0..MaxEvents
    /\ cut \subseteq Pair

Event == events < MaxEvents /\ events' = events + 1

-----------------------------------------------------------------------------
(* Operations of the main thread on the two maps and on JACK. *)

\* Mutant: an erased connection stays in the inputs' map.
SaveForgettingInputs(maps, p, connect) ==
    IF ~monitor THEN maps
    ELSE IF connect THEN [out |-> maps.out \cup {p}, in |-> maps.in \cup {p}]
    ELSE [out |-> maps.out \ {p}, in |-> maps.in]

\* savePortConnection(): both ports exist, p is an output and an input.
Save(maps, p, connect) ==
    IF ~monitor THEN maps
    ELSE IF connect THEN [out |-> maps.out \cup {p}, in |-> maps.in \cup {p}]
    ELSE [out |-> maps.out \ {p}, in |-> maps.in \ {p}]

\* Mutant: switching monitoring on saves nothing.
SaveNothing(maps, on) == maps

\* saveAllPortConnections()
SaveAll(maps, on) ==
    IF on THEN [out |-> maps.out \cup links, in |-> maps.in \cup links] ELSE maps

SetMaps(maps) == outs' = maps.out /\ ins' = maps.in

\* Mutant: jack_connect succeeds without the ports.
ToConnectMissing(maps, ports) ==
    {p \in Pair : (p[1] \in ports /\ p \in maps.out) \/ (p[2] \in ports /\ p \in maps.in)} \ links

\* Mutant: a port that appears is only looked up among the outputs.
ToConnectOutputsOnly(maps, ports) ==
    {p \in PresentPairs : p[1] \in ports /\ p \in maps.out} \ links

\* autoConnectPort() of some ports: the saved connections to make.  jack_connect
\* fails when the other port is missing or they are connected already.
ToConnect(maps, ports) ==
    {p \in PresentPairs :
        (p[1] \in ports /\ p \in maps.out) \/ (p[2] \in ports /\ p \in maps.in)} \ links

\* jack_connect: JACK connects the pairs and notifies its clients.
ConnectAll(pairs) ==
    /\ links' = links \cup pairs
    /\ queue' = queue \o Changes(pairs, TRUE)
    /\ dirty' = (dirty \/ pairs # {})

\* After start(), which runs before the timers: the connections that were there
\* are saved, and the saved ones are made (some of them just now).
Init ==
    /\ \E assigned \in [Port -> Id \cup {NoId}], saved \in SUBSET Pair, made \in SUBSET Pair :
          /\ \A p, q \in Port : assigned[p] = assigned[q] /\ p # q => assigned[p] = NoId
          /\ idOf = assigned
          /\ usedIds = {assigned[p] : p \in Port} \ {NoId}
          /\ links = {p \in saved : assigned[p[1]] # NoId /\ assigned[p[2]] # NoId}
          /\ outs = saved
          /\ ins = saved
          /\ made \subseteq links
          /\ queue = Changes(made, TRUE)
          /\ dirty = (made # {})
    /\ prevCount = 0
    /\ batch = <<>>
    /\ pending = <<>>
    /\ auto = TRUE
    /\ monitor = TRUE
    /\ events = 0
    /\ cut = {}
    /\ blind = FALSE
    /\ reused = FALSE

-----------------------------------------------------------------------------
(* JACK's clients and its users.  JACK's callbacks queue notifications. *)

Register(p) ==
    /\ Event
    /\ ~Present(p)
    /\ \E id \in Id \ {idOf[q] : q \in Port} :
          /\ idOf' = [idOf EXCEPT ![p] = id]
          /\ usedIds' = usedIds \cup {id}
          /\ reused' = (reused \/ id \in usedIds)
          /\ queue' = Append(queue, Registration(id))
    /\ dirty' = TRUE
    /\ UNCHANGED <<links, prevCount, batch, pending, outs, ins, auto, monitor, cut, blind>>

\* A client ends: its port is disconnected, then unregistered.  The notification
\* of an unregistration is ignored, and left out.
Unregister(p) ==
    /\ Event
    /\ Present(p)
    /\ LET gone == {l \in links : p \in {l[1], l[2]}}
       IN  /\ links' = links \ gone
           /\ queue' = queue \o Changes(gone, FALSE)
    /\ idOf' = [idOf EXCEPT ![p] = NoId]
    /\ dirty' = TRUE
    /\ UNCHANGED <<usedIds, reused, prevCount, batch, pending, outs, ins, auto, monitor, cut, blind>>

UserConnect(p) ==
    /\ Event
    /\ p \in PresentPairs \ links
    /\ ConnectAll({p})
    /\ UNCHANGED <<idOf, usedIds, reused, prevCount, batch, pending, outs, ins, auto, monitor, cut, blind>>

UserDisconnect(p) ==
    /\ Event
    /\ p \in links
    /\ links' = links \ {p}
    /\ queue' = queue \o Changes({p}, FALSE)
    /\ dirty' = TRUE
    /\ cut' = cut \cup {p}
    /\ UNCHANGED <<idOf, usedIds, reused, prevCount, batch, pending, outs, ins, auto, monitor, blind>>

GraphReordered ==
    /\ dirty
    /\ dirty' = FALSE
    /\ queue' = Append(queue, Reorder)
    /\ UNCHANGED <<idOf, usedIds, reused, links, prevCount, batch, pending, outs, ins, auto, monitor,
                   events, cut, blind>>

-----------------------------------------------------------------------------
(* The main thread. *)

\* Mutant: the count is only updated while the queue grows.
SlowTimerCountingUp ==
    /\ batch = <<>>
    /\ IF Len(queue) > prevCount
       THEN prevCount' = Len(queue) /\ UNCHANGED <<queue, batch>>
       ELSE /\ prevCount > 0 /\ Len(queue) = prevCount
            /\ batch' = queue
            /\ queue' = <<>>
            /\ UNCHANGED prevCount
    /\ UNCHANGED <<jack, pending, outs, ins, auto, monitor, events, cut, blind>>

\* processJackNotifications(): the queue is taken when its length is that of the
\* previous tick.
SlowTimer ==
    /\ batch = <<>>
    /\ IF prevCount # Len(queue)
       THEN prevCount' = Len(queue) /\ UNCHANGED <<queue, batch>>
       ELSE /\ prevCount > 0
            /\ batch' = queue
            /\ queue' = <<>>
            /\ UNCHANGED prevCount
    /\ UNCHANGED <<jack, pending, outs, ins, auto, monitor, events, cut, blind>>

HandleChange ==
    /\ batch # <<>> /\ Head(batch).type = "connect"
    /\ batch' = Tail(batch)
    /\ pending' = Append(pending, Head(batch))
    /\ UNCHANGED <<jack, queue, prevCount, outs, ins, auto, monitor, events, cut, blind>>

\* Mutant: a reordering saves the graph as it is.
HandleReorderAsSnapshot ==
    /\ batch # <<>> /\ Head(batch).type = "reorder"
    /\ batch' = Tail(batch)
    /\ pending' = <<>>
    /\ SetMaps([out |-> links, in |-> links])
    /\ UNCHANGED <<jack, queue, prevCount, auto, monitor, events, cut, blind>>

\* One pending change, if both ids belong to ports now.
Apply(maps, c) ==
    LET of == {p \in Pair : idOf[p[1]] = c.a /\ idOf[p[2]] = c.b}
    IN  IF of = {} THEN maps ELSE Save(maps, CHOOSE p \in of : TRUE, c.connect)

\* The pending changes, in their order.
ApplyAll(maps, changes) == FoldLeft(Apply, maps, changes)

\* jackOnGraphReordered()
HandleReorder ==
    /\ batch # <<>> /\ Head(batch).type = "reorder"
    /\ batch' = Tail(batch)
    /\ pending' = <<>>
    /\ SetMaps(ApplyAll([out |-> outs, in |-> ins], pending))
    /\ UNCHANGED <<jack, queue, prevCount, auto, monitor, events, cut, blind>>

HandleRegistration ==
    /\ batch # <<>> /\ Head(batch).type = "registration"
    /\ batch' = Tail(batch)
    /\ ConnectAll(IF auto
                  THEN ToConnect([out |-> outs, in |-> ins], {p \in Port : idOf[p] = Head(batch).id})
                  ELSE {})
    /\ UNCHANGED <<idOf, usedIds, reused, prevCount, pending, outs, ins, auto, monitor, events, cut, blind>>

\* A client of the server switches monitoring: switched on, it saves everything.
SetMonitor ==
    /\ Event
    /\ batch = <<>>
    /\ monitor' = ~monitor
    /\ blind' = TRUE
    /\ SetMaps(SaveAll([out |-> outs, in |-> ins], ~monitor))
    /\ UNCHANGED <<jack, queue, prevCount, batch, pending, auto, cut>>

\* A client of the server switches connecting: switched on, it connects everything.
SetAuto ==
    /\ Event
    /\ batch = <<>>
    /\ auto' = ~auto
    /\ ConnectAll(IF auto THEN {} ELSE ToConnect([out |-> outs, in |-> ins], Port))
    /\ UNCHANGED <<idOf, usedIds, reused, prevCount, batch, pending, outs, ins, monitor, cut, blind>>

-----------------------------------------------------------------------------
Next ==
    \/ \E p \in Port : Register(p) \/ Unregister(p)
    \/ \E p \in Pair : UserConnect(p) \/ UserDisconnect(p)
    \/ GraphReordered
    \/ SlowTimer \/ HandleChange \/ HandleReorder \/ HandleRegistration
    \/ SetMonitor \/ SetAuto

Spec == Init /\ [][Next]_vars

\* JACK announces its reorderings and the timers of the main loop go off.
Fairness ==
    /\ WF_vars(GraphReordered)
    /\ WF_vars(SlowTimer)
    /\ WF_vars(HandleChange \/ HandleReorder \/ HandleRegistration)

FairSpec == Spec /\ Fairness

-----------------------------------------------------------------------------
\* The two maps are the same relation, read from either side: what is written to
\* the configuration file (the outputs) is what both kinds of ports come back to.
SameMaps == outs = ins

\* Everything JACK reported has been handled.
Settled == ~dirty /\ queue = <<>> /\ batch = <<>> /\ pending = <<>>

\* Once everything is handled every connection in JACK is saved: changes that
\* happen while earlier ones wait, or are looked up too late, are not lost.
LinksSaved == Settled /\ monitor => links \subseteq outs

\* Once everything is handled every saved connection whose ports are present is
\* made, unless the server could not see its user undo it.
SavedLinked == Settled /\ auto /\ ~blind => outs \cap PresentPairs \subseteq links

\* Once the notifications are handled, the saved connections and JACK's are the
\* same as far as the server could see: nothing between a notification and its
\* handling is lost (processJackNotifications, savePortConnection).
SavedAsLinked == TypeOK /\ LinksSaved /\ SavedLinked

\* The server settles: the debouncing neither starves nor forgets a notification
\* when users and clients stop.
EventuallySettled == <>[]Settled

\* JackPortAutoConnect.cpp:290 "There was a disconnect because a client
\* disconnected.  Don't save it": a saved connection is forgotten only after
\* a user undid it.
ExitIsNotSaved == [][outs \ outs' \subseteq cut]_vars

\* While JACK gives new ports new ids, no client that ends makes the server forget
\* a saved connection, whenever its notifications are handled (the port of an id is
\* looked up after the notification was queued).
FreshExitIsNotSaved == [][~reused => outs \ outs' \subseteq cut]_vars

-----------------------------------------------------------------------------
(* The inductive strengthening of the properties above. *)

\* JACK's ids tell its ports apart, and were all given before.
IdsInv ==
    /\ \A p, q \in Port : Present(p) /\ idOf[p] = idOf[q] => p = q
    /\ \A p \in Port : Present(p) => idOf[p] \in usedIds

IsChange(n, a, b) == n.type = "connect" /\ n.a = a /\ n.b = b

\* Among some notifications, the last change of the ports with ids a and b is a
\* connection (or a disconnection), or there is none.
Latest(s, a, b, connect) ==
    \E i \in DOMAIN s :
        /\ IsChange(s[i], a, b) /\ s[i].connect = connect
        /\ \A j \in DOMAIN s : IsChange(s[j], a, b) => j <= i
Silent(s, a, b) == \A i \in DOMAIN s : ~IsChange(s[i], a, b)

\* Every notification that is not handled yet, from the oldest on.
Unhandled == pending \o (batch \o queue)

Linked(a, b) == \E p \in links : idOf[p[1]] = a /\ idOf[p[2]] = b

\* Whatever ports they belong to by now, the last change of two ids says whether
\* there is a connection between them.
LatestInv ==
    \A a, b \in Id :
        /\ Latest(Unhandled, a, b, TRUE) => Linked(a, b)
        /\ Latest(Unhandled, a, b, FALSE) => ~Linked(a, b)

\* A connection that nothing is reported of is saved.
SavedInv ==
    monitor => \A p \in links : Silent(Unhandled, idOf[p[1]], idOf[p[2]]) => p \in outs

\* A saved connection that nothing is reported of is made, or one of its ports is
\* about to be found registered.
LinkedInv ==
    auto /\ ~blind =>
        \A p \in (outs \cap PresentPairs) \ links :
            Silent(Unhandled, idOf[p[1]], idOf[p[2]]) =>
                \E i \in {1, 2} : Registration(idOf[p[i]]) \in ToSet(Unhandled)

\* A disconnection whose ids belong to ports was a user's, unless an id came back.
CutInv ==
    \A c \in ToSet(Unhandled) :
        c.type = "connect" =>
            /\ c.a \in usedIds /\ c.b \in usedIds
            /\ ~reused /\ ~c.connect =>
                  \A p \in Pair : idOf[p[1]] = c.a /\ idOf[p[2]] = c.b => p \in cut

IInv ==
    /\ TypeOK /\ IdsInv /\ LatestInv /\ SavedInv /\ LinkedInv /\ CutInv
    /\ SameMaps
    /\ ~blind => monitor
=============================================================================
