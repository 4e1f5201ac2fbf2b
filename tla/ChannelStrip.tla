---------------------------- MODULE ChannelStrip ----------------------------
(***************************************************************************)
(* One channel strip: a client of JACK that processes audio through an     *)
(* endpoint (a loopback, a sound device, a network stream).  The main      *)
(* thread creates the endpoint when the type changes, and opens and closes *)
(* the client as the strip is enabled and disabled.  JACK's audio thread   *)
(* calls the strip while the client is active and uses the endpoint        *)
(* without a lock.                                                         *)
(*                                                                         *)
(* The strip has a display name, which JACK's other programs see as the    *)
(* "pretty name" property of the client and may change there.  The main    *)
(* thread writes the property, some time after the display name changed;   *)
(* JACK's notification thread takes changes of the property over into the  *)
(* display name.                                                           *)
(*                                                                         *)
(* JACK is external: it may refuse a client, deactivation waits for the    *)
(* audio callback, closing for the notification callback, and each change  *)
(* of the property is notified once.                                       *)
(***************************************************************************)
EXTENDS Naturals, Sequences

CONSTANTS
    Name,        \* names of strips
    EmptyName,   \* the empty string
    ClientNames, \* the names users give the client (oscName)
    Type,        \* the types with an endpoint
    NoType,      \* the type None
    NoName,      \* "the client has no such property"
    Foreign,     \* a property that does not begin with the strips' prefix
    MaxEdits     \* bound: what users and other JACK programs do

ASSUME ChannelStripAssumption ==
    /\ {NoName, Foreign} \cap Name = {} /\ NoName # Foreign
    /\ EmptyName \in Name
    /\ ClientNames \subseteq Name
    /\ NoType \notin Type
    /\ MaxEdits \in Nat

VARIABLES
    enableAudio,  \* the configuration has been loaded
    enable,       \* oscEnable
    type,         \* oscType
    name,         \* oscName
    display,      \* oscDisplayName
    requested,    \* displayNameUpdateRequested
    client,       \* client: closed, open or active
    uuid,         \* clientUuid is known
    notified,     \* the property change callback is set
    endpoint,     \* the type of the endpoint there is, or NoType
    playing,      \* the endpoint is started
    pc,           \* the main thread: idle, or where it is in a handler
    writing,      \* the name it is about to write to the property
    audio,        \* the audio thread is in the process callback
    prop,         \* JACK: the pretty name of the client, without the prefix
    changes,      \* JACK: changes of the property to notify
    jack,         \* the notification thread: idle, or the name it is about to assign
    edits         \* edits so far

strip == <<enableAudio, enable, type, name>>
names == <<display, requested, writing, prop, changes, jack>>
vars == <<strip, names, client, uuid, notified, endpoint, playing, pc, audio, edits>>

DisplayName ==
    INSTANCE OscVariable WITH
        Wire <- Name, Internal <- Name, Valid <- Name,
        FromOsc <- [n \in Name |-> n], ToOsc <- [n \in Name |-> n]

Idle == [doing |-> "idle"]
Assign(n) == [doing |-> "assign", name |-> n]
Reset == [doing |-> "reset"]

TypeOK ==
    /\ {enableAudio, enable, requested, uuid, notified, playing, audio} \subseteq BOOLEAN
    /\ {type, endpoint} \subseteq Type \cup {NoType}
    /\ {name, writing} \subseteq Name
    /\ display \in DisplayName!OscVar
    /\ client \in {"closed", "open", "active"}
    /\ pc \in {"idle", "start", "name", "property", "activate", "close", "stop"}
    /\ prop \in Name \cup {NoName, Foreign}
    /\ changes \in Seq({"changed", "deleted"})
    /\ jack \in {Idle, Reset} \cup {Assign(n) : n \in Name}
    /\ edits \in 0..MaxEdits

\* As constructed, or with the configuration loaded: nothing is checked against
\* anything before activate().  The default of the display name is the number of
\* the strip.
Init ==
    /\ enableAudio = FALSE
    /\ enable \in BOOLEAN
    /\ type \in Type \cup {NoType}
    /\ name \in ClientNames
    /\ display \in {d \in DisplayName!OscVar : d.isDefault => d.value # EmptyName}
    /\ requested = TRUE
    /\ client = "closed"
    /\ uuid = FALSE
    /\ notified = FALSE
    /\ endpoint = type
    /\ playing = FALSE
    /\ pc = "idle"
    /\ writing = EmptyName
    /\ audio = FALSE
    /\ prop = NoName
    /\ changes = <<>>
    /\ jack = Idle
    /\ edits = 0

Edit == edits < MaxEdits /\ edits' = edits + 1

-----------------------------------------------------------------------------
(* Requests to the main thread. *)

\* Mutant: a client that could not be activated is not closed.
StateUpdateActiveOnly(enabled) ==
    IF enableAudio' /\ enabled /\ client = "closed" /\ endpoint # NoType THEN "start"
    ELSE IF enableAudio' /\ ~enabled /\ client = "active" THEN "close"
    ELSE "idle"

\* updateEnabledState(): where the main thread goes when oscEnable has changed.
StateUpdate(enabled) ==
    IF enableAudio' /\ enabled /\ client = "closed" /\ endpoint # NoType THEN "start"
    ELSE IF enableAudio' /\ ~enabled /\ client # "closed" THEN "close"
    ELSE "idle"

\* activate(), once the configuration is loaded.
Activate ==
    /\ pc = "idle"
    /\ ~enableAudio
    /\ enableAudio' = TRUE
    /\ pc' = StateUpdate(enable)
    /\ UNCHANGED <<enable, type, name, names, client, uuid, notified, endpoint, playing, audio, edits>>

\* The check callback of oscEnable.
MayEnable(enabled) == enabled => endpoint # NoType

SetEnable(enabled) ==
    /\ Edit
    /\ pc = "idle"
    /\ enableAudio
    /\ enabled # enable
    /\ MayEnable(enabled)
    /\ enable' = enabled
    /\ UNCHANGED <<enableAudio, type, name>>
    /\ pc' = StateUpdate(enabled)
    /\ UNCHANGED <<names, client, uuid, notified, endpoint, playing, audio>>

\* Mutant: the type and the client's name may change at any time.
MayChangeAlways == TRUE

\* The check callbacks of oscType, oscName (and oscNumChannel).
MayChange == client = "closed"

\* updateType() makes the endpoint of the new type.
SetType(t) ==
    /\ Edit
    /\ pc = "idle"
    /\ enableAudio
    /\ t # type
    /\ MayChange
    /\ type' = t
    /\ endpoint' = t
    /\ playing' = FALSE
    /\ UNCHANGED <<enableAudio, enable, name, names, client, uuid, notified, pc, audio>>

SetName(n) ==
    /\ Edit
    /\ pc = "idle"
    /\ enableAudio
    /\ n # name
    /\ MayChange
    /\ name' = n
    /\ UNCHANGED <<enableAudio, enable, type, names, client, uuid, notified, endpoint, playing, pc, audio>>

SetDisplay(n) ==
    /\ Edit
    /\ pc = "idle"
    /\ enableAudio
    /\ LET r == DisplayName!SetFromOsc(display, n, TRUE)
       IN  display' = r.var /\ requested' = (requested \/ r.changed)
    /\ UNCHANGED <<strip, writing, prop, changes, jack, client, uuid, notified, endpoint, playing, pc,
                   audio>>

-----------------------------------------------------------------------------
(* The main thread: start(), stop(), onFastTimer(). *)

\* jack_client_open() or the registration of a port fails.
StartFails ==
    /\ pc = "start"
    /\ pc' = "idle"
    /\ UNCHANGED <<strip, names, client, uuid, notified, endpoint, playing, audio, edits>>

\* The client and its ports are there, the endpoint is started, and the client's
\* uuid is asked for.
Open ==
    /\ pc = "start"
    /\ client' = "open"
    /\ playing' = TRUE
    /\ uuid' \in BOOLEAN
    /\ prop' = NoName
    /\ changes' = <<>>
    /\ pc' = "name"
    /\ UNCHANGED <<strip, display, requested, writing, jack, notified, endpoint, audio, edits>>

FastTimer ==
    /\ pc = "idle"
    /\ client # "closed"
    /\ requested
    /\ requested' = FALSE
    /\ pc' = "name"
    /\ UNCHANGED <<strip, display, writing, prop, changes, jack, client, uuid, notified, endpoint,
                   playing, audio, edits>>

\* What follows updateJackDisplayName(): the rest of start(), or nothing.
AfterName == IF notified THEN "idle" ELSE "activate"

\* updateJackDisplayName(): the name is read, and an empty one replaced.
ReadName ==
    /\ pc = "name"
    /\ IF uuid /\ display.value # EmptyName
       THEN /\ writing' = display.value
            /\ pc' = "property"
            /\ UNCHANGED <<display, requested>>
       ELSE /\ LET r == DisplayName!ForceDefault(display, name, TRUE)
               IN  IF uuid
                   THEN display' = r.var /\ requested' = (requested \/ r.changed)
                   ELSE UNCHANGED <<display, requested>>
            /\ pc' = AfterName
            /\ UNCHANGED writing
    /\ UNCHANGED <<strip, prop, changes, jack, client, uuid, notified, endpoint, playing, audio, edits>>

\* jack_set_property().  The notification of a change made before the callback is
\* set may be delivered or not.
WriteProperty ==
    /\ pc = "property"
    /\ prop' = writing
    /\ \/ changes' = Append(changes, "changed")
       \/ ~notified /\ UNCHANGED changes
    /\ pc' = AfterName
    /\ UNCHANGED <<strip, display, requested, writing, jack, client, uuid, notified, endpoint, playing,
                   audio, edits>>

\* jack_activate(), which may fail: the client stays open then.
ActivateClient ==
    /\ pc = "activate"
    /\ notified' = TRUE
    /\ client' \in {"open", "active"}
    /\ pc' = "idle"
    /\ UNCHANGED <<strip, names, uuid, endpoint, playing, audio, edits>>

\* jack_deactivate() waits for the audio thread, jack_client_close() for the
\* notification thread; the property goes with the client.
Close ==
    /\ pc = "close"
    /\ ~audio
    /\ jack = Idle
    /\ client' = "closed"
    /\ notified' = FALSE
    /\ prop' = NoName
    /\ changes' = <<>>
    /\ pc' = "stop"
    /\ UNCHANGED <<strip, display, requested, writing, jack, uuid, endpoint, playing, audio, edits>>

StopEndpoint ==
    /\ pc = "stop"
    /\ playing' = FALSE
    /\ pc' = "idle"
    /\ UNCHANGED <<strip, names, client, uuid, notified, endpoint, audio, edits>>

-----------------------------------------------------------------------------
(* JACK's audio thread. *)

AudioEnter ==
    /\ client = "active"
    /\ ~audio
    /\ audio' = TRUE
    /\ UNCHANGED <<strip, names, client, uuid, notified, endpoint, playing, pc, edits>>

AudioLeave ==
    /\ audio
    /\ audio' = FALSE
    /\ UNCHANGED <<strip, names, client, uuid, notified, endpoint, playing, pc, edits>>

-----------------------------------------------------------------------------
(* Other programs change the property; JACK's notification thread. *)

OtherSetsProperty(n) ==
    /\ Edit
    /\ client # "closed"
    /\ prop' = n
    /\ changes' = Append(changes, "changed")
    /\ UNCHANGED <<strip, display, requested, writing, jack, client, uuid, notified, endpoint, playing,
                   pc, audio>>

OtherDeletesProperty ==
    /\ Edit
    /\ client # "closed"
    /\ prop # NoName
    /\ prop' = NoName
    /\ changes' = Append(changes, "deleted")
    /\ UNCHANGED <<strip, display, requested, writing, jack, client, uuid, notified, endpoint, playing,
                   pc, audio>>

\* Mutant: the prefix of the property is not checked.
JackReadAnything ==
    /\ client # "closed" /\ notified
    /\ jack = Idle
    /\ changes # <<>>
    /\ changes' = Tail(changes)
    /\ jack' = IF ~uuid THEN Idle
               ELSE IF Head(changes) = "deleted" THEN Reset
               ELSE IF prop # NoName THEN Assign(prop)
               ELSE Idle
    /\ UNCHANGED <<strip, display, requested, writing, prop, client, uuid, notified, endpoint, playing,
                   pc, audio, edits>>

\* onJackPropertyChangeCallback() until it has read the property as it is now.
JackRead ==
    /\ client # "closed" /\ notified
    /\ jack = Idle
    /\ changes # <<>>
    /\ changes' = Tail(changes)
    /\ jack' = IF ~uuid THEN Idle
               ELSE IF Head(changes) = "deleted" THEN Reset
               ELSE IF prop \in Name THEN Assign(prop)
               ELSE Idle
    /\ requested' = (requested \/ (uuid /\ Head(changes) = "changed" /\ prop = Foreign))
    /\ UNCHANGED <<strip, display, writing, prop, client, uuid, notified, endpoint, playing, pc, audio,
                   edits>>

\* Mutant: what the property changed requests no update of the property.
JackAssignQuietly ==
    /\ jack # Idle
    /\ display' = IF jack = Reset THEN DisplayName!ForceDefault(display, name, TRUE).var
                  ELSE DisplayName!Set(display, jack.name, TRUE, FALSE).var
    /\ jack' = Idle
    /\ UNCHANGED <<strip, requested, writing, prop, changes, client, uuid, notified, endpoint, playing,
                   pc, audio, edits>>

\* And from there on.
JackAssign ==
    /\ jack # Idle
    /\ LET r == IF jack = Reset THEN DisplayName!ForceDefault(display, name, TRUE)
                ELSE DisplayName!Set(display, jack.name, TRUE, FALSE)
       IN  display' = r.var /\ requested' = (requested \/ r.changed)
    /\ jack' = Idle
    /\ UNCHANGED <<strip, writing, prop, changes, client, uuid, notified, endpoint, playing, pc, audio,
                   edits>>

-----------------------------------------------------------------------------
Next ==
    \/ Activate
    \/ \E enabled \in BOOLEAN : SetEnable(enabled)
    \/ \E t \in Type \cup {NoType} : SetType(t)
    \/ \E n \in ClientNames : SetName(n)
    \/ \E n \in Name : SetDisplay(n)
    \/ StartFails \/ Open \/ FastTimer \/ ReadName \/ WriteProperty \/ ActivateClient
    \/ Close \/ StopEndpoint
    \/ AudioEnter \/ AudioLeave
    \/ \E n \in Name \cup {Foreign} : OtherSetsProperty(n)
    \/ OtherDeletesProperty
    \/ JackRead \/ JackAssign

Spec == Init /\ [][Next]_vars

-----------------------------------------------------------------------------
\* The audio thread finds the endpoint of the strip's type, and finds it started:
\* neither a change of the type nor the end of the strip takes it away meanwhile.
AudioHasEndpoint == audio => endpoint # NoType /\ endpoint = type /\ playing

\* A strip has a client in JACK only while it is enabled: however enabling,
\* type changes, failures and the loading of the configuration follow one another.
ClientOnlyIfEnabled == pc = "idle" /\ client # "closed" => enable

\* What JACK's programs show as the name of the client.
ShownName == IF prop = NoName THEN name ELSE prop

\* No change of the display name or of the property is still to be handled.
NamesQuiet ==
    client # "closed" /\ uuid /\ pc = "idle" /\ ~requested /\ changes = <<>> /\ jack = Idle

\* README.md:46 "Display Name: name shown in QJackCtl and in DAMC GUI": once
\* both threads have done their work the two show the same name, whatever users
\* and other programs set at the same time.
NamesAgree == NamesQuiet => ShownName = display.value

-----------------------------------------------------------------------------
(* The inductive strengthening of AudioHasEndpoint and ClientOnlyIfEnabled. *)

\* What each state of the client says about the endpoint and about where the main
\* thread is.
ClientInv ==
    /\ endpoint = type
    /\ client # "closed" => playing /\ endpoint # NoType /\ enableAudio
    /\ client = "active" => notified
    /\ notified => client # "closed"
    /\ audio => client = "active"

\* Where the main thread is says what it has left to do.
HandlerInv ==
    /\ pc = "start" => client = "closed" /\ endpoint # NoType /\ enable /\ enableAudio
    /\ pc \in {"name", "property", "activate", "close"} => client # "closed"
    /\ pc = "activate" => ~notified
    /\ pc = "stop" => client = "closed"
    /\ pc \in {"name", "property", "activate"} => enable

IInv == TypeOK /\ ClientInv /\ HandlerInv /\ ClientOnlyIfEnabled

-----------------------------------------------------------------------------
(* The inductive strengthening of NamesAgree, for users who give the client a *)
(* name.                                                                      *)

\* The change of the property that will be notified last.
NewestChange(c) == changes # <<>> /\ changes[Len(changes)] = c

\* The main thread is about to write the property.
Updating == pc \in {"name", "property"}

\* The property and the display name agree, or somebody is still to make them
\* agree: the main thread, which writes the display name or was asked to, or the
\* notification thread, which assigns the property or is yet to read it.  A property
\* that JACK will report as deleted last was deleted or, before notifications were
\* set up, written again with the display name.
NamesInv ==
    /\ name \in ClientNames
    /\ ~notified => jack = Idle
    /\ client # "closed" /\ uuid =>
          /\ pc = "property" => requested \/ writing = display.value
          /\ NewestChange("changed") => prop # NoName
          /\ changes = <<>> /\ jack \notin {Idle, Reset} => prop = jack.name
          /\ NewestChange("deleted") \/ (changes = <<>> /\ jack = Reset) =>
                prop = NoName \/ prop = display.value \/ requested \/ Updating
          /\ changes = <<>> /\ jack = Idle =>
                ShownName = display.value \/ requested \/ Updating
=============================================================================
