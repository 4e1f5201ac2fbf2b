------------------------------- MODULE Hotkeys -------------------------------
(***************************************************************************)
(* The hotkeys of the server (damc_server/KeyBinding.cpp, built for        *)
(* Windows).  Three actors: the main loop posts the bindings asked for     *)
(* over OSC to the thread of the hotkeys; that thread owns the bindings,   *)
(* takes its messages one by one and hands the addresses of a pressed key  *)
(* over under a mutex; the main loop, woken by an async handle that        *)
(* coalesces its wake-ups, takes them and triggers them.                   *)
(***************************************************************************)
EXTENDS Naturals, Sequences, FiniteSets, SequencesExt

CONSTANTS
    Key,       \* hotkeys: a virtual key with its modifiers
    Address,   \* OSC addresses they trigger
    MaxQueue,  \* bound: messages posted to the thread and not yet read
    MaxPress   \* bound: keys pressed

VARIABLES
    thread,      \* "starting", "running" or "ended"
    queue,       \* the messages posted to the thread
    registered,  \* registeredKeys: the addresses of each bound hotkey
    pending,     \* pendingTriggeredOscAddresses
    signalled,   \* oscTriggerAsync is to call onOscTriggered
    todo,        \* addresses onOscTriggered took and has not triggered
    handed,      \* history: addresses the thread handed over, in order
    triggered,   \* history: addresses triggered, in order
    presses,     \* number of keys pressed
    closing      \* the destructor waits for the thread: the loop has ended

hotkeyVars == <<thread, queue, registered, pending, signalled, todo, handed,
                triggered, presses, closing>>

Message == [type : {"hotkey"}, key : Key]
             \cup [type : {"add", "remove"}, key : Key, address : Address]
             \cup [type : {"quit"}]

HotkeyTypeOK ==
    /\ thread \in {"starting", "running", "ended"}
    /\ queue \in Seq(Message) /\ Len(queue) <= MaxQueue
    /\ DOMAIN registered \subseteq Key
    /\ \A k \in DOMAIN registered : registered[k] \in (SUBSET Address) \ {{}}
    /\ pending \in Seq(Address) /\ todo \in Seq(Address)
    /\ handed \in Seq(Address) /\ triggered \in Seq(Address)
    /\ signalled \in BOOLEAN /\ presses \in 0..MaxPress
    /\ closing \in BOOLEAN

HotkeyInit ==
    /\ thread = "starting" /\ queue = <<>> /\ registered = <<>>
    /\ pending = <<>> /\ signalled = FALSE /\ todo = <<>>
    /\ handed = <<>> /\ triggered = <<>> /\ presses = 0 /\ closing = FALSE

(* The thread tells its identifier and waits for messages. *)
ThreadStart ==
    /\ thread = "starting"
    /\ thread' = "running"
    /\ UNCHANGED <<queue, registered, pending, signalled, todo, handed,
                   triggered, presses, closing>>

(* PostThreadMessage: it fails, and the message is freed, before the thread *)
(* has given its identifier and once it has ended.                          *)
Post(message) ==
    /\ ~closing /\ todo = <<>> /\ Len(queue) < MaxQueue
    /\ queue' = IF thread = "running" THEN Append(queue, message) ELSE queue
    /\ UNCHANGED <<thread, registered, pending, signalled, todo, handed,
                   triggered, presses>>

OscAddShortcut(k, a) ==
    /\ Post([type |-> "add", key |-> k, address |-> a])
    /\ UNCHANGED closing

OscRemoveShortcut(k, a) ==
    /\ Post([type |-> "remove", key |-> k, address |-> a])
    /\ UNCHANGED closing

(* ~KeyBinding, once the main loop has ended. *)
Destroy ==
    /\ Post([type |-> "quit"])
    /\ closing' = TRUE

(* The user presses a bound hotkey: the system posts it to the thread. *)
Press(k) ==
    /\ thread = "running" /\ k \in DOMAIN registered
    /\ Len(queue) < MaxQueue /\ presses < MaxPress
    /\ queue' = Append(queue, [type |-> "hotkey", key |-> k])
    /\ presses' = presses + 1
    /\ UNCHANGED <<thread, registered, pending, signalled, todo, handed, triggered, closing>>

Take(type) ==
    /\ thread = "running" /\ queue # <<>> /\ Head(queue).type = type
    /\ queue' = Tail(queue)

AddressesOf(k) == IF k \in DOMAIN registered THEN registered[k] ELSE {}

(* Mutant: the wake-up is only asked for when nothing waits already.           *)
HandOverFirst(k) ==
    LET addresses == SetToSeq(AddressesOf(k))
    IN  /\ pending' = pending \o addresses
        /\ handed' = handed \o addresses
        /\ signalled' = (signalled \/ (pending = <<>> /\ todo = <<>>))

(* The addresses the thread hands over and the wake-up it asks for, in one  *)
(* section of the mutex.  A std::set: the addresses come in their order.    *)
HandOver(k) ==
    LET addresses == SetToSeq(AddressesOf(k))
    IN  /\ pending' = pending \o addresses
        /\ handed' = handed \o addresses
        /\ signalled' = TRUE

HandleHotkey ==
    /\ Take("hotkey")
    /\ \/ /\ Head(queue).key \in DOMAIN registered
          /\ HandOver(Head(queue).key)
       \/ /\ Head(queue).key \notin DOMAIN registered
          /\ UNCHANGED <<pending, handed, signalled>>
    /\ UNCHANGED <<thread, registered, todo, triggered, presses, closing>>

HandleAdd ==
    /\ Take("add")
    /\ LET k == Head(queue).key
       IN  registered' = [h \in DOMAIN registered \cup {k} |->
                            IF h = k THEN AddressesOf(k) \cup {Head(queue).address}
                                     ELSE registered[h]]
    /\ UNCHANGED <<thread, pending, signalled, todo, handed, triggered, presses, closing>>

(* A key that is not bound ends the thread, and the system drops with it    *)
(* the messages it had not read.                                            *)
HandleRemove ==
    /\ thread = "running" /\ queue # <<>> /\ Head(queue).type = "remove"
    /\ LET k == Head(queue).key
           left == AddressesOf(k) \ {Head(queue).address}
           kept == IF left = {} THEN DOMAIN registered \ {k} ELSE DOMAIN registered
       IN  \/ /\ k \in DOMAIN registered
              /\ queue' = Tail(queue)
              /\ registered' = [h \in kept |-> IF h = k THEN left ELSE registered[h]]
              /\ UNCHANGED thread
           \/ /\ k \notin DOMAIN registered
              /\ thread' = "ended" /\ queue' = <<>> /\ registered' = <<>>
    /\ UNCHANGED <<pending, signalled, todo, handed, triggered, presses, closing>>

HandleQuit ==
    /\ Take("quit")
    /\ thread' = "ended" /\ registered' = <<>>
    /\ UNCHANGED <<pending, signalled, todo, handed, triggered, presses, closing>>

(* The main loop runs the callback of the async handle: the handle may be   *)
(* signalled again from here on.                                            *)
OnOscTriggered ==
    /\ ~closing /\ signalled /\ todo = <<>>
    /\ signalled' = FALSE
    /\ todo' = pending /\ pending' = <<>>
    /\ UNCHANGED <<thread, queue, registered, handed, triggered, presses, closing>>

TriggerAddress ==
    /\ todo # <<>>
    /\ triggered' = Append(triggered, Head(todo))
    /\ todo' = Tail(todo)
    /\ UNCHANGED <<thread, queue, registered, pending, signalled, handed, presses, closing>>

HotkeyNext ==
    \/ ThreadStart \/ Destroy
    \/ \E k \in Key, a \in Address : OscAddShortcut(k, a) \/ OscRemoveShortcut(k, a)
    \/ \E k \in Key : Press(k)
    \/ HandleHotkey \/ HandleAdd \/ HandleRemove \/ HandleQuit
    \/ OnOscTriggered \/ TriggerAddress

HotkeySpec == HotkeyInit /\ [][HotkeyNext]_hotkeyVars

(* Every address a pressed key stands for is triggered once, in the order   *)
(* of the presses: what was handed over is what was triggered, what the     *)
(* callback holds and what waits, and nothing waits without a wake-up       *)
(* (the swap of onOscTriggered against the section of WM_HOTKEY).           *)
NoneForgotten ==
    /\ triggered \o todo \o pending = handed
    /\ pending # <<>> => signalled
=============================================================================
