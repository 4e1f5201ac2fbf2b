------------------------------ MODULE ServerLoop ------------------------------
(***************************************************************************)
(* The start and the end of the server: main() and ControlInterface run    *)
(* libuv's loop, which ends when no referenced handle is left: the         *)
(* terminal, the UDP and TCP servers and the TCP clients.  The timers, the *)
(* signal handlers and the async handles are not referenced.  An iteration *)
(* calls the callbacks of what is ready, in any order, then the callbacks  *)
(* of the handles that are closing.  uv_close on a handle that is closing  *)
(* or closed aborts the program (libuv asserts it), and on one that was    *)
(* never initialised its effect is undefined.                              *)
(***************************************************************************)
EXTENDS Naturals, FiniteSets

CONSTANTS
    Client,     \* connections of programs to the TCP server
    MaxSends    \* bound: UDP messages being sent

VARIABLES
    handle,     \* the state of each referenced handle of the loop; an "idle" one
                \* is initialised and waits for nothing
    started,    \* OscServer::started: the UDP server may send
    sends,      \* UDP messages handed to libuv and not done
    request,    \* shutdownRequest: "set", "sent" or "reset"
    jack,       \* the monitoring client of JACK runs
    served,     \* history: asked to stop once, with each handle there to be closed once
    state       \* "init", "running", "ended", "aborted" or "undefined"

loopVars == <<handle, started, sends, request, jack, served, state>>

Handle == {"tty", "tcp", "udp"} \cup Client

TypeOK ==
    /\ handle \in [Handle -> {"none", "idle", "open", "closing", "closed"}]
    /\ started \in BOOLEAN /\ jack \in BOOLEAN /\ served \in BOOLEAN
    /\ sends \in 0..MaxSends
    /\ request \in {"set", "sent", "reset"}
    /\ state \in {"init", "running", "ended", "aborted", "undefined"}

Init ==
    /\ handle = [h \in Handle |-> "none"]
    /\ started = FALSE /\ sends = 0 /\ request = "set" /\ jack = FALSE
    /\ served = FALSE /\ state = "init"

(* ControlInterface::init and the rest of main().  Each server may fail,    *)
(* which is only logged: before its handle is initialised, or when it binds *)
(* or begins to listen, which leaves it idle.  There may be no terminal,    *)
(* and no JACK server.                                                      *)
Start ==
    /\ state = "init" /\ state' = "running"
    /\ \E tcp, udp \in {"none", "idle", "open"}, tty \in {"none", "open"} :
         /\ handle' = [handle EXCEPT !["tcp"] = tcp, !["udp"] = udp, !["tty"] = tty]
         /\ started' = (udp = "open")
    /\ jack' \in BOOLEAN
    /\ UNCHANGED <<sends, request, served>>

Live(h) == handle[h] \in {"open", "closing"}
Clients == {c \in Client : Live(c)}


(* What ControlInterface::stop closes: both servers and every client that   *)
(* is still in the list.                                                    *)
Stopped == {"tcp", "udp"} \cup Clients

(* uv_close on each handle of H, in turn. *)
CloseAll(H) ==
    /\ handle' = [h \in Handle |-> IF h \in H THEN "closing" ELSE handle[h]]
    /\ state' = IF \E h \in H : handle[h] \in {"closing", "closed"} THEN "aborted"
                ELSE IF \E h \in H : handle[h] = "none" THEN "undefined"
                ELSE "running"

(* What stop() closes can be closed: both servers got as far as their       *)
(* handles, and no client is ending.                                        *)
Closable == \A h \in Stopped : handle[h] \in {"idle", "open"}

(* Enter, or the end of the terminal's input. *)
OnTtyRead ==
    /\ state = "running" /\ handle["tty"] = "open"
    /\ CloseAll(Stopped \cup {"tty"})
    /\ jack' = FALSE
    /\ served' = (request = "set" /\ Closable)
    /\ UNCHANGED <<started, sends, request>>

(* JACK's thread tells that its server ends: asyncStop reads the pointer    *)
(* the main thread resets.                                                  *)
JackShutdown ==
    /\ state = "running" /\ jack
    /\ jack' = FALSE
    /\ request' = IF request = "set" THEN "sent" ELSE request
    /\ UNCHANGED <<handle, started, sends, served, state>>

(* JACK's end stops the server and leaves the terminal open. *)
OnShutdownRequest ==
    /\ state = "running" /\ request = "sent"
    /\ request' = "reset"
    /\ CloseAll(Stopped)
    /\ UNCHANGED <<started, sends, jack>>
    /\ served' = (handle["tty"] = "none" /\ Closable)

(* OscTcpServer::onConnection, OscTcpClient::startRead: a connection whose  *)
(* accept or first read fails is closed at once.                            *)
OnConnection(c) ==
    /\ state = "running" /\ handle["tcp"] = "open"
    /\ handle[c] \in {"none", "closed"}
    /\ \E s \in {"open", "closing"} : handle' = [handle EXCEPT ![c] = s]
    /\ UNCHANGED <<started, sends, request, jack, served, state>>

(* OscTcpClient::onReadData: the end of the connection, or an error. *)
OnClientEnd(c) ==
    /\ state = "running" /\ handle[c] = "open"
    /\ handle' = [handle EXCEPT ![c] = "closing"]
    /\ UNCHANGED <<started, sends, request, jack, served, state>>

(* OscServer::sendOscData, before the stop; the loop waits for its end. *)
SendOverUdp ==
    /\ state = "running" /\ started /\ sends < MaxSends
    /\ handle["udp"] = "open"
    /\ sends' = sends + 1
    /\ UNCHANGED <<handle, started, request, jack, served, state>>

OnWriteDone ==
    /\ state = "running" /\ sends > 0
    /\ sends' = sends - 1
    /\ UNCHANGED <<handle, started, request, jack, served, state>>

(* The end of an iteration: the closing handles are closed (a client leaves *)
(* the list in onClose) and the loop ends when nothing referenced is left.  *)
EndIteration ==
    /\ state = "running"
    /\ handle' = [h \in Handle |-> IF handle[h] = "closing" THEN "closed" ELSE handle[h]]
    /\ state' = IF sends = 0 /\ \A h \in Handle : handle[h] # "open"
                THEN "ended" ELSE "running"
    /\ UNCHANGED <<started, sends, request, jack, served>>

(* SIGTERM, SIGINT or SIGHUP: exit(0), at any moment the loop polls. *)
OnSigTerm ==
    /\ state = "running" /\ state' = "ended"
    /\ UNCHANGED <<handle, started, sends, request, jack, served>>

Next ==
    \/ Start \/ OnTtyRead \/ JackShutdown \/ OnShutdownRequest
    \/ \E c \in Client : OnConnection(c) \/ OnClientEnd(c)
    \/ SendOverUdp \/ OnWriteDone \/ EndIteration \/ OnSigTerm

(* The loop goes on iterating, a send ends, and a wake-up is delivered. *)
Fairness ==
    /\ WF_loopVars(Start) /\ WF_loopVars(EndIteration)
    /\ WF_loopVars(OnWriteDone) /\ WF_loopVars(OnShutdownRequest)

Spec == Init /\ [][Next]_loopVars /\ Fairness

=============================================================================
