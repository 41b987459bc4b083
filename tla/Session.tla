-------------------------------- MODULE Session --------------------------------
(***************************************************************************)
(* The life of the server: main's two nested loops (main.c), the sockets   *)
(* (gpr_socket.c), the switches a session owns (the laser, the recording)  *)
(* and the two LEDs of the Arduino that show it.  Beside the main thread   *)
(* run the interrupt thread, which notifies rows over the same socket, the *)
(* battery thread, which writes to the same serial line, the kernel and    *)
(* the app.                                                                *)
(*                                                                         *)
(* Of the app's events only those that change this state are told apart;   *)
(* what a recording does to its file is the subject of Recorder, how bytes *)
(* become events that of FrameParser.                                      *)
(***************************************************************************)
EXTENDS Naturals, Sequences

CONSTANTS MaxSerial,  \* bound: lines on their way to the Arduino
          MaxUnread   \* bound: events received and not yet read

ASSUME BoundsAssumption == MaxSerial \in Nat \ {0} /\ MaxUnread \in Nat \ {0}

VARIABLES
    mpc,             \* main thread: its next statement; "exit" or "dead"
    event,           \* main thread: the event being handled
    server_restart,  \* the global of that name
    listening,       \* server_socket listens
    waiting,         \* a connection waits in the backlog
    lingers,         \* the kernel still holds an old connection on the port
    conn,            \* client_socket: "none", "up", "fin" (the app has closed),
                     \* "lost" (the app is gone without a word), "dead" (the
                     \* kernel knows: reset, or given up)
    alive,           \* keepalive is set on client_socket
    unread,          \* events in the receive buffer
    laser,           \* LASER_PIN and ENCODER_POWER_PIN
    runAcq,          \* acqCon.runAcq
    isr,             \* interrupt thread: "idle", or "row" to be notified
    serial,          \* lines on their way to the Arduino
    green, blue,     \* the Arduino's LEDs for the server and for the client
    onScreen         \* history: the app is on its acquisition screen

mainVars == <<mpc, event, server_restart>>
netVars == <<listening, waiting, lingers, conn, alive, unread>>
acqVars == <<laser, runAcq, onScreen>>
leds == <<green, blue>>
vars == <<mainVars, netVars, acqVars, isr, serial, leds>>

Init ==
    /\ mpc = "ready" /\ event = "none" /\ server_restart = FALSE
    /\ listening = FALSE /\ waiting = FALSE /\ lingers \in BOOLEAN
    /\ conn = "none" /\ alive = FALSE /\ unread = 0
    /\ laser = FALSE /\ runAcq = FALSE /\ onScreen = FALSE
    /\ isr = "idle"
    /\ serial = <<>> /\ green = FALSE /\ blue = FALSE

Stopped == mpc \in {"exit", "dead"}

\* serialPuts.

\* Mutant of Puts: no wait for room on the line.
Mut_PutsAnyway(line) == serial' = Append(serial, line)

Puts(line) == Len(serial) < MaxSerial /\ serial' = Append(serial, line)

\* socket_write by a thread whose process goes on.
Written == UNCHANGED netVars

\* socket_write to a connection the kernel knows to be dead: SIGPIPE has its
\* default action.
WriteKills ==
    /\ conn = "dead"
    /\ mpc' = "dead"
    /\ UNCHANGED <<event, server_restart, netVars, acqVars, isr, serial, leds>>

-----------------------------------------------------------------------------
(* main: the outer loop.                                                    *)

\* socket_ready: without SO_REUSEADDR bind fails while an old connection is held.
Ready ==
    /\ mpc = "ready"
    /\ mpc' = IF lingers THEN "exit" ELSE "serverOn"
    /\ listening' = ~lingers
    /\ UNCHANGED <<event, server_restart, waiting, lingers, conn, alive, unread,
                   acqVars, isr, serial, leds>>

ServerOn ==
    /\ mpc = "serverOn"
    /\ Puts("server on")
    /\ server_restart' = FALSE
    /\ mpc' = "accept"
    /\ UNCHANGED <<event, netVars, acqVars, isr, leds>>

ServerOff ==
    /\ mpc = "serverOff"
    /\ Puts("server off")
    /\ mpc' = "serverDone"
    /\ UNCHANGED <<event, server_restart, netVars, acqVars, isr, leds>>

\* socket_server_done: who waits in the backlog is turned away.  Then
\* wifiRestartCommand, of which only the time it takes matters here.
ServerDone ==
    /\ mpc = "serverDone"
    /\ listening' = FALSE /\ waiting' = FALSE
    /\ mpc' = "ready"
    /\ UNCHANGED <<event, server_restart, lingers, conn, alive, unread, acqVars,
                   isr, serial, leds>>

-----------------------------------------------------------------------------
(* main: the inner loop, one client at a time.                              *)

Accept ==
    /\ mpc = "accept"
    /\ waiting
    /\ waiting' = FALSE
    /\ conn' = "up" /\ unread' = 0
    /\ mpc' = "keepAlive"
    /\ UNCHANGED <<event, server_restart, listening, lingers, alive, acqVars, isr,
                   serial, leds>>

\* Mutant of SetKeepAlive: the option is not set.
Mut_NoKeepAlive ==
    /\ mpc = "keepAlive"
    /\ mpc' = "clientOn"
    /\ UNCHANGED <<event, server_restart, netVars, acqVars, isr, serial, leds>>

SetKeepAlive ==
    /\ mpc = "keepAlive"
    /\ alive' = TRUE
    /\ mpc' = "clientOn"
    /\ UNCHANGED <<event, server_restart, listening, waiting, lingers, conn, unread,
                   acqVars, isr, serial, leds>>

\* close(client_socket): the connection may stay on the port for a while.
CloseClient ==
    /\ conn' = "none" /\ alive' = FALSE /\ unread' = 0
    /\ lingers' \in {lingers, TRUE}
    /\ UNCHANGED <<listening, waiting>>

KeepAliveFails ==
    /\ mpc = "keepAlive"
    /\ CloseClient
    /\ mpc' = "accept"
    /\ UNCHANGED <<event, server_restart, acqVars, isr, serial, leds>>

ClientOn ==
    /\ mpc = "clientOn"
    /\ Puts("client on")
    /\ mpc' = "hello"
    /\ UNCHANGED <<event, server_restart, netVars, acqVars, isr, leds>>

\* CONNECTION_NTF.
Hello ==
    /\ mpc = "hello"
    /\ \/ /\ Written
          /\ mpc' = "receive"
          /\ UNCHANGED <<event, server_restart, acqVars, isr, serial, leds>>
       \/ WriteKills

Events == {"on", "start", "stop", "quit", "wifi", "other"}

Receive ==
    /\ mpc = "receive"
    /\ unread > 0
    /\ unread' = unread - 1
    /\ event' \in Events
    /\ mpc' = "handle"
    /\ UNCHANGED <<server_restart, listening, waiting, lingers, conn, alive, acqVars,
                   isr, serial, leds>>

\* read returns 0 or -1.
ReceiveEnds ==
    /\ mpc = "receive"
    /\ conn = "dead" \/ (conn = "fin" /\ unread = 0)
    /\ mpc' = "stop"
    /\ UNCHANGED <<event, server_restart, netVars, acqVars, isr, serial, leds>>

\* socket_read, up to its answer.  ACQ_START records only with a path;
\* ACQ_ABNORMAL_QUIT has no answer, and neither have some other events.
Handle ==
    /\ mpc = "handle"
    /\ laser' = (laser \/ event = "on")
    /\ CASE event = "start" -> runAcq' \in {runAcq, TRUE}
         [] event \in {"stop", "quit"} -> runAcq' = FALSE
         [] OTHER -> UNCHANGED runAcq
    /\ onScreen' = CASE event = "on" -> TRUE
                     [] event = "quit" -> FALSE
                     [] OTHER -> onScreen
    /\ mpc' \in CASE event \in {"on", "quit"} -> {"receive"}
                  [] event = "other" -> {"receive", "reply"}
                  [] OTHER -> {"reply"}
    /\ UNCHANGED <<event, server_restart, netVars, isr, serial, leds>>

Reply ==
    /\ mpc = "reply"
    /\ \/ /\ Written
          /\ server_restart' = (server_restart \/ event = "wifi")
          /\ mpc' = "receive"
          /\ UNCHANGED <<event, acqVars, isr, serial, leds>>
       \/ WriteKills

\* socket_close: stopAcq, then acqOff.
StopAcq ==
    /\ mpc = "stop"
    /\ runAcq' = FALSE
    /\ mpc' = "off"
    /\ UNCHANGED <<event, server_restart, netVars, laser, onScreen, isr, serial,
                   leds>>

\* Mutant of AcqOff: the laser stays on.
Mut_LaserStays ==
    /\ mpc = "off"
    /\ onScreen' = FALSE
    /\ mpc' = "clientDone"
    /\ UNCHANGED <<event, server_restart, netVars, laser, runAcq, isr, serial, leds>>

AcqOff ==
    /\ mpc = "off"
    /\ laser' = FALSE
    /\ onScreen' = FALSE
    /\ mpc' = "clientDone"
    /\ UNCHANGED <<event, server_restart, netVars, runAcq, isr, serial, leds>>

ClientDone ==
    /\ mpc = "clientDone"
    /\ CloseClient
    /\ mpc' = "clientOff"
    /\ UNCHANGED <<event, server_restart, acqVars, isr, serial, leds>>

\* Mutants of ClientOff: the Arduino is not told; a Wi-Fi change is not acted on.
Mut_ClientOffUntold ==
    /\ mpc = "clientOff"
    /\ mpc' = IF server_restart THEN "serverOff" ELSE "accept"
    /\ UNCHANGED <<event, server_restart, netVars, acqVars, isr, serial, leds>>

Mut_RestartForgotten ==
    /\ mpc = "clientOff"
    /\ Puts("client off")
    /\ mpc' = "accept"
    /\ UNCHANGED <<event, server_restart, netVars, acqVars, isr, leds>>

ClientOff ==
    /\ mpc = "clientOff"
    /\ Puts("client off")
    /\ mpc' = IF server_restart THEN "serverOff" ELSE "accept"
    /\ UNCHANGED <<event, server_restart, netVars, acqVars, isr, leds>>

Main ==
    \/ Ready \/ ServerOn \/ ServerOff \/ ServerDone
    \/ Accept \/ SetKeepAlive \/ KeepAliveFails \/ ClientOn \/ Hello
    \/ Receive \/ ReceiveEnds \/ Handle \/ Reply
    \/ StopAcq \/ AcqOff \/ ClientDone \/ ClientOff

-----------------------------------------------------------------------------
(* The other threads of the process.                                        *)

Edge ==
    /\ ~Stopped
    /\ isr = "idle"
    /\ runAcq
    /\ isr' = "row"
    /\ UNCHANGED <<mainVars, netVars, acqVars, serial, leds>>

\* A row or a step back, told over whatever client_socket is by now.
Notify ==
    /\ ~Stopped
    /\ isr = "row"
    /\ \/ /\ Written
          /\ isr' = "idle"
          /\ UNCHANGED <<mainVars, acqVars, serial, leds>>
       \/ WriteKills

\* Once in five seconds the battery thread sends a buffer nobody has filled: text
\* that the Arduino makes nothing of.  It never takes the last place.
Battery ==
    /\ ~Stopped
    /\ Len(serial) < MaxSerial - 1
    /\ Puts("unset")
    /\ UNCHANGED <<mainVars, netVars, acqVars, isr, leds>>

Others == Edge \/ Notify \/ Battery

-----------------------------------------------------------------------------
(* The Arduino's loop: one line at a time.  Text without an end of line runs *)
(* into the next line, and loop() looks for its words anywhere in a line.    *)

ReadLine ==
    /\ serial # <<>>
    /\ serial' = Tail(serial)
    /\ green' = CASE Head(serial) = "server on" -> TRUE
                  [] Head(serial) = "server off" -> FALSE
                  [] OTHER -> green
    /\ blue' = CASE Head(serial) = "client on" -> TRUE
                 [] Head(serial) = "client off" -> FALSE
                 [] OTHER -> blue
    /\ UNCHANGED <<mainVars, netVars, acqVars, isr>>

-----------------------------------------------------------------------------
(* The kernel and the app.                                                  *)

\* Unanswered probes; an unanswered write ends the same way.
GiveUp ==
    /\ conn = "lost"
    /\ alive
    /\ conn' = "dead"
    /\ UNCHANGED <<mainVars, listening, waiting, lingers, alive, unread, acqVars,
                   isr, serial, leds>>

PortFreed ==
    /\ lingers
    /\ lingers' = FALSE
    /\ UNCHANGED <<mainVars, listening, waiting, conn, alive, unread, acqVars, isr,
                   serial, leds>>

AppConnects ==
    /\ listening /\ ~Stopped
    /\ ~waiting
    /\ waiting' = TRUE
    /\ UNCHANGED <<mainVars, listening, lingers, conn, alive, unread, acqVars, isr,
                   serial, leds>>

AppSends ==
    /\ conn = "up"
    /\ unread < MaxUnread
    /\ unread' = unread + 1
    /\ UNCHANGED <<mainVars, listening, waiting, lingers, conn, alive, acqVars, isr,
                   serial, leds>>

\* The app closes, is switched off or out of range, or resets the connection (as
\* an app does that has closed and is written to).
AppLeaves ==
    /\ \/ conn = "up" /\ conn' \in {"fin", "lost", "dead"}
       \/ conn = "fin" /\ conn' = "dead"
    /\ UNCHANGED <<mainVars, listening, waiting, lingers, alive, unread, acqVars,
                   isr, serial, leds>>

Kernel == GiveUp \/ PortFreed
App == AppConnects \/ AppSends \/ AppLeaves

Next == Main \/ Others \/ ReadLine \/ Kernel \/ App

\* The main thread runs whenever it can, the Arduino reads, the kernel's timers
\* expire.  Nothing is asked of the app, the wheel or the battery thread.
Spec ==
    /\ Init /\ [][Next]_vars
    /\ WF_vars(Main) /\ WF_vars(ReadLine) /\ WF_vars(GiveUp)

-----------------------------------------------------------------------------
(* Properties.                                                              *)

ControlType ==
    /\ mpc \in {"ready", "serverOn", "serverOff", "serverDone", "accept",
                "keepAlive", "clientOn", "hello", "receive", "handle", "reply",
                "stop", "off", "clientDone", "clientOff", "exit", "dead"}
    /\ event \in Events \union {"none"}
    /\ conn \in {"none", "up", "fin", "lost", "dead"}
    /\ isr \in {"idle", "row"}

FlagType ==
    /\ server_restart \in BOOLEAN
    /\ listening \in BOOLEAN /\ waiting \in BOOLEAN /\ lingers \in BOOLEAN
    /\ alive \in BOOLEAN
    /\ laser \in BOOLEAN /\ runAcq \in BOOLEAN /\ onScreen \in BOOLEAN
    /\ green \in BOOLEAN /\ blue \in BOOLEAN

SerialLines == {"server on", "server off", "client on", "client off", "unset"}

QueueType ==
    /\ unread \in 0..MaxUnread
    /\ serial \in Seq(SerialLines)
    /\ Len(serial) <= MaxSerial

\* Types; neither queue outgrows its bound.
TypeOK == ControlType /\ FlagType /\ QueueType

\* Without a client the laser is off, the encoder has no power and nothing is
\* recorded, however the last session ended.
OffBetweenClients ==
    conn = "none" /\ mpc # "dead" => ~laser /\ ~runAcq

\* Once the Arduino has read what was sent, the LEDs show the server and the client
\* as main sees them.
LedsFollow ==
    serial = <<>> =>
        /\ mpc = "accept" => green /\ ~blue
        /\ mpc = "receive" => green /\ blue
        /\ mpc = "ready" => ~green /\ ~blue

\* A client that is gone without a word does not keep the server for ever: its
\* session ends, or the process does.
LostClientEnds == conn = "lost" ~> conn = "none" \/ Stopped

\* A change of the Wi-Fi channel leads, once that client is gone, to a server that
\* was closed and opened again, or to the end of the program.
RestartTakesEffect == server_restart /\ conn # "up" ~> ~server_restart \/ Stopped

-----------------------------------------------------------------------------
(* What comments of the code say of it.                                     *)

\* When the connection is gone the session is closed, and the laser is off.
GoneMeansOff == conn \in {"fin", "lost", "dead"} ~> ~laser

\* An app that has left its acquisition screen leaves the laser off.
OffOutsideScreen == mpc = "receive" /\ ~onScreen => ~laser
=============================================================================
