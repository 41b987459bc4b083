----------------------------- MODULE SessionProofs -----------------------------
(***************************************************************************)
(* What holds of every session, for any bound on the serial line and the   *)
(* receive buffer: its types, and that it leaves nothing switched on.      *)
(***************************************************************************)
EXTENDS Session, TLAPS

\* Where main stands without a client.
Between == {"ready", "serverOn", "serverOff", "serverDone", "accept", "clientOff",
            "exit"}

\* Where main stands with a client that has sent nothing yet, or with one that is
\* being closed.
Quiet == {"keepAlive", "clientOn", "hello", "clientDone"}

\* The switches by where main stands; a process that was killed leaves them as
\* they were.
OffInv ==
    /\ conn = "none" => mpc \in Between \union {"dead"}
    /\ mpc \in Between \union Quiet => ~laser /\ ~runAcq
    /\ mpc = "off" => ~runAcq

-----------------------------------------------------------------------------

\* Main goes from one of its statements to another of them.
LEMMA NextControl ==
    ASSUME ControlType, [Next]_vars
    PROVE  ControlType'
<1> USE DEF ControlType, Events, mainVars, netVars, acqVars, leds
<1>1. CASE Ready \/ ServerOn \/ ServerOff \/ ServerDone
  BY <1>1 DEF Ready, ServerOn, ServerOff, ServerDone
<1>2. CASE Accept \/ SetKeepAlive \/ KeepAliveFails \/ ClientOn
  BY <1>2 DEF Accept, SetKeepAlive, KeepAliveFails, CloseClient, ClientOn
<1>3. CASE Hello \/ Receive \/ ReceiveEnds \/ Reply
  BY <1>3 DEF Hello, Receive, ReceiveEnds, Reply, Written, WriteKills
<1>4. CASE Handle
  BY <1>4 DEF Handle
<1>5. CASE StopAcq \/ AcqOff \/ ClientDone \/ ClientOff
  BY <1>5 DEF StopAcq, AcqOff, ClientDone, CloseClient, ClientOff
<1>6. CASE Edge \/ Notify \/ Battery
  BY <1>6 DEF Edge, Notify, Battery, Written, WriteKills
<1>7. CASE ReadLine
  BY <1>7 DEF ReadLine
<1>8. CASE GiveUp \/ PortFreed \/ AppConnects \/ AppSends \/ AppLeaves
  BY <1>8 DEF GiveUp, PortFreed, AppConnects, AppSends, AppLeaves
<1>9. CASE UNCHANGED vars
  BY <1>9 DEF vars
<1> QED
  BY <1>1, <1>2, <1>3, <1>4, <1>5, <1>6, <1>7, <1>8, <1>9
     DEF Next, Main, Others, Kernel, App

LEMMA NextFlag ==
    ASSUME FlagType, [Next]_vars
    PROVE  FlagType'
<1> USE DEF FlagType, mainVars, netVars, acqVars, leds
<1>1. CASE Ready \/ ServerOn \/ ServerOff \/ ServerDone
  BY <1>1 DEF Ready, ServerOn, ServerOff, ServerDone
<1>2. CASE Accept \/ SetKeepAlive \/ KeepAliveFails \/ ClientOn
  BY <1>2 DEF Accept, SetKeepAlive, KeepAliveFails, CloseClient, ClientOn
<1>3. CASE Hello \/ Receive \/ ReceiveEnds \/ Reply
  <2>1. CASE Hello
    BY <2>1 DEF Hello, Written, WriteKills
  <2>2. CASE Receive \/ ReceiveEnds
    BY <2>2 DEF Receive, ReceiveEnds
  <2>3. CASE Reply
    BY <2>3 DEF Reply, Written, WriteKills
  <2> QED BY <1>3, <2>1, <2>2, <2>3
<1>4. CASE Handle
  BY <1>4 DEF Handle
<1>5. CASE StopAcq \/ AcqOff \/ ClientDone \/ ClientOff
  BY <1>5 DEF StopAcq, AcqOff, ClientDone, CloseClient, ClientOff
<1>6. CASE Edge \/ Notify \/ Battery
  BY <1>6 DEF Edge, Notify, Battery, Written, WriteKills
<1>7. CASE ReadLine
  BY <1>7 DEF ReadLine
<1>8. CASE GiveUp \/ PortFreed \/ AppConnects \/ AppSends \/ AppLeaves
  BY <1>8 DEF GiveUp, PortFreed, AppConnects, AppSends, AppLeaves
<1>9. CASE UNCHANGED vars
  BY <1>9 DEF vars
<1> QED
  BY <1>1, <1>2, <1>3, <1>4, <1>5, <1>6, <1>7, <1>8, <1>9
     DEF Next, Main, Others, Kernel, App

UnreadStep ==
    \/ unread' = unread
    \/ unread' = 0
    \/ unread > 0 /\ unread' = unread - 1
    \/ unread < MaxUnread /\ unread' = unread + 1

SerialStep ==
    \/ serial' = serial
    \/ \E line \in SerialLines : Puts(line)
    \/ serial # <<>> /\ serial' = Tail(serial)

\* Who adds to the receive buffer looks for room, who takes from it for an event.
LEMMA NextUnread ==
    ASSUME [Next]_vars
    PROVE  UnreadStep
<1> USE DEF UnreadStep, mainVars, netVars, acqVars, leds
<1>1. CASE Ready \/ ServerOn \/ ServerOff \/ ServerDone
  BY <1>1 DEF Ready, ServerOn, ServerOff, ServerDone
<1>2. CASE Accept \/ SetKeepAlive \/ KeepAliveFails \/ ClientOn
  BY <1>2 DEF Accept, SetKeepAlive, KeepAliveFails, CloseClient, ClientOn
<1>3. CASE Hello \/ Receive \/ ReceiveEnds \/ Reply
  BY <1>3 DEF Hello, Receive, ReceiveEnds, Reply, Written, WriteKills
<1>4. CASE Handle
  BY <1>4 DEF Handle
<1>5. CASE StopAcq \/ AcqOff \/ ClientDone \/ ClientOff
  BY <1>5 DEF StopAcq, AcqOff, ClientDone, CloseClient, ClientOff
<1>6. CASE Edge \/ Notify \/ Battery
  BY <1>6 DEF Edge, Notify, Battery, Written, WriteKills
<1>7. CASE ReadLine
  BY <1>7 DEF ReadLine
<1>8. CASE GiveUp \/ PortFreed \/ AppConnects \/ AppSends \/ AppLeaves
  BY <1>8 DEF GiveUp, PortFreed, AppConnects, AppSends, AppLeaves
<1>9. CASE UNCHANGED vars
  BY <1>9 DEF vars
<1> QED
  BY <1>1, <1>2, <1>3, <1>4, <1>5, <1>6, <1>7, <1>8, <1>9
     DEF Next, Main, Others, Kernel, App

\* The serial line is written to at its end and read at its head.
LEMMA NextSerial ==
    ASSUME [Next]_vars
    PROVE  SerialStep
<1> USE DEF SerialStep, SerialLines, mainVars, netVars, acqVars, leds
<1>1. CASE Ready \/ ServerOn \/ ServerOff \/ ServerDone
  BY <1>1 DEF Ready, ServerOn, ServerOff, ServerDone
<1>2. CASE Accept \/ SetKeepAlive \/ KeepAliveFails \/ ClientOn
  BY <1>2 DEF Accept, SetKeepAlive, KeepAliveFails, CloseClient, ClientOn
<1>3. CASE Hello \/ Receive \/ ReceiveEnds \/ Reply
  BY <1>3 DEF Hello, Receive, ReceiveEnds, Reply, Written, WriteKills
<1>4. CASE Handle
  BY <1>4 DEF Handle
<1>5. CASE StopAcq \/ AcqOff \/ ClientDone \/ ClientOff
  BY <1>5 DEF StopAcq, AcqOff, ClientDone, CloseClient, ClientOff
<1>6. CASE Edge \/ Notify \/ Battery
  BY <1>6 DEF Edge, Notify, Battery, Written, WriteKills
<1>7. CASE ReadLine
  BY <1>7 DEF ReadLine
<1>8. CASE GiveUp \/ PortFreed \/ AppConnects \/ AppSends \/ AppLeaves
  BY <1>8 DEF GiveUp, PortFreed, AppConnects, AppSends, AppLeaves
<1>9. CASE UNCHANGED vars
  BY <1>9 DEF vars
<1> QED
  BY <1>1, <1>2, <1>3, <1>4, <1>5, <1>6, <1>7, <1>8, <1>9
     DEF Next, Main, Others, Kernel, App

LEMMA NextQueue ==
    ASSUME QueueType, [Next]_vars
    PROVE  QueueType'
<1>1. unread' \in 0..MaxUnread
  BY NextUnread, BoundsAssumption DEF UnreadStep, QueueType
<1>2. ASSUME NEW line \in SerialLines, Puts(line)
      PROVE  serial' \in Seq(SerialLines) /\ Len(serial') <= MaxSerial
  BY <1>2, BoundsAssumption DEF Puts, QueueType
<1>3. ASSUME serial # <<>>, serial' = Tail(serial)
      PROVE  serial' \in Seq(SerialLines) /\ Len(serial') <= MaxSerial
  BY <1>3, BoundsAssumption DEF QueueType
<1> QED
  BY <1>1, <1>2, <1>3, NextSerial DEF SerialStep, QueueType

LEMMA InitType ==
    ASSUME Init
    PROVE  TypeOK
<1>1. ControlType
  BY DEF Init, ControlType, Events
<1>2. FlagType
  BY DEF Init, FlagType
<1>3. QueueType
  BY BoundsAssumption DEF Init, QueueType
<1> QED
  BY <1>1, <1>2, <1>3 DEF TypeOK

\* Every variable of the session keeps its type, whatever main, the threads, the
\* kernel and the app do.
THEOREM TypeCorrect == Spec => []TypeOK
<1>1. Init => TypeOK
  BY InitType
<1>2. TypeOK /\ [Next]_vars => TypeOK'
  BY NextControl, NextFlag, NextQueue DEF TypeOK
<1> QED
  BY <1>1, <1>2, PTL DEF Spec

-----------------------------------------------------------------------------

\* Each step keeps the switches where main's place says they are.
LEMMA NextOff ==
    ASSUME ControlType, OffInv, [Next]_vars
    PROVE  OffInv'
<1> USE DEF OffInv, Between, Quiet, ControlType, mainVars, netVars, acqVars, leds
<1>1. CASE Ready \/ ServerOn \/ ServerOff \/ ServerDone
  <2>1. CASE Ready
    BY <2>1 DEF Ready
  <2>2. CASE ServerOn
    BY <2>2 DEF ServerOn
  <2>3. CASE ServerOff
    BY <2>3 DEF ServerOff
  <2>4. CASE ServerDone
    BY <2>4 DEF ServerDone
  <2> QED
    BY <1>1, <2>1, <2>2, <2>3, <2>4
<1>2. CASE Accept \/ SetKeepAlive \/ KeepAliveFails \/ ClientOn
  <2>1. CASE Accept
    BY <2>1 DEF Accept
  <2>2. CASE SetKeepAlive
    BY <2>2 DEF SetKeepAlive
  <2>3. CASE KeepAliveFails
    BY <2>3 DEF KeepAliveFails, CloseClient
  <2>4. CASE ClientOn
    BY <2>4 DEF ClientOn
  <2> QED
    BY <1>2, <2>1, <2>2, <2>3, <2>4
<1>3. CASE Hello \/ Receive \/ ReceiveEnds \/ Reply
  BY <1>3 DEF Hello, Receive, ReceiveEnds, Reply, Written, WriteKills
<1>4. CASE Handle
  BY <1>4 DEF Handle
<1>5. CASE StopAcq \/ AcqOff \/ ClientDone \/ ClientOff
  <2>1. CASE StopAcq
    BY <2>1 DEF StopAcq
  <2>2. CASE AcqOff
    BY <2>2 DEF AcqOff
  <2>3. CASE ClientDone
    BY <2>3 DEF ClientDone, CloseClient
  <2>4. CASE ClientOff
    BY <2>4 DEF ClientOff
  <2> QED
    BY <1>5, <2>1, <2>2, <2>3, <2>4
<1>6. CASE Edge \/ Notify \/ Battery
  BY <1>6 DEF Edge, Notify, Battery, Written, WriteKills
<1>7. CASE ReadLine
  BY <1>7 DEF ReadLine
<1>8. CASE GiveUp \/ PortFreed \/ AppConnects \/ AppSends \/ AppLeaves
  BY <1>8 DEF GiveUp, PortFreed, AppConnects, AppSends, AppLeaves
<1>9. CASE UNCHANGED vars
  BY <1>9 DEF vars
<1> QED
  BY <1>1, <1>2, <1>3, <1>4, <1>5, <1>6, <1>7, <1>8, <1>9
     DEF Next, Main, Others, Kernel, App

\* Without a client the laser is off and nothing is recorded, however the last
\* session ended: socket_close, which switches both off, lies on every way from
\* the receive loop to the next accept.
THEOREM NothingLeftOn == Spec => []OffBetweenClients
<1>1. Init => OffInv
  BY DEF Init, OffInv, Between, Quiet
<1>2. OffInv => OffBetweenClients
  BY DEF OffInv, OffBetweenClients, Between
<1>3. TypeOK /\ OffInv /\ [Next]_vars => OffInv'
  BY NextOff DEF TypeOK
<1> QED
  BY TypeCorrect, <1>1, <1>2, <1>3, PTL DEF Spec

-----------------------------------------------------------------------------
(* The LEDs.  A LED that the words on and off switch will show v once the    *)
(* Arduino has read the serial line, if the last of the two words on it says *)
(* so, or if there is none and the LED shows v already.                      *)

WillShow(line, word, opposite, led, v) ==
    \/ /\ led = v
       /\ \A i \in 1..Len(line) : line[i] \notin {word, opposite}
    \/ \E i \in 1..Len(line) :
          /\ line[i] = word
          /\ \A j \in (i + 1)..Len(line) : line[j] \notin {word, opposite}

Blue(v) ==
    IF v THEN WillShow(serial, "client on", "client off", blue, TRUE)
         ELSE WillShow(serial, "client off", "client on", blue, FALSE)

Green(v) ==
    IF v THEN WillShow(serial, "server on", "server off", green, TRUE)
         ELSE WillShow(serial, "server off", "server on", green, FALSE)

\* Where main has told the Arduino of a client, and of the server.
ClientTold == {"hello", "receive", "handle", "reply", "stop", "off", "clientDone",
               "clientOff"}
ClientUntold == {"ready", "serverOn", "serverOff", "serverDone", "accept", "keepAlive",
                 "clientOn"}
ServerTold == ClientTold \union {"accept", "keepAlive", "clientOn", "serverOff"}
ServerUntold == {"ready", "serverOn", "serverDone"}

LedInv ==
    /\ mpc \in ClientTold => Blue(TRUE)
    /\ mpc \in ClientUntold => Blue(FALSE)
    /\ mpc \in ServerTold => Green(TRUE)
    /\ mpc \in ServerUntold => Green(FALSE)

\* The last word decides.
LEMMA WordSent ==
    ASSUME NEW s \in Seq(SerialLines), NEW word \in SerialLines, NEW opposite,
           NEW led, NEW v
    PROVE  WillShow(Append(s, word), word, opposite, led, v)
<1> DEFINE t == Append(s, word)
<1>1. /\ Len(t) = Len(s) + 1 /\ t[Len(t)] = word
      /\ Len(t) \in 1..Len(t)
      /\ (Len(t) + 1)..Len(t) = {}
  OBVIOUS
<1> HIDE DEF t
<1> QED
  BY <1>1 DEF WillShow, t

\* Any other line changes nothing.
LEMMA OtherSent ==
    ASSUME NEW s \in Seq(SerialLines), NEW line \in SerialLines, NEW word,
           NEW opposite, NEW led, NEW v, line \notin {word, opposite},
           WillShow(s, word, opposite, led, v)
    PROVE  WillShow(Append(s, line), word, opposite, led, v)
<1> DEFINE t == Append(s, line)
<1>1. /\ Len(s) \in Nat /\ Len(t) = Len(s) + 1
      /\ t[Len(s) + 1] = line
      /\ \A i \in 1..Len(s) : t[i] = s[i]
  OBVIOUS
<1> HIDE DEF t
<1>2. \A i \in 1..Len(t) : i \in 1..Len(s) \/ t[i] = line
  BY <1>1
<1>3. CASE led = v /\ \A i \in 1..Len(s) : s[i] \notin {word, opposite}
  BY <1>1, <1>2, <1>3 DEF WillShow, t
<1>4. ASSUME NEW i \in 1..Len(s), s[i] = word,
             \A j \in (i + 1)..Len(s) : s[j] \notin {word, opposite}
      PROVE  WillShow(t, word, opposite, led, v)
  <2>1. i \in 1..Len(t) /\ t[i] = word
    BY <1>1, <1>4
  <2>2. ASSUME NEW j \in (i + 1)..Len(t)
        PROVE  t[j] \notin {word, opposite}
    <3>1. j \in (i + 1)..Len(s) \/ j = Len(s) + 1
      BY <1>1
    <3>2. CASE j \in (i + 1)..Len(s)
      BY <1>1, <1>4, <3>2
    <3>3. CASE j = Len(s) + 1
      BY <1>1, <3>3
    <3> QED
      BY <3>1, <3>2, <3>3
  <2> QED
    BY <2>1, <2>2 DEF WillShow
<1> QED
  BY <1>3, <1>4 DEF WillShow, t

\* Reading a line brings the LED nearer to what it will show.
LEMMA LineRead ==
    ASSUME NEW s \in Seq(SerialLines), s # <<>>, NEW word, NEW opposite, NEW led,
           NEW now, NEW v, WillShow(s, word, opposite, led, v),
           Head(s) = word => now = v,
           Head(s) \notin {word, opposite} => now = led
    PROVE  WillShow(Tail(s), word, opposite, now, v)
<1> DEFINE t == Tail(s)
<1>1. /\ Len(s) \in Nat \ {0} /\ Len(t) = Len(s) - 1 /\ Head(s) = s[1]
      /\ \A i \in 1..Len(t) : t[i] = s[i + 1]
  OBVIOUS
<1> HIDE DEF t
<1>2. CASE led = v /\ \A i \in 1..Len(s) : s[i] \notin {word, opposite}
  <2>1. 1 \in 1..Len(s) /\ \A i \in 1..Len(t) : i + 1 \in 1..Len(s)
    BY <1>1
  <2>2. now = v
    BY <1>1, <1>2, <2>1
  <2> QED
    BY <1>1, <1>2, <2>1, <2>2 DEF WillShow, t
<1>3. ASSUME NEW i \in 1..Len(s), s[i] = word,
             \A j \in (i + 1)..Len(s) : s[j] \notin {word, opposite}
      PROVE  WillShow(t, word, opposite, now, v)
  <2>1. CASE i = 1
    <3>1. now = v
      BY <1>1, <1>3, <2>1
    <3>2. \A k \in 1..Len(t) : k + 1 \in (i + 1)..Len(s)
      BY <1>1, <2>1
    <3>3. \A k \in 1..Len(t) : t[k] \notin {word, opposite}
      BY <1>1, <1>3, <3>2
    <3> QED
      BY <3>1, <3>3 DEF WillShow
  <2>2. CASE i # 1
    <3>1. i - 1 \in 1..Len(t) /\ t[i - 1] = s[i]
      BY <1>1, <2>2
    <3>2. ASSUME NEW k \in ((i - 1) + 1)..Len(t)
          PROVE  t[k] \notin {word, opposite}
      <4>1. k \in 1..Len(t) /\ k + 1 \in (i + 1)..Len(s)
        BY <1>1, <2>2
      <4> QED
        BY <1>1, <1>3, <4>1
    <3> QED
      BY <1>3, <3>1, <3>2 DEF WillShow
  <2> QED
    BY <2>1, <2>2
<1> QED
  BY <1>2, <1>3 DEF WillShow, t

\* What a line that main or the battery thread sends does to what the LEDs will show.
LEMMA LedsSent ==
    ASSUME QueueType, NEW line \in SerialLines, Puts(line), UNCHANGED leds
    PROVE  /\ line = "client on" => Blue(TRUE)'
           /\ line = "client off" => Blue(FALSE)'
           /\ line \notin {"client on", "client off"} =>
                 (Blue(TRUE) => Blue(TRUE)') /\ (Blue(FALSE) => Blue(FALSE)')
           /\ line = "server on" => Green(TRUE)'
           /\ line = "server off" => Green(FALSE)'
           /\ line \notin {"server on", "server off"} =>
                 (Green(TRUE) => Green(TRUE)') /\ (Green(FALSE) => Green(FALSE)')
<1>1. /\ serial \in Seq(SerialLines) /\ serial' = Append(serial, line)
      /\ blue' = blue /\ green' = green
  BY DEF QueueType, Puts, leds
<1>2. line = "client on" => Blue(TRUE)'
  BY <1>1, WordSent DEF Blue
<1>3. line = "client off" => Blue(FALSE)'
  BY <1>1, WordSent DEF Blue
<1>4. line = "server on" => Green(TRUE)'
  BY <1>1, WordSent DEF Green
<1>5. line = "server off" => Green(FALSE)'
  BY <1>1, WordSent DEF Green
<1>6. ASSUME line \notin {"client on", "client off"}
      PROVE  (Blue(TRUE) => Blue(TRUE)') /\ (Blue(FALSE) => Blue(FALSE)')
  BY <1>1, <1>6, OtherSent DEF Blue
<1>7. ASSUME line \notin {"server on", "server off"}
      PROVE  (Green(TRUE) => Green(TRUE)') /\ (Green(FALSE) => Green(FALSE)')
  BY <1>1, <1>7, OtherSent DEF Green
<1> QED
  BY <1>2, <1>3, <1>4, <1>5, <1>6, <1>7

\* What the LEDs will show does not change when the Arduino reads a line.
LEMMA LedsRead ==
    ASSUME QueueType, ReadLine
    PROVE  /\ (Blue(TRUE) => Blue(TRUE)') /\ (Blue(FALSE) => Blue(FALSE)')
           /\ (Green(TRUE) => Green(TRUE)') /\ (Green(FALSE) => Green(FALSE)')
<1>1. serial \in Seq(SerialLines) /\ serial # <<>> /\ serial' = Tail(serial)
  BY DEF QueueType, ReadLine
<1>2. /\ Head(serial) = "client on" => blue' = TRUE
      /\ Head(serial) = "client off" => blue' = FALSE
      /\ Head(serial) \notin {"client on", "client off"} => blue' = blue
      /\ Head(serial) = "server on" => green' = TRUE
      /\ Head(serial) = "server off" => green' = FALSE
      /\ Head(serial) \notin {"server on", "server off"} => green' = green
  BY DEF ReadLine
<1>3. Blue(TRUE) => Blue(TRUE)'
  BY <1>1, <1>2, LineRead DEF Blue
<1>4. Blue(FALSE) => Blue(FALSE)'
  BY <1>1, <1>2, LineRead DEF Blue
<1>5. Green(TRUE) => Green(TRUE)'
  BY <1>1, <1>2, LineRead DEF Green
<1>6. Green(FALSE) => Green(FALSE)'
  BY <1>1, <1>2, LineRead DEF Green
<1> QED
  BY <1>3, <1>4, <1>5, <1>6

\* Steps that neither write to the serial line nor read from it.
LEMMA LedsKept ==
    ASSUME UNCHANGED <<serial, blue, green>>
    PROVE  /\ (Blue(TRUE) => Blue(TRUE)') /\ (Blue(FALSE) => Blue(FALSE)')
           /\ (Green(TRUE) => Green(TRUE)') /\ (Green(FALSE) => Green(FALSE)')
BY DEF Blue, Green, WillShow

\* Where main goes without a word to the Arduino.
SilentMove ==
    \/ mpc' = mpc
    \/ mpc' \in {"dead", "exit"}
    \/ mpc = "ready" /\ mpc' = "serverOn"
    \/ mpc = "serverDone" /\ mpc' = "ready"
    \/ mpc \in {"accept", "keepAlive"} /\ mpc' \in {"accept", "keepAlive", "clientOn"}
    \/ /\ mpc \in {"hello", "receive", "handle", "reply", "stop", "off", "clientDone"}
       /\ mpc' \in ClientTold

LEMMA NextLed ==
    ASSUME ControlType, QueueType, LedInv, [Next]_vars
    PROVE  LedInv'
<1> USE DEF LedInv, ClientTold, ClientUntold, ServerTold, ServerUntold
<1>1. CASE ServerOn
  <2>1. mpc' = "accept" /\ mpc = "serverOn" /\ Puts("server on") /\ UNCHANGED leds
    BY <1>1 DEF ServerOn
  <2> QED
    BY <2>1, LedsSent DEF SerialLines
<1>2. CASE ServerOff
  <2>1. mpc' = "serverDone" /\ mpc = "serverOff" /\ Puts("server off") /\ UNCHANGED leds
    BY <1>2 DEF ServerOff
  <2> QED
    BY <2>1, LedsSent DEF SerialLines
<1>3. CASE ClientOn
  <2>1. mpc' = "hello" /\ mpc = "clientOn" /\ Puts("client on") /\ UNCHANGED leds
    BY <1>3 DEF ClientOn
  <2> QED
    BY <2>1, LedsSent DEF SerialLines
<1>4. CASE ClientOff
  <2>1. /\ mpc' \in {"serverOff", "accept"} /\ mpc = "clientOff"
        /\ Puts("client off") /\ UNCHANGED leds
    BY <1>4 DEF ClientOff
  <2> QED
    BY <2>1, LedsSent DEF SerialLines
<1>5. CASE Battery
  <2>1. mpc' = mpc /\ Puts("unset") /\ UNCHANGED leds
    BY <1>5 DEF Battery, mainVars
  <2> QED
    BY <2>1, LedsSent DEF SerialLines
<1>6. CASE ReadLine
  <2>1. mpc' = mpc
    BY <1>6 DEF ReadLine, mainVars
  <2> QED
    BY <1>6, <2>1, LedsRead
<1>7. ASSUME SilentMove, UNCHANGED <<serial, blue, green>>
      PROVE  LedInv'
  <2>1. /\ mpc' \in ClientTold => mpc \in ClientTold
        /\ mpc' \in ClientUntold => mpc \in ClientUntold
        /\ mpc' \in ServerTold => mpc \in ServerTold
        /\ mpc' \in ServerUntold => mpc \in ServerUntold
    BY <1>7 DEF SilentMove
  <2> QED
    BY <1>7, <2>1, LedsKept
<1>8. CASE Ready \/ ServerDone \/ Accept \/ SetKeepAlive \/ KeepAliveFails
  <2>1. SilentMove /\ UNCHANGED <<serial, blue, green>>
    BY <1>8 DEF Ready, ServerDone, Accept, SetKeepAlive, KeepAliveFails, SilentMove,
                leds
  <2> QED
    BY <1>7, <2>1
<1>9. CASE Hello \/ Receive \/ ReceiveEnds \/ Handle \/ Reply
  <2>1. SilentMove /\ UNCHANGED <<serial, blue, green>>
    BY <1>9 DEF Hello, Receive, ReceiveEnds, Handle, Reply, WriteKills, SilentMove,
                leds
  <2> QED
    BY <1>7, <2>1
<1>10. CASE StopAcq \/ AcqOff \/ ClientDone
  <2>1. SilentMove /\ UNCHANGED <<serial, blue, green>>
    BY <1>10 DEF StopAcq, AcqOff, ClientDone, SilentMove, leds
  <2> QED
    BY <1>7, <2>1
<1>11. CASE Edge \/ Notify \/ Kernel \/ App \/ UNCHANGED vars
  <2>1. SilentMove /\ UNCHANGED <<serial, blue, green>>
    BY <1>11 DEF Edge, Notify, WriteKills, Kernel, GiveUp, PortFreed, App, AppConnects,
                 AppSends, AppLeaves, SilentMove, mainVars, leds, vars
  <2> QED
    BY <1>7, <2>1
<1> QED
  BY <1>1, <1>2, <1>3, <1>4, <1>5, <1>6, <1>8, <1>9, <1>10, <1>11
     DEF Next, Main, Others

\* Once the Arduino has read all that was sent, the LEDs show the server and the
\* client as main sees them, with the battery thread's text anywhere in between.
THEOREM LedsCorrect == Spec => []LedsFollow
<1>1. Init => LedInv
  BY DEF Init, LedInv, Blue, Green, WillShow, ClientTold, ClientUntold, ServerTold,
         ServerUntold
<1>2. TypeOK /\ LedInv /\ [Next]_vars => LedInv'
  BY NextLed DEF TypeOK
<1>3. TypeOK /\ LedInv => LedsFollow
  <2>1. ASSUME TypeOK, LedInv, serial = <<>>
        PROVE  /\ Blue(TRUE) => blue
               /\ Blue(FALSE) => ~blue
               /\ Green(TRUE) => green
               /\ Green(FALSE) => ~green
    BY <2>1 DEF Blue, Green, WillShow
  <2> QED
    BY <2>1 DEF LedInv, LedsFollow, ClientTold, ClientUntold, ServerTold, ServerUntold
<1> QED
  BY TypeCorrect, <1>1, <1>2, <1>3, PTL DEF Spec
=============================================================================
