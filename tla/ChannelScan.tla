----------------------------- MODULE ChannelScan -----------------------------
(***************************************************************************)
(* The list of Wi-Fi channels for the app (wifi_selector.c), made of the   *)
(* lines that iw prints for the networks around: one with the signal of a  *)
(* network, and one with its channel if it is a network of 2.4 GHz.        *)
(***************************************************************************)
EXTENDS Integers, Sequences, FiniteSets

CONSTANT Channels       \* 1..13

SignalLine(signal) == [kind |-> "signal", value |-> signal]
ChannelLine(channel) == [kind |-> "channel", value |-> channel]

\* What is known before the first line: nothing of any channel.
Nothing == [signal |-> 0, rssi |-> [c \in Channels |-> 0], cnt |-> [c \in Channels |-> 0]]

\* Mutant of Take: the weakest network of a channel stays.
Mut_TakeWeakest(known, line) ==
    IF line.kind = "signal" THEN [known EXCEPT !.signal = line.value]
    ELSE IF line.value \notin Channels THEN known
    ELSE [known EXCEPT
            !.cnt[line.value] = @ + 1,
            !.rssi[line.value] = IF @ = 0 \/ known.signal < @ THEN known.signal ELSE @]

\* A channel has the signal of the line last seen; a signal of 0 stands for none.
Take(known, line) ==
    IF line.kind = "signal" THEN [known EXCEPT !.signal = line.value]
    ELSE IF line.value \notin Channels THEN known
    ELSE [known EXCEPT
            !.cnt[line.value] = @ + 1,
            !.rssi[line.value] = IF @ = 0 \/ @ < known.signal THEN known.signal ELSE @]

\* What is known after each line.
WifiInfoList(lines) ==
    LET known[n \in 0..Len(lines)] ==
            IF n = 0 THEN Nothing ELSE Take(known[n - 1], lines[n])
    IN  known

\* iw: the lines of one network, of a channel or of none.
Printed(network) ==
    <<SignalLine(network.signal)>>
        \o (IF network.channel = 0 THEN <<>> ELSE <<ChannelLine(network.channel)>>)

\* What iw has printed after each network.
Scanned(networks) ==
    LET lines[n \in 0..Len(networks)] ==
            IF n = 0 THEN <<>> ELSE lines[n - 1] \o Printed(networks[n])
    IN  lines

\* Every channel is told with the number of the networks on it and the strongest of
\* their signals, whatever the order in which the networks were found.
ScanTold(networks) ==
    LET lines == Scanned(networks)[Len(networks)]
        told == WifiInfoList(lines)[Len(lines)]
    IN  \A c \in Channels :
            LET on == {i \in DOMAIN networks : networks[i].channel = c}
            IN  /\ told.cnt[c] = Cardinality(on)
                /\ on # {} => \E i \in on : told.rssi[c] = networks[i].signal
                /\ \A i \in on : networks[i].signal <= told.rssi[c]
                /\ on = {} => told.rssi[c] = 0
=============================================================================
