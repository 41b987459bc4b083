------------------------------- MODULE MCParts -------------------------------
(***************************************************************************)
(* The parts of the system that share nothing with each other while they   *)
(* run, checked side by side: a behaviour belongs to one of them, and the  *)
(* others stay where they begin.  A part that is a function of the code is *)
(* given one input.                                                        *)
(***************************************************************************)
EXTENDS TimingSearch, Sequences

CONSTANTS Choices, Factory          \* ChipSettings
CONSTANTS FolderCount, FileCount    \* DirTree
CONSTANTS Length, Spike, Half, Word \* PulseRow
CONSTANTS Readings,     \* readings of a pulse
          Voltages,     \* voltages of the battery in mV
          Gauges,       \* numbers that a line may bring the Arduino
          Networks      \* what a scan for networks may find
CONSTANTS Channels                  \* ChannelScan

ASSUME NodesAssumption == FolderCount \in Nat /\ FileCount \in Nat
ASSUME RowAssumption ==
    /\ Length \in Nat /\ Length > 1
    /\ Spike \in Nat /\ Half \in Nat /\ Word \in Nat
    /\ Spike < Half /\ 2 * Half <= Word
ASSUME InputAssumption == Readings \subseteq 0..(Word - 1) /\ Voltages \subseteq Int
ASSUME GaugesAssumption == Gauges \subseteq Int
\* Channel 0 stands for none; a network is heard with less than 0 dBm.
ASSUME NetworksAssumption ==
    /\ Channels \subseteq Nat \ {0}
    /\ \A networks \in Networks :
          /\ networks \in Seq([channel : Nat, signal : Int])
          /\ \A n \in DOMAIN networks : networks[n].signal < 0

VARIABLES part, input
VARIABLES pc, param, file, card, acked, ahead, harmed
VARIABLES tree, blank, job, target, open, list, step, at, before
VARIABLES bar, bootWaitCnt, timer, said, serverLed

Settings == INSTANCE ChipSettings
Dirs == INSTANCE DirTree
Row == INSTANCE PulseRow
Battery == INSTANCE BatteryBar
Boot == INSTANCE BootBar
Wifi == INSTANCE ChannelScan

settingsVars == <<pc, param, file, card, acked, ahead, harmed>>
dirsVars == <<tree, blank, job, target, open, list, step, at, before>>
bootVars == <<bar, bootWaitCnt, timer, said, serverLed>>
partsVars == <<vars, settingsVars, dirsVars, bootVars, part, input>>

Rows == [Row!Places -> Readings]

GarbageDelays == {-1, 7}
\* No reading, the greatest that is no spike, the least spike, one that does not fit
\* in Half, the greatest, and one between.
ReadingsTried == {0, 20, Spike, Spike + 1, Half + 6, Word - 1}
\* From below the range of the battery to above it.
VoltagesTried == 11000..24700
\* From below what a gauge may be to above it.
GaugesTried == -1..101
\* Networks of no channel of 2.4 GHz, of two that are told, and of one that is not.
ChannelsTold == 1..2
NetworksTried ==
    UNION {[1..n -> [channel : 0..3, signal : {-90, -60}]] : n \in 0..3}

PartsInit ==
    /\ \/ part \in {"timing", "settings", "dirs", "boot"} /\ input = 0
       \/ part = "row" /\ input \in Rows
       \/ part = "battery" /\ input \in Voltages
       \/ part = "bar" /\ input \in Gauges
       \/ part = "wifi" /\ input \in Networks
    /\ IF part = "timing" THEN TRUE
       ELSE signal = [coarse |-> [d \in 0..CoarseMax |-> "low"],
                      medium |-> [d \in 0..MediumMax |-> "low"]]
    /\ IF part = "dirs" THEN TRUE ELSE tree = [n \in {} |-> 0] /\ blank = {}
    /\ Init /\ Settings!Init /\ Dirs!Init /\ Boot!Init

Timing ==
    /\ part = "timing" /\ Next
    /\ UNCHANGED <<settingsVars, dirsVars, bootVars, part, input>>
ChangeSettings ==
    /\ part = "settings" /\ Settings!Next
    /\ UNCHANGED <<vars, dirsVars, bootVars, part, input>>
ListFolders ==
    /\ part = "dirs" /\ Dirs!Next
    /\ UNCHANGED <<vars, settingsVars, bootVars, part, input>>
StartArduino ==
    /\ part = "boot" /\ Boot!Next
    /\ UNCHANGED <<vars, settingsVars, dirsVars, part, input>>

PartsNext == Timing \/ ChangeSettings \/ ListFolders \/ StartArduino

\* Nothing but the measurement has to end.
PartsSpec == PartsInit /\ [][PartsNext]_partsVars /\ WF_partsVars(Timing)

-----------------------------------------------------------------------------
\* A measurement of the timing ends.
MeasureEnds == part = "timing" => MeasurementEnds
\* The settings of the chip outlive the process.
SettingsKept == Settings!SettingsKept
\* What the removal of a folder removes.
FilesGoneFoldersLeft == Dirs!FilesGoneFoldersLeft
\* What the filter makes of a pulse.
SpikesCut == part = "row" => Row!SpikesCut(input)
\* What is there to be told to the user, each on its own: the gauge of a voltage
\* (encoder.c), the bar of a number that the Arduino is sent (the program sends it none)
\* and the bar at the start of the server (arduino_code.c).
LightsTell ==
    /\ part = "battery" => Battery!GaugeRises(input)
    /\ part = "bar" => Battery!LightsRise(input)
    /\ part = "boot" => Boot!StartedIsGreen
\* The list of Wi-Fi channels.
ScanTold == part = "wifi" => Wifi!ScanTold(input)
=============================================================================
