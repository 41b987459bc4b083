----------------------------- MODULE PartsProofs -----------------------------
(***************************************************************************)
(* What holds of the parts that share nothing, for every value of their    *)
(* constants: the timing measurement, the settings of the chip, the filter *)
(* of a pulse, and the bar of lights.                                      *)
(***************************************************************************)
EXTENDS MCParts, FiniteSetTheorems, SequenceTheorems, WellFoundedInduction,
        TLAPS

-----------------------------------------------------------------------------
(* The settings of the chip.                                                *)

\* What the next start makes of the file.
Effective == IF file.kind = "whole" THEN file.settings ELSE Factory

\* Settings asked for are on their way to be acknowledged; a file that may be relied
\* upon has settings that were, and the ones just written before they are applied.
SettingsInv ==
    /\ pc \in {"down", "idle", "open", "write", "apply"}
    /\ harmed \in BOOLEAN
    /\ pc \in {"open", "write", "apply"} => param \in ahead
    /\ ~harmed => Effective \in {acked} \union ahead
    /\ ~harmed /\ pc = "apply" => Effective = param
    /\ ~harmed /\ pc = "idle" => param \in {acked} \union ahead
    /\ pc = "write" => harmed

LEMMA SettingsStart == Settings!Init => SettingsInv
<1> SUFFICES ASSUME Settings!Init PROVE SettingsInv
    OBVIOUS
<1>1. pc = "down" /\ acked = Factory /\ harmed = FALSE
    BY DEF Settings!Init
<1>2. Effective = Factory
    BY DEF Settings!Init, Settings!Missing, Effective
<1> QED BY <1>1, <1>2 DEF SettingsInv

LEMMA SettingsNext ==
    ASSUME SettingsInv, Settings!Next
    PROVE  SettingsInv'
<1> USE DEF SettingsInv, Effective
<1>1. CASE Settings!Boot
    BY <1>1 DEF Settings!Boot
<1>2. CASE Settings!Modify
    BY <1>2 DEF Settings!Modify
<1>3. CASE Settings!ModifyIncomplete
    BY <1>3 DEF Settings!ModifyIncomplete
<1>4. CASE Settings!OpenFile
    BY <1>4 DEF Settings!OpenFile
<1>5. CASE Settings!WriteFile
    <2>1. /\ pc = "write" /\ pc' = "apply" /\ UNCHANGED <<param, card, acked, ahead>>
          /\ harmed /\ param \in ahead
        BY <1>5 DEF Settings!WriteFile
    <2>2. CASE file' = Settings!Whole(param) /\ harmed' = FALSE
        <3>1. Effective' = param
            BY <2>1, <2>2 DEF Settings!Whole
        <3> QED BY <2>1, <2>2, <3>1
    <2>3. CASE UNCHANGED <<file, harmed>>
        BY <2>1, <2>3
    <2> QED BY <1>5, <2>2, <2>3 DEF Settings!WriteFile
<1>6. CASE Settings!Complete
    BY <1>6 DEF Settings!Complete
<1>7. CASE Settings!WriteBack
    BY <1>7 DEF Settings!WriteBack
<1>8. CASE Settings!Die
    BY <1>8 DEF Settings!Die
<1>9. CASE Settings!PowerCut
    <2>1. ~harmed' => file' = file /\ ~harmed
        BY <1>9 DEF Settings!PowerCut
    <2> QED BY <1>9, <2>1 DEF Settings!PowerCut
<1> QED BY <1>1, <1>2, <1>3, <1>4, <1>5, <1>6, <1>7, <1>8, <1>9 DEF Settings!Next

\* Whatever the process lived through, it waits with the settings that it acknowledged
\* last, or with some it was asked for since (NVA_file.c), unless the file is harmed.
THEOREM PartsSettingsKept == PartsSpec => []SettingsKept
<1>1. PartsInit => SettingsInv
    BY SettingsStart DEF PartsInit
<1>2. SettingsInv /\ [PartsNext]_partsVars => SettingsInv'
    <2> SUFFICES ASSUME SettingsInv, [PartsNext]_partsVars
                 PROVE  SettingsInv'
        OBVIOUS
    <2>1. CASE ChangeSettings
        BY <2>1, SettingsNext DEF ChangeSettings
    <2>2. CASE UNCHANGED settingsVars
        BY <2>2 DEF settingsVars, SettingsInv, Effective
    <2> QED BY <2>1, <2>2 DEF PartsNext, partsVars, Timing, ListFolders, StartArduino
<1>3. SettingsInv => SettingsKept
    BY DEF SettingsInv, SettingsKept, Settings!SettingsKept
<1> QED BY <1>1, <1>2, <1>3, PTL DEF PartsSpec

-----------------------------------------------------------------------------
(* The filter of a pulse.                                                   *)

\* What the filter makes of a reading, if it has made f of the one before.
Smooths(raw, f) ==
    f = [i \in Row!Places |->
            IF raw[i] <= Spike \/ i = 1 THEN raw[i]
            ELSE IF i = 0 THEN raw[1]
            ELSE IF i = Length - 1 THEN f[i - 1]
            ELSE ((f[i - 1] + raw[i + 1]) % Word) \div 2]

\* The same where the reading before a spike is none.
SmoothedApart(raw) ==
    [i \in Row!Places |->
        IF raw[i] <= Spike \/ i = 1 THEN raw[i]
        ELSE IF i = 0 THEN raw[1]
        ELSE IF i = Length - 1 THEN raw[i - 1]
        ELSE ((raw[i - 1] + raw[i + 1]) % Word) \div 2]

\* The mean of two readings that are no spikes is none, and lies between them.
LEMMA Mean ==
    ASSUME NEW a \in 0..Spike, NEW b \in 0..Spike
    PROVE  LET mean == ((a + b) % Word) \div 2
           IN  mean \in 0..Spike /\ mean \in Row!Least(a, b)..Row!Greatest(a, b)
<1>1. (a + b) % Word = a + b
    BY RowAssumption
<1> QED BY <1>1, RowAssumption DEF Row!Least, Row!Greatest

\* Spikes that stand alone are cut.
LEMMA SpikesAreCut ==
    ASSUME NEW raw \in [Row!Places -> Nat]
    PROVE  Row!SpikesCut(raw)
<1> DEFINE spikes == {i \in Row!Places : raw[i] > Spike}
           sent == Row!Sent(raw)
           smooth == SmoothedApart(raw)
<1> USE RowAssumption DEF Row!Places
<1> SUFFICES ASSUME 1 \notin spikes, \A i \in spikes : i + 1 \notin spikes
             PROVE  /\ \A i \in Row!Places \ spikes : sent[i] = raw[i]
                    /\ \A i \in spikes \ {0, Length - 1} :
                          sent[i] \in Row!Least(sent[i - 1], sent[i + 1])
                                          ..Row!Greatest(sent[i - 1], sent[i + 1])
                    /\ \A i \in spikes : sent[i] <= Spike
    BY DEF Row!SpikesCut
<1>1. \A i \in spikes : i # 1 /\ (i # 0 => i - 1 \in Row!Places /\ i - 1 \notin spikes)
                        /\ (i # Length - 1 => i + 1 \in Row!Places /\ i + 1 \notin spikes)
    <2>1. ASSUME NEW i \in spikes, i # 0
          PROVE  i - 1 \in Row!Places /\ i - 1 \notin spikes
        <3>1. (i - 1) + 1 = i /\ i - 1 \in Row!Places
            BY <2>1
        <3> QED BY <3>1
    <2>2. ASSUME NEW i \in spikes, i # Length - 1
          PROVE  i + 1 \in Row!Places /\ i + 1 \notin spikes
        BY <2>2
    <2> QED BY <2>1, <2>2
<1>2. \A i \in Row!Places : i \notin spikes => raw[i] \in 0..Spike
    OBVIOUS
<1>3. ASSUME NEW f
      PROVE  Smooths(raw, f) <=> f = smooth
    <2>1. ASSUME \A i \in Row!Places \ spikes : f[i] = raw[i]
          PROVE  Smooths(raw, f) <=> f = smooth
        <3>1. ASSUME NEW i \in Row!Places, ~(raw[i] <= Spike \/ i = 1), i # 0
              PROVE  f[i - 1] = raw[i - 1]
            BY <1>1, <2>1, <3>1
        <3> QED BY <3>1 DEF Smooths, SmoothedApart
    <2>2. Smooths(raw, f) => \A i \in Row!Places \ spikes : f[i] = raw[i]
        BY DEF Smooths
    <2>3. f = smooth => \A i \in Row!Places \ spikes : f[i] = raw[i]
        BY DEF SmoothedApart
    <2> QED BY <2>1, <2>2, <2>3
<1>4. Row!Smoothed(raw) = smooth
    <2>1. Row!Smoothed(raw) = CHOOSE f : Smooths(raw, f)
        BY DEF Row!Smoothed, Smooths
    <2> QED BY <1>3, <2>1
<1>5. /\ \A i \in Row!Places \ spikes : smooth[i] = raw[i]
      /\ \A i \in spikes : smooth[i] \in 0..Spike
      /\ \A i \in spikes \ {0, Length - 1} :
            smooth[i] \in Row!Least(raw[i - 1], raw[i + 1])..Row!Greatest(raw[i - 1], raw[i + 1])
    <2>1. \A i \in Row!Places \ spikes : smooth[i] = raw[i]
        BY DEF SmoothedApart
    <2>2. ASSUME NEW i \in spikes
          PROVE  /\ smooth[i] \in 0..Spike
                 /\ i \notin {0, Length - 1} =>
                       smooth[i] \in Row!Least(raw[i - 1], raw[i + 1])
                                         ..Row!Greatest(raw[i - 1], raw[i + 1])
        <3>1. i \in Row!Places /\ ~(raw[i] <= Spike \/ i = 1)
            BY <1>1
        <3>2. CASE i = 0
            <4>1. smooth[i] = raw[1] /\ 1 \in Row!Places
                BY <3>1, <3>2 DEF SmoothedApart
            <4> QED BY <1>2, <3>2, <4>1
        <3>3. CASE i = Length - 1 /\ i # 0
            <4>1. smooth[i] = raw[i - 1]
                BY <3>1, <3>3 DEF SmoothedApart
            <4> QED BY <1>1, <1>2, <3>3, <4>1
        <3>4. CASE i \notin {0, Length - 1}
            <4>1. smooth[i] = ((raw[i - 1] + raw[i + 1]) % Word) \div 2
                BY <3>1, <3>4 DEF SmoothedApart
            <4>2. raw[i - 1] \in 0..Spike /\ raw[i + 1] \in 0..Spike
                BY <1>1, <1>2, <3>4
            <4> QED BY <4>1, <4>2, Mean
        <3> QED BY <3>2, <3>3, <3>4
    <2> QED BY <2>1, <2>2
<1>6. \A i \in Row!Places : smooth[i] \in 0..Spike /\ sent[i] = smooth[i]
    <2>1. \A i \in Row!Places : smooth[i] \in 0..Spike
        BY <1>2, <1>5
    <2>2. \A i \in Row!Places : sent[i] = smooth[i] % Half
        BY <1>4 DEF Row!Sent
    <2>3. \A x \in 0..Spike : x % Half = x
        OBVIOUS
    <2> HIDE DEF smooth, sent
    <2> QED BY <2>1, <2>2, <2>3
<1> HIDE DEF smooth, sent
<1>7. ASSUME NEW i \in spikes \ {0, Length - 1}
      PROVE  sent[i] \in Row!Least(sent[i - 1], sent[i + 1])
                             ..Row!Greatest(sent[i - 1], sent[i + 1])
    <2>1. sent[i - 1] = raw[i - 1] /\ sent[i + 1] = raw[i + 1] /\ sent[i] = smooth[i]
        BY <1>1, <1>5, <1>6
    <2> QED BY <1>5, <2>1
<1> QED BY <1>5, <1>6, <1>7

\* A pulse is told as it was read but for its spikes, wherever they stand alone
\* (SPI_Read), for every length of a pulse.
THEOREM PartsSpikesCut == PartsSpec => []SpikesCut
<1> DEFINE Inv == part = "row" => input \in Rows
<1>1. PartsInit => Inv
    BY DEF PartsInit
<1>2. Inv /\ [PartsNext]_partsVars => Inv'
    BY DEF PartsNext, partsVars, Timing, ChangeSettings, ListFolders, StartArduino
<1>3. Inv => SpikesCut
    <2>1. Rows \subseteq [Row!Places -> Nat]
        <3>1. Readings \subseteq Nat
            BY InputAssumption, RowAssumption
        <3> QED BY <3>1 DEF Rows
    <2> QED BY <2>1, SpikesAreCut DEF SpikesCut
<1> QED BY <1>1, <1>2, <1>3, PTL DEF PartsSpec

-----------------------------------------------------------------------------
(* The bar of lights.                                                       *)

\* How much of the range lies below the knee and above it, in mV, and how much of the
\* gauge each of them is.
LEMMA GaugeCases ==
    ASSUME NEW analog \in Int
    PROVE  LET current == analog - 11400
           IN  Battery!Gauge(analog) =
                  IF current > 3870 THEN ((current - 3870) * 85) \div 9030 + 15
                  ELSE IF current > 0 THEN (current * 15) \div 3870
                  ELSE 0
<1> DEFINE current == analog - 11400
<1>1. 24300 - 11400 = 12900 /\ (12900 * 30) \div 100 = 3870 /\ 30 \div 2 = 15
    OBVIOUS
<1>2. 12900 - 3870 = 9030 /\ 100 - 15 = 85
    OBVIOUS
<1>3. current \in Int
    OBVIOUS
<1> HIDE DEF current
<1>4. CASE current > 3870
    BY <1>1, <1>2, <1>4 DEF Battery!Gauge, Battery!MaxBattery, Battery!MinBattery,
                            Battery!LowRate, current
<1>5. CASE current > 0 /\ current <= 3870
    BY <1>1, <1>2, <1>5 DEF Battery!Gauge, Battery!MaxBattery, Battery!MinBattery,
                            Battery!LowRate, current
<1>6. CASE current <= 0
    BY <1>1, <1>2, <1>6 DEF Battery!Gauge, Battery!MaxBattery, Battery!MinBattery,
                            Battery!LowRate, current
<1> QED BY <1>3, <1>4, <1>5, <1>6 DEF current

\* One more mV is at most one more percent.
LEMMA GaugeSteps ==
    ASSUME NEW analog \in Int
    PROVE  /\ Battery!Gauge(analog) \in Nat
           /\ Battery!Gauge(analog + 1) \in {Battery!Gauge(analog), Battery!Gauge(analog) + 1}
           /\ analog <= 11400 => Battery!Gauge(analog) = 0
           /\ analog <= 24300 => Battery!Gauge(analog) <= 100
           /\ analog = 24300 => Battery!Gauge(analog) = 100
<1> DEFINE current == analog - 11400
           less == Battery!Gauge(analog)
           more == Battery!Gauge(analog + 1)
<1>1. current \in Int /\ (analog + 1) - 11400 = current + 1
    OBVIOUS
<1>2. less = IF current > 3870 THEN ((current - 3870) * 85) \div 9030 + 15
             ELSE IF current > 0 THEN (current * 15) \div 3870
             ELSE 0
    BY GaugeCases
<1>3. more = IF current + 1 > 3870 THEN ((current + 1 - 3870) * 85) \div 9030 + 15
             ELSE IF current + 1 > 0 THEN ((current + 1) * 15) \div 3870
             ELSE 0
    BY <1>1, GaugeCases
<1>4. /\ analog <= 11400 => current <= 0
      /\ analog <= 24300 => current <= 12900
      /\ analog = 24300 => current = 12900
    OBVIOUS
<1> HIDE DEF current, less, more
<1>5. less \in Nat /\ (current <= 0 => less = 0)
    BY <1>1, <1>2
<1>6. (current <= 12900 => less <= 100) /\ (current = 12900 => less = 100)
    BY <1>1, <1>2
<1>7. more \in {less, less + 1}
    <2>1. CASE current > 3870
        BY <1>1, <1>2, <1>3, <2>1
    <2>2. CASE current = 3870
        BY <1>1, <1>2, <1>3, <2>2
    <2>3. CASE current > 0 /\ current < 3870
        BY <1>1, <1>2, <1>3, <2>3
    <2>4. CASE current <= 0
        BY <1>1, <1>2, <1>3, <2>4
    <2> QED BY <1>1, <2>1, <2>2, <2>3, <2>4
<1> QED BY <1>4, <1>5, <1>6, <1>7 DEF less, more

\* How many lights are green.
Lit(gauge) == IF gauge > 80 THEN 5 ELSE IF gauge > 60 THEN 4 ELSE IF gauge > 40 THEN 3
              ELSE IF gauge > 20 THEN 2 ELSE IF gauge > 0 THEN 1 ELSE 0

LEMMA BarCases ==
    ASSUME NEW gauge \in Int
    PROVE  /\ \A i \in Battery!Lights : Battery!Bar(gauge)[i] = "green" <=> i < Lit(gauge)
           /\ Battery!Bar(gauge)[0] = "red" <=> gauge <= 0
<1> USE DEF Battery!Bar, Battery!AllButLast, Battery!Lights, Lit
<1>1. CASE gauge > 80
    BY <1>1
<1>2. CASE gauge \in 61..80
    BY <1>2
<1>3. CASE gauge \in 41..60
    BY <1>3
<1>4. CASE gauge \in 21..40
    BY <1>4
<1>5. CASE gauge \in 1..20
    BY <1>5
<1>6. CASE gauge <= 0
    BY <1>6
<1> QED BY <1>1, <1>2, <1>3, <1>4, <1>5, <1>6

LEMMA GaugeIsTold ==
    ASSUME NEW analog \in Int
    PROVE  Battery!GaugeRises(analog)
<1> DEFINE less == Battery!Gauge(analog)
           more == Battery!Gauge(analog + 1)
<1>1. /\ less \in Nat /\ more \in {less, less + 1}
      /\ analog <= Battery!MinBattery => less = 0
      /\ analog <= Battery!MaxBattery => less <= 100
      /\ analog = Battery!MaxBattery => less = 100
    BY GaugeSteps DEF Battery!MinBattery, Battery!MaxBattery
<1> HIDE DEF less, more
<1>2. analog <= Battery!MaxBattery => less \in 0..100
    BY <1>1
<1> QED BY <1>1, <1>2 DEF Battery!GaugeRises, less, more

LEMMA LightsAreTold ==
    ASSUME NEW gauge \in Int
    PROVE  Battery!LightsRise(gauge)
<1> DEFINE green(g) == {i \in Battery!Lights : Battery!Bar(g)[i] = "green"}
<1>1. Lit(gauge) <= Lit(gauge + 1) /\ Lit(gauge) \in Nat /\ Lit(gauge + 1) \in Nat
    BY DEF Lit
<1>2. green(gauge) \subseteq green(gauge + 1)
    BY <1>1, BarCases DEF Battery!Lights
<1>3. green(gauge) = {} <=> Lit(gauge) = 0
    <2>1. 0 \in Battery!Lights /\ \A i \in Battery!Lights : i \in Nat
        BY DEF Battery!Lights
    <2>2. \A i \in Battery!Lights : Battery!Bar(gauge)[i] = "green" <=> i < Lit(gauge)
        BY BarCases
    <2> QED BY <1>1, <2>1, <2>2
<1>4. Lit(gauge) = 0 <=> gauge <= 0
    BY DEF Lit
<1>5. (green(gauge) = {}) = (Battery!Bar(gauge)[0] = "red")
    BY <1>3, <1>4, BarCases
<1> QED BY <1>2, <1>5 DEF Battery!LightsRise

\* The first line of the server stops the timer and makes the bar green for good.
BootInv ==
    /\ said \in 0..2 /\ timer \in BOOLEAN /\ serverLed \in BOOLEAN
    /\ said > 0 => timer = FALSE /\ bar = Boot!All("green")
    /\ serverLed => said > 0

LEMMA BootNext ==
    ASSUME BootInv, Boot!Next
    PROVE  BootInv'
<1> USE DEF BootInv
<1>1. CASE Boot!BootWait
    BY <1>1 DEF Boot!BootWait, Boot!All, Boot!Lights
<1>2. CASE Boot!ServerLine
    <2>1. said < 2 /\ said' = said + 1
        BY <1>2 DEF Boot!ServerLine
    <2>2. /\ timer' = FALSE
          /\ bar' = IF Boot!Lines[said'] = "boot completed" THEN Boot!All("green") ELSE bar
          /\ serverLed' \in BOOLEAN
        BY <1>2 DEF Boot!ServerLine, Boot!ReadLine
    <2>3. Boot!All("green")' = Boot!All("green")
        BY DEF Boot!All, Boot!Lights
    <2>4. (said = 0 \/ said = 1) /\ said' \in 0..2 /\ said' > 0
        BY <2>1
    <2>5. CASE said = 0
        <3>1. said' = 1
            BY <2>1, <2>5
        <3>2. Boot!Lines[said'] = "boot completed"
            BY <3>1 DEF Boot!Lines
        <3> QED BY <2>2, <2>3, <2>4, <3>2
    <2>6. CASE said = 1
        <3>1. bar = Boot!All("green")
            BY <2>6
        <3> QED BY <2>2, <2>3, <2>4, <3>1
    <2> QED BY <2>4, <2>5, <2>6
<1>3. CASE Boot!TextLine
    BY <1>3 DEF Boot!TextLine, Boot!ReadLine, Boot!All, Boot!Lights
<1> QED BY <1>1, <1>2, <1>3 DEF Boot!Next

\* The gauge rises with the voltage (readBatterGauge), the bar with the number that the
\* Arduino is sent (batteryState), and the bar is green while the server is told to be on.
THEOREM PartsLightsTell == PartsSpec => []LightsTell
<1> DEFINE Inv == /\ part = "battery" => input \in Voltages
                  /\ part = "bar" => input \in Gauges
                  /\ BootInv
<1>1. PartsInit => Inv
    <2> SUFFICES ASSUME PartsInit PROVE Inv
        OBVIOUS
    <2>1. said = 0 /\ timer = TRUE /\ serverLed = FALSE
        BY DEF PartsInit, Boot!Init
    <2>2. said \in 0..2 /\ ~(said > 0)
        BY <2>1
    <2>3. BootInv
        BY <2>1, <2>2 DEF BootInv
    <2> QED BY <2>3 DEF PartsInit
<1>2. Inv /\ [PartsNext]_partsVars => Inv'
    <2> SUFFICES ASSUME Inv, [PartsNext]_partsVars
                 PROVE  Inv'
        OBVIOUS
    <2>1. UNCHANGED <<part, input>>
        BY DEF PartsNext, partsVars, Timing, ChangeSettings, ListFolders, StartArduino
    <2>2. CASE StartArduino
        BY <2>1, <2>2, BootNext DEF StartArduino
    <2>3. CASE UNCHANGED bootVars
        BY <2>1, <2>3 DEF bootVars, BootInv
    <2> QED BY <2>2, <2>3 DEF PartsNext, partsVars, Timing, ChangeSettings, ListFolders
<1>3. Inv => LightsTell
    <2>1. BootInv => Boot!StartedIsGreen
        BY DEF BootInv, Boot!StartedIsGreen
    <2> QED BY <2>1, InputAssumption, GaugesAssumption, GaugeIsTold, LightsAreTold DEF LightsTell
<1> QED BY <1>1, <1>2, <1>3, PTL DEF PartsSpec

-----------------------------------------------------------------------------
(* The timing measurement: types, and what a step of a search does.         *)

\* The measurements are not over before the average is made of them.
RoundInv == phase \in Searches \union {"begin", "told"} => round < Rounds

TimingTypes ==
    /\ TypeOK /\ RoundInv
    /\ \A s \in Searches \ {"level"} : edge[s] \in Nat
    /\ signal \in [coarse : [0..CoarseMax -> Levels], medium : [0..MediumMax -> Levels]]

\* A steady signal is known by any sample; an unsteady one is not mistaken for a
\* steady one when it is looked at more than once.
LEMMA Steady ==
    ASSUME NEW n \in {1, Samples}, NEW level \in Levels, NEW result \in Results(level, n)
    PROVE  /\ level = "high" => High(result, n)
           /\ level = "low" => Low(result, n)
           /\ n = Samples /\ High(result, n) => level = "high"
           /\ n = Samples /\ Low(result, n) => level = "low"
<1> USE SamplesAssumption
<1>1. n \in Nat /\ n > 0 /\ result \in 0..n
    BY DEF Results
<1>2. ~(High(result, n) /\ Low(result, n))
    BY <1>1 DEF High, Low
<1>3. CASE level = "high"
    BY <1>2, <1>3 DEF Results
<1>4. CASE level = "low"
    BY <1>2, <1>4 DEF Results
<1>5. CASE level = "unsteady"
    BY <1>5 DEF Results
<1> QED BY <1>3, <1>4, <1>5 DEF Levels

\* The registers once the delay that a search tries is set, and the signal there.
Set(s) == VarSetIntValue(register, s, counter)
Seen(s) == SignalAt(Set(s), s)

\* The three things one iteration may do: go on to the next delay, look at this one
\* more closely, or end the search.
GoesOn(s) ==
    /\ register' = Set(s) /\ counter' = counter + 1
    /\ UNCHANGED <<phase, fast, edge>>
    /\ Seen(s) \in Levels => Seen(s) # IF s = "level" THEN "high" ELSE "low"
LooksCloser(s) ==
    /\ register' = Set(s) /\ fast' = FALSE
    /\ UNCHANGED <<phase, counter, edge>>
EndsHere(s) ==
    /\ register' = VarSetIntValue(Set(s), s, Told(s))
    /\ Ends(s, Told(s))
    /\ Seen(s) \in Levels => Seen(s) = IF s = "level" THEN "high" ELSE "low"

LEMMA ProbeCases ==
    ASSUME TypeOK, NEW s \in Searches, Probe(s)
    PROVE  /\ phase = s /\ counter <= Limit(s)
           /\ GoesOn(s) \/ LooksCloser(s) \/ EndsHere(s)
           /\ UNCHANGED <<signal, found, round, sum, adjust>>
<1>1. phase = s /\ counter <= Limit(s) /\ UNCHANGED <<signal, found, round, sum, adjust>>
    BY DEF Probe
<1> DEFINE n == IF fast THEN 1 ELSE Samples
<1>2. PICK result \in Results(Seen(s), n) :
            \/ /\ ~Matches(s, result, n)
               /\ register' = Set(s)
               /\ counter' = counter + 1
               /\ UNCHANGED <<phase, fast, edge>>
            \/ /\ Matches(s, result, n) /\ fast
               /\ register' = Set(s)
               /\ fast' = FALSE
               /\ UNCHANGED <<phase, counter, edge>>
            \/ /\ Matches(s, result, n) /\ ~fast
               /\ register' = VarSetIntValue(Set(s), s, Told(s))
               /\ Ends(s, Told(s))
    BY DEF Probe, Set, Seen
<1>3. n \in {1, Samples} /\ (~fast => n = Samples)
    OBVIOUS
<1> HIDE DEF n
<1>4. CASE ~Matches(s, result, n) /\ register' = Set(s) /\ counter' = counter + 1
              /\ UNCHANGED <<phase, fast, edge>>
    <2>1. Seen(s) \in Levels => Seen(s) # IF s = "level" THEN "high" ELSE "low"
        BY <1>3, <1>4, Steady DEF Matches
    <2> QED BY <1>1, <1>4, <2>1 DEF GoesOn
<1>5. CASE register' = Set(s) /\ fast' = FALSE /\ UNCHANGED <<phase, counter, edge>>
    BY <1>1, <1>5 DEF LooksCloser
<1>6. CASE Matches(s, result, n) /\ ~fast /\ Ends(s, Told(s))
              /\ register' = VarSetIntValue(Set(s), s, Told(s))
    <2>1. Seen(s) \in Levels => Seen(s) = IF s = "level" THEN "high" ELSE "low"
        BY <1>3, <1>6, Steady DEF Matches
    <2> QED BY <1>1, <1>6, <2>1 DEF EndsHere
<1> QED BY <1>2, <1>4, <1>5, <1>6

\* A register keeps its value when 1 is to be written, or what is no delay at all.
LEMMA SetValue ==
    ASSUME NEW reg \in [coarse : Nat, medium : Nat], NEW s \in Searches, NEW value \in Int
    PROVE  /\ VarSetIntValue(reg, s, value) \in [coarse : Nat, medium : Nat]
           /\ \A r \in {"coarse", "medium"} :
                 VarSetIntValue(reg, s, value)[r] =
                    IF r = Tuned(s) /\ value \in 0..999 /\ value # 1 THEN value ELSE reg[r]
<1>1. Tuned(s) \in {"coarse", "medium"}
    BY DEF Tuned
<1>2. CASE value \in 0..999 /\ value # 1
    <2>1. VarSetIntValue(reg, s, value) = [reg EXCEPT ![Tuned(s)] = value] /\ value \in Nat
        BY <1>2 DEF VarSetIntValue
    <2>2. CASE Tuned(s) = "coarse"
        BY <1>2, <2>1, <2>2
    <2>3. CASE Tuned(s) = "medium"
        BY <1>2, <2>1, <2>3
    <2> QED BY <1>1, <2>2, <2>3
<1>3. CASE ~(value \in 0..999 /\ value # 1)
    BY <1>1, <1>3 DEF VarSetIntValue
<1> QED BY <1>2, <1>3

\* The same, register by register.
LEMMA RegisterSet ==
    ASSUME NEW reg \in [coarse : Nat, medium : Nat], NEW s \in Searches, NEW value \in Int
    PROVE  /\ Tuned(s) = "coarse" =>
                 /\ VarSetIntValue(reg, s, value).medium = reg.medium
                 /\ value \in 0..999 /\ value # 1 =>
                        VarSetIntValue(reg, s, value).coarse = value
           /\ Tuned(s) = "medium" =>
                 /\ VarSetIntValue(reg, s, value).coarse = reg.coarse
                 /\ value \in 0..999 /\ value # 1 =>
                        VarSetIntValue(reg, s, value).medium = value
                 /\ ~(value \in 0..999 /\ value # 1) =>
                        VarSetIntValue(reg, s, value).medium = reg.medium
<1>1. \A r \in {"coarse", "medium"} :
          VarSetIntValue(reg, s, value)[r] =
             IF r = Tuned(s) /\ value \in 0..999 /\ value # 1 THEN value ELSE reg[r]
    BY SetValue
<1>2. /\ VarSetIntValue(reg, s, value)["coarse"] =
             IF "coarse" = Tuned(s) /\ value \in 0..999 /\ value # 1
             THEN value ELSE reg["coarse"]
      /\ VarSetIntValue(reg, s, value)["medium"] =
             IF "medium" = Tuned(s) /\ value \in 0..999 /\ value # 1
             THEN value ELSE reg["medium"]
    BY <1>1
<1>3. CASE Tuned(s) = "coarse"
    BY <1>2, <1>3
<1>4. CASE Tuned(s) = "medium"
    BY <1>2, <1>4
<1> QED BY <1>3, <1>4 DEF Tuned

\* A quotient leaves less than the divisor, or just the divisor.
LEMMA Quotient ==
    ASSUME NEW n \in Nat, NEW d \in Nat \ {0}, NEW q \in Quotients(n, d)
    PROVE  q \in Nat /\ n - d * q \in 0..d
<1>1. /\ n \div d \in Nat /\ n % d \in 0..(d - 1) /\ n = d * (n \div d) + (n % d)
    OBVIOUS
<1> DEFINE whole == n \div d
           rest == n % d
<1>2. whole \in Nat /\ rest \in 0..(d - 1) /\ n = d * whole + rest
    BY <1>1
<1>3. q = whole \/ (n > 0 /\ rest = 0 /\ q = whole - 1)
    BY DEF Quotients
<1> HIDE DEF whole, rest
<1>4. CASE q = whole
    BY <1>2, <1>4
<1>5. CASE n > 0 /\ rest = 0 /\ q = whole - 1
    <2>1. n = d * whole /\ whole # 0
        BY <1>2, <1>5
    <2>2. d * whole - d * (whole - 1) = d
        BY <1>2
    <2> QED BY <1>2, <1>5, <2>1, <2>2
<1> QED BY <1>3, <1>4, <1>5

\* What is adjusted, of any excess: to one fine element of it, with whole elements of
\* each kind.
LEMMA Split ==
    ASSUME NEW temp \in Nat, NEW parts \in SplitExcess(temp)
    PROVE  /\ parts \in [coarse : Nat, medium : Nat, fine : Nat]
           /\ 10 * temp - (10000 * parts.coarse + 310 * parts.medium + 17 * parts.fine) \in 0..17
<1>1. PICK coarse \in Quotients(temp, 1000) :
          \E medium \in Quotients(temp - 1000 * coarse, 31) :
             \E fine \in Quotients(10 * (temp - 1000 * coarse - 31 * medium), 17) :
                parts = [coarse |-> coarse, medium |-> medium, fine |-> fine]
    BY DEF SplitExcess
<1>2. coarse \in Nat /\ temp - 1000 * coarse \in Nat
    BY Quotient
<1>3. PICK medium \in Quotients(temp - 1000 * coarse, 31) :
          \E fine \in Quotients(10 * (temp - 1000 * coarse - 31 * medium), 17) :
             parts = [coarse |-> coarse, medium |-> medium, fine |-> fine]
    BY <1>1
<1>4. medium \in Nat /\ temp - 1000 * coarse - 31 * medium \in Nat
    BY <1>2, Quotient
<1>5. PICK fine \in Quotients(10 * (temp - 1000 * coarse - 31 * medium), 17) :
          parts = [coarse |-> coarse, medium |-> medium, fine |-> fine]
    BY <1>3
<1> DEFINE left == temp - 1000 * coarse - 31 * medium
<1>6. left \in Nat /\ fine \in Quotients(10 * left, 17)
    BY <1>4, <1>5
<1>7. left = temp - 1000 * coarse - 31 * medium
    OBVIOUS
<1> HIDE DEF left
<1>8. fine \in Nat /\ 10 * left - 17 * fine \in 0..17
    <2> DEFINE tenths == 10 * left
    <2>1. tenths \in Nat /\ fine \in Quotients(tenths, 17)
        BY <1>6
    <2> HIDE DEF tenths
    <2>2. 17 \in Nat \ {0}
        OBVIOUS
    <2>3. fine \in Nat /\ tenths - 17 * fine \in 0..17
        BY <2>1, <2>2, Quotient, Zenon
    <2> QED BY <2>3 DEF tenths
<1>9. 10 * temp - (10000 * coarse + 310 * medium + 17 * fine) = 10 * left - 17 * fine
    BY <1>2, <1>4, <1>6, <1>7, <1>8
<1> QED BY <1>2, <1>4, <1>5, <1>8, <1>9

LEMMA TimingStart == Init => TimingTypes
<1> SUFFICES ASSUME Init PROVE TimingTypes
    OBVIOUS
<1>1. register \in [coarse : Nat, medium : Nat]
    BY DelaysAssumption DEF Init
<1>2. edge \in [Searches -> Int] /\ \A s \in Searches : edge[s] = 0
    BY DEF Init
<1>3. round \in 0..Rounds /\ sum \in Nat /\ round < Rounds
    BY AveragesAssumption DEF Init
<1>4. phase = "begin" /\ counter \in Int /\ fast \in BOOLEAN /\ found \in BOOLEAN
      /\ adjust \in [coarse : Nat, medium : Nat, fine : Nat]
    BY DEF Init
<1>5. signal \in [coarse : [0..CoarseMax -> Levels], medium : [0..MediumMax -> Levels]]
    BY DEF Init
<1> QED BY <1>1, <1>2, <1>3, <1>4, <1>5 DEF TimingTypes, TypeOK, RoundInv

\* A measurement is never negative.
LEMMA ValueNat ==
    ASSUME TimingTypes
    PROVE  Value \in Nat
<1>1. edge["coarse"] \in Nat /\ edge["medium"] \in Nat /\ edge["fine"] \in Nat
    BY DEF TimingTypes, Searches
<1>2. edge["medium"] \div MediumInCoarse \in Nat /\ edge["fine"] \div FineInMedium \in Nat
    BY <1>1, AveragesAssumption
<1>3. (edge["fine"] \div FineInMedium) \div MediumInCoarse \in Nat
    BY <1>2, AveragesAssumption
<1> QED BY <1>1, <1>2, <1>3 DEF Value

LEMMA TimingNext ==
    ASSUME TimingTypes, [Next]_vars
    PROVE  TimingTypes'
<1> USE DEF TimingTypes, TypeOK, RoundInv
<1>1. ASSUME NEW s \in Searches, Probe(s)
      PROVE  TimingTypes'
    <2>1. phase = s /\ UNCHANGED <<signal, found, round, sum, adjust>>
        BY <1>1, ProbeCases
    <2>2. /\ Set(s) \in [coarse : Nat, medium : Nat]
          /\ Told(s) \in Int /\ (s # "level" => Told(s) \in Nat)
        <3>1. register \in [coarse : Nat, medium : Nat] /\ counter \in Int
            OBVIOUS
        <3>2. Set(s) \in [coarse : Nat, medium : Nat]
            BY <3>1, SetValue DEF Set
        <3>3. Told(s) \in Int /\ (s # "level" => Told(s) \in Nat)
            BY <3>1 DEF Told
        <3> QED BY <3>2, <3>3
    <2>3. CASE GoesOn(s)
        BY <2>1, <2>2, <2>3 DEF GoesOn
    <2>4. CASE LooksCloser(s)
        BY <2>1, <2>2, <2>4 DEF LooksCloser
    <2>5. CASE EndsHere(s)
        <3>1. register' \in [coarse : Nat, medium : Nat]
            BY <2>2, <2>5, SetValue DEF EndsHere
        <3>2. edge' = [edge EXCEPT ![s] = Told(s)] /\ phase' = Following(s) /\ fast' = TRUE
              /\ counter' \in Int
            BY <2>2, <2>5 DEF EndsHere, Ends
        <3>3. edge' \in [Searches -> Int] /\ \A r \in Searches \ {"level"} : edge'[r] \in Nat
            BY <2>2, <3>2
        <3>4. phase' \in {"coarse", "medium", "fine", "told"}
            BY <3>2 DEF Following, Searches
        <3> QED BY <2>1, <3>1, <3>2, <3>3, <3>4 DEF Searches
    <2> QED BY <1>1, <2>3, <2>4, <2>5, ProbeCases
<1>2. ASSUME NEW s \in Searches, Exhausted(s)
      PROVE  TimingTypes'
    <2>1. PICK told \in IF s = "level" THEN Garbage ELSE {counter} : Ends(s, told)
        BY <1>2 DEF Exhausted
    <2>2. /\ phase = s /\ counter > Limit(s)
          /\ found' = (found /\ s # "level") /\ UNCHANGED <<register, signal, round, sum, adjust>>
        BY <1>2 DEF Exhausted
    <2>3. told \in Int /\ (s # "level" => told \in Nat)
        <3>1. Limit(s) \in Nat
            <4>1. CoarseMax \in Nat /\ MediumMax \in Nat /\ FineMax \in Nat
                BY DelaysAssumption
            <4> QED BY <4>1 DEF Limit, Searches
        <3> QED BY <2>1, <2>2, <3>1, GarbageAssumption
    <2>4. /\ edge' = [edge EXCEPT ![s] = told] /\ phase' = Following(s) /\ fast' = TRUE
          /\ counter' \in Int
        BY <2>1, <2>3 DEF Ends
    <2>5. edge' \in [Searches -> Int] /\ \A r \in Searches \ {"level"} : edge'[r] \in Nat
        BY <2>3, <2>4
    <2>6. phase' \in {"coarse", "medium", "fine", "told"}
        BY <2>4 DEF Following, Searches
    <2>7. found' \in BOOLEAN
        BY <2>2
    <2> QED BY <2>2, <2>4, <2>5, <2>6, <2>7 DEF Searches
<1>3. CASE Begin
    <2>1. register' \in [coarse : Nat, medium : Nat]
        BY <1>3, DelaysAssumption DEF Begin, Tune
    <2>2. counter' \in Int
        BY <1>3, DelaysAssumption DEF Begin
    <2> QED BY <1>3, <2>1, <2>2 DEF Begin, Searches
<1>4. CASE EndRound
    <2>1. sum' \in Nat
        BY <1>4, ValueNat DEF EndRound
    <2>2. round' \in 0..Rounds /\ phase' \in {"adjust", "begin"}
          /\ (phase' = "begin" => round' < Rounds)
        BY <1>4, AveragesAssumption DEF EndRound
    <2> QED BY <1>4, <2>1, <2>2 DEF EndRound, Searches
<1>5. CASE Adjust
    <2>1. adjust' \in [coarse : Nat, medium : Nat, fine : Nat]
        <3>1. Excess \in Int
            BY AveragesAssumption DEF Excess
        <3>2. CASE Excess > 0
            <4>1. adjust' \in SplitExcess(Excess) /\ Excess \in Nat
                BY <1>5, <3>1, <3>2 DEF Adjust
            <4> QED BY <4>1, Split
        <3>3. CASE ~(Excess > 0)
            BY <1>5, <3>3 DEF Adjust
        <3> QED BY <3>2, <3>3
    <2>2. register' \in [coarse : Nat, medium : Nat]
        <3>1. register' = [coarse |-> CoarseTune + adjust'.coarse,
                           medium |-> MediumTune + adjust'.medium]
            BY <1>5 DEF Adjust, Tune
        <3>2. adjust'.coarse \in Nat /\ adjust'.medium \in Nat
            BY <2>1
        <3> QED BY <3>1, <3>2, DelaysAssumption
    <2> QED BY <1>5, <2>1, <2>2 DEF Adjust, Searches
<1>6. CASE UNCHANGED vars
    BY <1>6 DEF vars
<1> QED BY <1>1, <1>2, <1>3, <1>4, <1>5, <1>6 DEF Next

-----------------------------------------------------------------------------
(* The searches for the coarse delay.                                       *)

\* No delay from "from" up to the one being tried is steadily at level.
NoneYet(from, level) == \A d \in from..(counter - 1) : signal.coarse[d] # level

CoarseInv ==
    /\ phase = "level" =>
          found /\ counter >= Start /\ NoneYet(Start, "high")
    /\ phase = "coarse" /\ found =>
          /\ IsFirst(signal.coarse, edge["level"], Start, "high")
          /\ counter > edge["level"] /\ counter <= CoarseMax + 1
          /\ NoneYet(edge["level"] + 1, "low")
    /\ CoarseEdgeFirst

LEMMA CoarseProbe ==
    ASSUME TimingTypes, CoarseInv, NEW s \in {"level", "coarse"}, Probe(s), found
    PROVE  CoarseInv'
<1> DEFINE level == IF s = "level" THEN "high" ELSE "low"
           from == IF s = "level" THEN Start ELSE edge["level"] + 1
<1>1. /\ phase = s /\ counter <= CoarseMax /\ UNCHANGED <<signal, found>>
      /\ counter \in Int /\ register \in [coarse : Nat, medium : Nat]
      /\ signal.coarse \in [0..CoarseMax -> Levels]
      /\ edge \in [Searches -> Int] /\ s \in Searches
    BY ProbeCases DEF TimingTypes, TypeOK, Limit, Searches
<1>2. /\ s = "coarse" => IsFirst(signal.coarse, edge["level"], Start, "high")
      /\ from > 1 /\ from \in Int /\ counter >= from
      /\ \A d \in from..(counter - 1) : signal.coarse[d] # level
    BY <1>1, DelaysAssumption DEF CoarseInv, NoneYet, IsFirst
<1> HIDE DEF from, level
<1>3. counter \in 0..CoarseMax /\ counter > 1 /\ counter # 1 /\ counter \in 0..999
    <2>1. counter \in Int /\ counter > 1 /\ counter <= CoarseMax
        BY <1>1, <1>2
    <2>2. CoarseMax \in Nat /\ CoarseMax <= 998
        BY DelaysAssumption
    <2> QED BY <2>1, <2>2
<1>4. Tuned(s) = "coarse"
    BY DEF Tuned
<1>5. Set(s) \in [coarse : Nat, medium : Nat] /\ Set(s).coarse = counter
    <2>1. Set(s) \in [coarse : Nat, medium : Nat]
        BY <1>1, SetValue DEF Set
    <2>2. Set(s).coarse = counter
        BY <1>1, <1>3, <1>4, RegisterSet DEF Set
    <2> QED BY <2>1, <2>2
<1>6. Seen(s) = signal.coarse[counter] /\ Seen(s) \in Levels
    BY <1>1, <1>3, <1>4, <1>5 DEF Seen, SignalAt
<1>7. DOMAIN signal.coarse = 0..CoarseMax
    BY <1>1
<1>8. CASE GoesOn(s)
    <2>1. counter' = counter + 1 /\ phase' = s /\ edge' = edge /\ signal.coarse[counter] # level
        BY <1>1, <1>6, <1>8 DEF GoesOn, level
    <2>2. \A d \in from..(counter' - 1) : signal.coarse[d] # level
        BY <1>1, <1>2, <2>1
    <2>3. counter' >= from /\ counter' <= CoarseMax + 1
        BY <1>1, <1>2, <2>1, DelaysAssumption
    <2>4. CASE s = "level"
        <3>1. level = "high" /\ from = Start
            BY <2>4 DEF level, from
        <3> QED BY <1>1, <2>1, <2>2, <2>3, <2>4, <3>1 DEF CoarseInv, NoneYet, CoarseEdgeFirst
    <2>5. CASE s = "coarse"
        <3>1. level = "low" /\ from = edge["level"] + 1 /\ edge["level"] \in Int
            BY <1>1, <2>5 DEF level, from, Searches
        <3>2. counter' > edge["level"]
            BY <1>1, <2>1, <2>3, <3>1
        <3> QED BY <1>1, <1>2, <2>1, <2>2, <2>3, <2>5, <3>1, <3>2
                DEF CoarseInv, NoneYet, CoarseEdgeFirst
    <2> QED BY <2>4, <2>5
<1>9. CASE LooksCloser(s)
    BY <1>1, <1>2, <1>9 DEF LooksCloser, CoarseInv, NoneYet, CoarseEdgeFirst
<1>10. CASE EndsHere(s)
    <2>1. /\ edge' = [edge EXCEPT ![s] = Told(s)] /\ phase' = Following(s)
          /\ counter' = IF s = "level" THEN Told(s) + 1 ELSE 0
          /\ signal.coarse[counter] = level
          /\ register' = VarSetIntValue(Set(s), s, Told(s))
        BY <1>1, <1>6, <1>10 DEF EndsHere, Ends, level
    <2>2. CASE s = "level"
        <3>1. Told(s) = counter /\ phase' = "coarse" /\ edge'["level"] = counter
              /\ counter' = counter + 1
            BY <1>1, <2>1, <2>2 DEF Told, Following, Searches
        <3>2. level = "high" /\ from = Start
            BY <2>2 DEF level, from
        <3>3. IsFirst(signal.coarse, counter, Start, "high")
            BY <1>2, <1>3, <1>7, <2>1, <3>2 DEF IsFirst
        <3>4. counter' > edge'["level"] /\ counter' <= CoarseMax + 1
              /\ edge'["level"] + 1 > counter' - 1
            BY <1>1, <3>1, DelaysAssumption
        <3> QED BY <1>1, <3>1, <3>3, <3>4 DEF CoarseInv, NoneYet, CoarseEdgeFirst
    <2>3. CASE s = "coarse"
        <3>1. Told(s) = counter - 1 /\ phase' = "medium"
              /\ edge'["coarse"] = counter - 1 /\ edge'["level"] = edge["level"]
            <4>1. counter \in Int /\ counter > 1
                BY <1>3
            <4>2. Told(s) = counter - 1
                BY <2>3, <4>1 DEF Told
            <4>3. phase' = "medium"
                BY <2>1, <2>3 DEF Following
            <4> QED BY <1>1, <2>1, <2>3, <4>2, <4>3 DEF Searches
        <3>2. level = "low" /\ from = edge["level"] + 1 /\ edge["level"] \in Int
              /\ edge["level"] >= Start
            BY <1>1, <1>2, <2>3 DEF level, from, Searches, IsFirst
        <3>3. counter - 1 \in 0..999 /\ counter - 1 # 1 /\ counter - 1 \in Int
            BY <1>2, <1>3, <3>2, DelaysAssumption
        <3>4. register'.coarse = counter - 1
            <4>1. register' = VarSetIntValue(Set(s), s, counter - 1)
                BY <2>1, <3>1
            <4> QED BY <1>1, <1>4, <1>5, <3>3, <4>1, RegisterSet
        <3>5. IsFirst(signal.coarse, counter, edge["level"] + 1, "low")
            BY <1>2, <1>3, <1>7, <2>1, <3>2 DEF IsFirst
        <3>6. (counter - 1) + 1 = counter
            BY <1>1
        <3> QED BY <1>1, <1>2, <2>3, <3>1, <3>4, <3>5, <3>6
                DEF CoarseInv, CoarseEdgeFirst
    <2> QED BY <2>2, <2>3
<1> QED BY <1>8, <1>9, <1>10, ProbeCases DEF TimingTypes, Searches

LEMMA CoarseNext ==
    ASSUME TimingTypes, CoarseInv, [Next]_vars
    PROVE  CoarseInv'
<1> USE DEF TimingTypes, TypeOK
<1>1. ASSUME NEW s \in Searches, Probe(s)
      PROVE  CoarseInv'
    <2>1. phase = s /\ UNCHANGED <<signal, found, round, sum, adjust>>
        BY <1>1, ProbeCases
    <2>2. CASE s = "level" \/ (s = "coarse" /\ found)
        <3>1. found
            BY <2>1, <2>2 DEF CoarseInv
        <3> QED BY <1>1, <2>2, <3>1, CoarseProbe
    <2>3. CASE s = "coarse" /\ ~found
        <3>1. phase' \in {"coarse", "medium"} /\ ~found'
            BY <1>1, <2>1, <2>3, ProbeCases DEF GoesOn, LooksCloser, EndsHere, Ends, Following
        <3> QED BY <3>1 DEF CoarseInv, CoarseEdgeFirst
    <2>4. CASE s = "medium"
        <3>1. Tuned(s) = "medium" /\ counter \in Int
              /\ register \in [coarse : Nat, medium : Nat]
            BY <2>4 DEF Tuned
        <3>2. Set(s) \in [coarse : Nat, medium : Nat] /\ Set(s).coarse = register.coarse
            <4>1. Set(s) \in [coarse : Nat, medium : Nat]
                BY <3>1, SetValue DEF Set
            <4>2. Set(s).coarse = register.coarse
                BY <3>1, RegisterSet DEF Set
            <4> QED BY <4>1, <4>2
        <3>3. Told(s) \in Int
            BY <3>1 DEF Told
        <3>4. /\ register'.coarse = register.coarse
              /\ edge'["level"] = edge["level"] /\ edge'["coarse"] = edge["coarse"]
              /\ phase' \in {"medium", "fine"}
            <4>1. CASE GoesOn(s)
                BY <2>1, <2>4, <3>2, <4>1 DEF GoesOn
            <4>2. CASE LooksCloser(s)
                BY <2>1, <2>4, <3>2, <4>2 DEF LooksCloser
            <4>3. CASE EndsHere(s)
                <5>1. register'.coarse = register.coarse
                    BY <3>1, <3>2, <3>3, <4>3, RegisterSet DEF EndsHere
                <5> QED BY <2>4, <4>3, <5>1 DEF EndsHere, Ends, Following, Searches
            <4> QED BY <1>1, <4>1, <4>2, <4>3, ProbeCases
        <3> QED BY <2>1, <2>4, <3>4 DEF CoarseInv, CoarseEdgeFirst
    <2>5. CASE s = "fine"
        <3>1. phase' \in {"fine", "told"}
            BY <1>1, <2>1, <2>5, ProbeCases DEF GoesOn, LooksCloser, EndsHere, Ends, Following
        <3> QED BY <3>1 DEF CoarseInv, CoarseEdgeFirst
    <2> QED BY <2>2, <2>3, <2>4, <2>5 DEF Searches
<1>2. ASSUME NEW s \in Searches, Exhausted(s)
      PROVE  CoarseInv'
    <2>1. PICK told \in IF s = "level" THEN Garbage ELSE {counter} : Ends(s, told)
        BY <1>2 DEF Exhausted
    <2>2. /\ phase = s /\ counter > Limit(s)
          /\ found' = (found /\ s # "level") /\ UNCHANGED <<register, signal>>
          /\ edge' = [edge EXCEPT ![s] = told] /\ phase' = Following(s)
        BY <1>2, <2>1 DEF Exhausted, Ends
    <2>3. CASE s = "level"
        <3>1. ~found' /\ phase' = "coarse"
            BY <2>2, <2>3 DEF Following
        <3> QED BY <3>1 DEF CoarseInv, CoarseEdgeFirst
    <2>4. CASE s = "coarse"
        <3>1. phase' = "medium" /\ (found' => found)
            BY <2>2, <2>4 DEF Following
        <3>2. ASSUME found
              PROVE  /\ IsFirst(signal.coarse, edge["level"], Start, "high")
                     /\ edge'["level"] = edge["level"] /\ edge'["coarse"] = CoarseMax + 1
                     /\ \A d \in (edge["level"] + 1)..CoarseMax : signal.coarse[d] # "low"
            <4>1. counter <= CoarseMax + 1 /\ counter > CoarseMax /\ told = counter
                BY <2>1, <2>2, <2>4, <3>2 DEF CoarseInv, Limit
            <4>2. counter = CoarseMax + 1 /\ counter - 1 = CoarseMax
                BY <4>1, DelaysAssumption
            <4> QED BY <2>2, <2>4, <3>2, <4>1, <4>2 DEF CoarseInv, NoneYet, Searches
        <3> QED BY <2>2, <3>1, <3>2 DEF CoarseInv, CoarseEdgeFirst
    <2>5. CASE s \in {"medium", "fine"}
        <3>1. phase' \in {"fine", "told"}
            BY <2>2, <2>5 DEF Following
        <3> QED BY <3>1 DEF CoarseInv, CoarseEdgeFirst
    <2> QED BY <2>3, <2>4, <2>5 DEF Searches
<1>3. CASE Begin
    <2>1. phase' = "level" /\ counter' = Start /\ found'
        BY <1>3 DEF Begin
    <2>2. Start > counter' - 1 /\ counter' >= Start
        BY <2>1, DelaysAssumption
    <2> QED BY <2>1, <2>2, DelaysAssumption DEF CoarseInv, NoneYet, CoarseEdgeFirst
<1>4. CASE EndRound
    <2>1. phase' \in {"begin", "adjust"}
        BY <1>4 DEF EndRound
    <2> QED BY <2>1 DEF CoarseInv, CoarseEdgeFirst
<1>5. CASE Adjust
    BY <1>5 DEF Adjust, CoarseInv, CoarseEdgeFirst
<1>6. CASE UNCHANGED vars
    BY <1>6 DEF vars, CoarseInv, CoarseEdgeFirst, NoneYet
<1> QED BY <1>1, <1>2, <1>3, <1>4, <1>5, <1>6 DEF Next

-----------------------------------------------------------------------------
(* The searches for the medium and for the fine delay.  Both step the same  *)
(* register, where 1 is never written: at the delay 1 it still holds 0.     *)

Held(d) == IF d = 1 THEN 0 ELSE d
NoneLow(delays, n) == \A d \in 0..(n - 1) : delays[Held(d)] # "low"

\* What both searches tell: the delay before the first low one, or past the last.
IsEdge(delays, e) ==
    \/ e = MediumMax + 1 /\ NoneLow(delays, MediumMax + 1)
    \/ \E c \in 0..MediumMax :
          /\ delays[Held(c)] = "low" /\ NoneLow(delays, c)
          /\ e = IF c = 0 THEN 0 ELSE c - 1

\* There is one such delay.
LEMMA OneEdge ==
    ASSUME NEW delays, NEW e, NEW f, IsEdge(delays, e), IsEdge(delays, f)
    PROVE  e = f
<1> DEFINE Low1(c) == delays[Held(c)] = "low" /\ NoneLow(delays, c)
<1>1. MediumMax \in Nat
    BY DelaysAssumption
<1>2. ASSUME NEW c \in 0..MediumMax, NEW n \in Int, n > c, NoneLow(delays, n)
      PROVE  delays[Held(c)] # "low"
    <2>1. c \in 0..(n - 1)
        BY <1>1, <1>2
    <2> QED BY <1>2, <2>1 DEF NoneLow
<1>3. ASSUME NEW c \in 0..MediumMax, NEW d \in 0..MediumMax, Low1(c), Low1(d)
      PROVE  c = d
    <2>1. c \in Int /\ d \in Int /\ ~(c < d) /\ ~(d < c)
        BY <1>1, <1>2, <1>3
    <2> QED BY <2>1
<1>4. ASSUME NEW c \in 0..MediumMax, Low1(c)
      PROVE  ~NoneLow(delays, MediumMax + 1)
    <2>1. MediumMax + 1 \in Int /\ MediumMax + 1 > c
        BY <1>1, <1>4
    <2> QED BY <1>2, <1>4, <2>1
<1>5. CASE NoneLow(delays, MediumMax + 1)
    <2>1. e = MediumMax + 1 /\ f = MediumMax + 1
        BY <1>4, <1>5 DEF IsEdge
    <2> QED BY <2>1
<1>6. CASE ~NoneLow(delays, MediumMax + 1)
    <2>1. PICK c \in 0..MediumMax : Low1(c) /\ e = IF c = 0 THEN 0 ELSE c - 1
        BY <1>6 DEF IsEdge
    <2>2. PICK d \in 0..MediumMax : Low1(d) /\ f = IF d = 0 THEN 0 ELSE d - 1
        BY <1>6 DEF IsEdge
    <2>3. c = d
        BY <1>3, <2>1, <2>2
    <2> QED BY <2>1, <2>2, <2>3
<1> QED BY <1>5, <1>6

MediumInv ==
    /\ phase \in {"medium", "fine"} =>
          /\ counter \in 0..(MediumMax + 1)
          /\ counter = 1 => register.medium = 0
          /\ NoneLow(signal.medium, counter)
    /\ phase \in {"fine", "told"} => IsEdge(signal.medium, edge["medium"])
    /\ phase = "told" => IsEdge(signal.medium, edge["fine"])

LEMMA MediumProbe ==
    ASSUME TimingTypes, MediumInv, NEW s \in {"medium", "fine"}, Probe(s)
    PROVE  MediumInv'
<1>1. /\ phase = s /\ counter <= MediumMax /\ UNCHANGED signal
      /\ register \in [coarse : Nat, medium : Nat]
      /\ signal.medium \in [0..MediumMax -> Levels]
      /\ edge \in [Searches -> Int] /\ s \in Searches /\ Tuned(s) = "medium"
      /\ MediumMax \in Nat /\ MediumMax <= 998
    <2>1. FineMax = MediumMax /\ MediumMax \in Nat /\ MediumMax <= 998
        BY DelaysAssumption
    <2>2. Limit(s) = MediumMax
        BY <2>1 DEF Limit
    <2> QED BY <2>1, <2>2, ProbeCases DEF TimingTypes, TypeOK, Tuned, Searches
<1>2. /\ counter \in 0..MediumMax /\ counter \in Int
      /\ counter = 1 => register.medium = 0
      /\ NoneLow(signal.medium, counter)
      /\ s = "fine" => IsEdge(signal.medium, edge["medium"])
    BY <1>1 DEF MediumInv
<1>3. Set(s) \in [coarse : Nat, medium : Nat] /\ Set(s).medium = Held(counter)
    <2>1. Set(s) \in [coarse : Nat, medium : Nat]
        BY <1>1, <1>2, SetValue DEF Set
    <2>2. /\ register \in [coarse : Nat, medium : Nat] /\ counter \in Int
          /\ s \in Searches /\ Tuned(s) = "medium"
        BY <1>1, <1>2
    <2>3. CASE counter = 1
        <3>1. Set(s).medium = register.medium
            BY <2>3, <2>2, RegisterSet DEF Set
        <3> QED BY <1>2, <2>1, <2>3, <3>1 DEF Held
    <2>4. CASE counter # 1
        <3>1. counter \in 0..999
            BY <1>1, <1>2
        <3>2. Set(s).medium = counter
            BY <2>4, <2>2, <3>1, RegisterSet DEF Set
        <3> QED BY <2>1, <2>4, <3>2 DEF Held
    <2> QED BY <2>3, <2>4
<1>4. Seen(s) = signal.medium[Held(counter)] /\ Seen(s) \in Levels
    <2>1. Held(counter) \in 0..MediumMax
        BY <1>1, <1>2 DEF Held
    <2> QED BY <1>1, <1>3, <2>1 DEF Seen, SignalAt
<1>5. CASE GoesOn(s)
    <2>1. /\ counter' = counter + 1 /\ phase' = s /\ edge' = edge /\ register' = Set(s)
          /\ signal.medium[Held(counter)] # "low"
        BY <1>1, <1>4, <1>5 DEF GoesOn
    <2>2. NoneLow(signal.medium, counter + 1)
        BY <1>1, <1>2, <2>1 DEF NoneLow
    <2>3. counter + 1 \in 0..(MediumMax + 1)
        BY <1>1, <1>2
    <2>4. counter + 1 = 1 => register'.medium = 0
        BY <1>2, <1>3, <2>1 DEF Held
    <2> QED BY <1>1, <1>2, <2>1, <2>2, <2>3, <2>4 DEF MediumInv
<1>6. CASE LooksCloser(s)
    <2>1. counter' = counter /\ phase' = s /\ edge' = edge /\ register' = Set(s)
        BY <1>1, <1>6 DEF LooksCloser
    <2>2. counter = 1 => register'.medium = 0
        BY <1>3, <2>1 DEF Held
    <2> QED BY <1>1, <1>2, <2>1, <2>2 DEF MediumInv
<1>7. CASE EndsHere(s)
    <2>1. /\ edge' = [edge EXCEPT ![s] = Told(s)] /\ phase' = Following(s)
          /\ counter' = 0 /\ signal.medium[Held(counter)] = "low"
        BY <1>1, <1>4, <1>7 DEF EndsHere, Ends
    <2>2. Told(s) = IF counter = 0 THEN 0 ELSE counter - 1
        BY <1>2 DEF Told
    <2>3. IsEdge(signal.medium, Told(s))
        BY <1>2, <2>1, <2>2 DEF IsEdge
    <2>4. NoneLow(signal.medium, 0) /\ 0 \in 0..(MediumMax + 1)
        BY <1>1 DEF NoneLow
    <2>5. CASE s = "medium"
        <3>1. phase' = "fine" /\ edge'["medium"] = Told(s)
            BY <1>1, <2>1, <2>5 DEF Following, Searches
        <3> QED BY <1>1, <2>1, <2>3, <2>4, <3>1 DEF MediumInv
    <2>6. CASE s = "fine"
        <3>1. phase' = "told" /\ edge'["fine"] = Told(s) /\ edge'["medium"] = edge["medium"]
            BY <1>1, <2>1, <2>6 DEF Following, Searches
        <3> QED BY <1>1, <1>2, <2>3, <2>6, <3>1 DEF MediumInv
    <2> QED BY <2>5, <2>6
<1> QED BY <1>1, <1>5, <1>6, <1>7, ProbeCases DEF TimingTypes

LEMMA MediumNext ==
    ASSUME TimingTypes, MediumInv, [Next]_vars
    PROVE  MediumInv'
<1> USE DEF TimingTypes, TypeOK
<1>1. MediumMax \in Nat /\ FineMax = MediumMax
    BY DelaysAssumption
<1>2. ASSUME phase' = "medium", counter' = 0, signal' = signal
      PROVE  MediumInv'
    <2>1. 0 \in 0..(MediumMax + 1) /\ NoneLow(signal'.medium, 0)
        BY <1>1 DEF NoneLow
    <2> QED BY <1>2, <2>1 DEF MediumInv
<1>3. ASSUME phase' \in {"begin", "level", "coarse", "adjust", "done"}
      PROVE  MediumInv'
    BY <1>3 DEF MediumInv
<1>4. ASSUME NEW s \in Searches, Probe(s)
      PROVE  MediumInv'
    <2>1. phase = s /\ signal' = signal
        BY <1>4, ProbeCases
    <2>2. CASE s \in {"medium", "fine"}
        BY <1>4, <2>2, MediumProbe
    <2>3. CASE s \in {"level", "coarse"}
        <3>1. phase' \in {"level", "coarse"} \/ (phase' = "medium" /\ counter' = 0)
            BY <1>4, <2>1, <2>3, ProbeCases DEF GoesOn, LooksCloser, EndsHere, Ends, Following
        <3> QED BY <1>2, <1>3, <2>1, <3>1
    <2> QED BY <2>2, <2>3 DEF Searches
<1>5. ASSUME NEW s \in Searches, Exhausted(s)
      PROVE  MediumInv'
    <2>1. PICK told \in IF s = "level" THEN Garbage ELSE {counter} : Ends(s, told)
        BY <1>5 DEF Exhausted
    <2>2. /\ phase = s /\ counter > Limit(s) /\ signal' = signal
          /\ edge' = [edge EXCEPT ![s] = told] /\ phase' = Following(s)
          /\ counter' = IF s = "level" THEN told + 1 ELSE 0
        BY <1>5, <2>1 DEF Exhausted, Ends
    <2>3. CASE s \in {"level", "coarse"}
        <3>1. phase' = "coarse" \/ (phase' = "medium" /\ counter' = 0)
            BY <2>2, <2>3 DEF Following
        <3> QED BY <1>2, <1>3, <2>2, <3>1
    <2>4. CASE s \in {"medium", "fine"}
        <3>1. told = counter /\ counter > MediumMax /\ counter \in 0..(MediumMax + 1)
              /\ NoneLow(signal.medium, counter)
            BY <1>1, <2>1, <2>2, <2>4 DEF MediumInv, Limit
        <3>2. told = MediumMax + 1
            BY <1>1, <3>1
        <3>3. IsEdge(signal.medium, told)
            BY <3>1, <3>2 DEF IsEdge
        <3>4. NoneLow(signal.medium, 0) /\ 0 \in 0..(MediumMax + 1)
            BY <1>1 DEF NoneLow
        <3>5. CASE s = "medium"
            <4>1. phase' = "fine" /\ edge'["medium"] = told /\ counter' = 0
                BY <2>2, <3>5 DEF Following, Searches
            <4> QED BY <2>2, <3>3, <3>4, <4>1 DEF MediumInv
        <3>6. CASE s = "fine"
            <4>1. phase' = "told" /\ edge'["fine"] = told /\ edge'["medium"] = edge["medium"]
                BY <2>2, <3>6 DEF Following, Searches
            <4> QED BY <2>2, <3>3, <3>6, <4>1 DEF MediumInv
        <3> QED BY <2>4, <3>5, <3>6
    <2> QED BY <2>3, <2>4 DEF Searches
<1>6. CASE Begin
    BY <1>3, <1>6 DEF Begin
<1>7. CASE EndRound
    <2>1. phase' \in {"begin", "adjust"}
        BY <1>7 DEF EndRound
    <2> QED BY <1>3, <2>1
<1>8. CASE Adjust
    BY <1>3, <1>8 DEF Adjust
<1>9. CASE UNCHANGED vars
    BY <1>9 DEF vars, MediumInv
<1> QED BY <1>4, <1>5, <1>6, <1>7, <1>8, <1>9 DEF Next


-----------------------------------------------------------------------------
(* The adjustment, and the theorems.                                        *)

LEMMA AdjustNext ==
    ASSUME TimingTypes, AdjustmentCloses, [Next]_vars
    PROVE  AdjustmentCloses'
<1> USE DEF TimingTypes, TypeOK
<1>1. CASE Adjust
    <2>1. sum' = sum
        BY <1>1 DEF Adjust
    <2>2. Excess' = Excess
        BY <2>1 DEF Excess
    <2>3. Excess \in Int
        BY AveragesAssumption DEF Excess
    <2>4. CASE Excess > 0
        <3>1. Excess \in Nat /\ adjust' \in SplitExcess(Excess)
            BY <1>1, <2>3, <2>4 DEF Adjust
        <3>2. 10 * Excess - (10000 * adjust'.coarse + 310 * adjust'.medium
                             + 17 * adjust'.fine) \in 0..17
            BY <3>1, Split
        <3> QED BY <2>2, <2>4, <3>2 DEF AdjustmentCloses
    <2>5. CASE ~(Excess > 0)
        <3>1. adjust' = [coarse |-> 0, medium |-> 0, fine |-> 0]
            BY <1>1, <2>5 DEF Adjust
        <3>2. 10000 * adjust'.coarse + 310 * adjust'.medium + 17 * adjust'.fine = 0
            BY <3>1
        <3> QED BY <2>2, <2>5, <3>2 DEF AdjustmentCloses
    <2> QED BY <2>4, <2>5
<1>2. CASE UNCHANGED vars
    <2>1. phase' = phase /\ adjust' = adjust /\ sum' = sum
        BY <1>2 DEF vars
    <2>2. Excess' = Excess
        BY <2>1 DEF Excess
    <2> QED BY <2>1, <2>2 DEF AdjustmentCloses
<1>3. ASSUME phase' # "done"
      PROVE  AdjustmentCloses'
    BY <1>3 DEF AdjustmentCloses
<1>4. ASSUME NEW s \in Searches, Probe(s)
      PROVE  phase' # "done"
    BY <1>4, ProbeCases DEF GoesOn, LooksCloser, EndsHere, Ends, Following, Searches
<1>5. ASSUME NEW s \in Searches, Exhausted(s)
      PROVE  phase' # "done"
    BY <1>5 DEF Exhausted, Ends, Following, Searches
<1>6. CASE Begin
    BY <1>3, <1>6 DEF Begin
<1>7. CASE EndRound
    <2>1. phase' \in {"begin", "adjust"}
        BY <1>7 DEF EndRound
    <2> QED BY <1>3, <2>1
<1> QED BY <1>1, <1>2, <1>3, <1>4, <1>5, <1>6, <1>7 DEF Next

TimingInv == TimingTypes /\ CoarseInv /\ MediumInv /\ AdjustmentCloses

\* What holds of a timing measurement at every step, for every signal, every range of
\* the delays and every number of samples and of measurements.
THEOREM TimingSafe == Spec => []TimingInv
<1>1. Init => TimingInv
    <2> SUFFICES ASSUME Init PROVE TimingInv
        OBVIOUS
    <2>1. phase = "begin"
        BY DEF Init
    <2>2. CoarseInv /\ MediumInv /\ AdjustmentCloses
        BY <2>1 DEF CoarseInv, CoarseEdgeFirst, MediumInv, AdjustmentCloses
    <2> QED BY <2>2, TimingStart DEF TimingInv
<1>2. TimingInv /\ [Next]_vars => TimingInv'
    BY TimingNext, CoarseNext, MediumNext, AdjustNext DEF TimingInv
<1> QED BY <1>1, <1>2, PTL DEF Spec

\* The types of a timing measurement.
THEOREM TimingTypesKept == Spec => []TypeOK
<1>1. TimingInv => TypeOK
    BY DEF TimingInv, TimingTypes
<1> QED BY <1>1, TimingSafe, PTL

\* GPR_FindLevel and GPR_FindEdge tell the first delay that is steadily high and the
\* one before the first that is then steadily low, whatever unsteady samples they
\* meet, and leave the coarse register there.
THEOREM TimingCoarseEdge == Spec => []CoarseEdgeFirst
<1>1. TimingInv => CoarseEdgeFirst
    BY DEF TimingInv, CoarseInv
<1> QED BY <1>1, TimingSafe, PTL

\* The search for the fine delay, which moves the medium register, always tells what
\* the search for the medium delay told.
THEOREM TimingFineIsMedium == Spec => []FineTellsMedium
<1>1. TimingInv => FineTellsMedium
    <2> SUFFICES ASSUME TimingInv, phase = "told"
                 PROVE  edge["fine"] = edge["medium"]
        BY DEF FineTellsMedium
    <2>1. IsEdge(signal.medium, edge["medium"]) /\ IsEdge(signal.medium, edge["fine"])
        BY DEF TimingInv, MediumInv
    <2> QED BY <2>1, OneEdge
<1> QED BY <1>1, TimingSafe, PTL

\* NVA_TMVInit takes off what was measured in excess to one fine element, for every
\* excess that the registers can give, also where the divisions of floats come out just
\* below.
THEOREM TimingAdjustmentCloses == Spec => []AdjustmentCloses
<1>1. TimingInv => AdjustmentCloses
    BY DEF TimingInv
<1> QED BY <1>1, TimingSafe, PTL

-----------------------------------------------------------------------------
(* Induction over data, by the least element of a set of numbers, and what  *)
(* it gives: a recursive function that steps through its numbers exists.    *)

LEMMA LeastOf ==
    ASSUME NEW T \in SUBSET Nat, T # {}
    PROVE  \E x \in T : \A y \in T : x <= y
<1>1. IsWellFoundedOn(OpToRel(<, Nat), Nat)
    BY NatLessThanWellFounded, Zenon
<1>2. PICK x \in T : \A y \in T : ~(<<y, x>> \in OpToRel(<, Nat))
    BY <1>1, WFMin, Zenon
<1>3. \A y \in T : ~(y < x)
    <2>1. ASSUME NEW y \in T, y < x
          PROVE  <<y, x>> \in OpToRel(<, Nat)
        <3> DEFINE pair == <<y, x>>
        <3>1. pair \in Nat \X Nat /\ pair[1] = y /\ pair[2] = x
            OBVIOUS
        <3> HIDE DEF pair
        <3>2. pair[1] < pair[2]
            BY <2>1, <3>1
        <3>3. pair \in OpToRel(<, Nat)
            BY <3>1, <3>2, Zenon DEF OpToRel
        <3> QED BY <3>3 DEF pair
    <2> QED BY <1>2, <2>1, Zenon
<1> QED BY <1>3

\* Function f goes from base through the values V, to number N.
GoesThrough(f, N, V, base, advance) ==
    /\ f \in [0..N -> V] /\ f[0] = base
    /\ \A n \in 1..N : f[n] = advance[<<n, f[n - 1]>>]

LEMMA Recursion ==
    ASSUME NEW N \in Nat, NEW V, NEW base \in V, NEW advance \in [(1..N) \X V -> V]
    PROVE  \E f : GoesThrough(f, N, V, base, advance)
<1> DEFINE Runs(f, k) == f[0] = base /\ \A n \in 1..k : f[n] = advance[<<n, f[n - 1]>>]
           Good(k) == \E f \in [0..k -> V] : Runs(f, k)
<1>1. Good(0)
    <2> DEFINE f == [n \in 0..0 |-> base]
    <2>1. f \in [0..0 -> V] /\ Runs(f, 0)
        OBVIOUS
    <2> QED BY <2>1
<1>2. ASSUME NEW k \in 1..N, Good(k - 1)
      PROVE  Good(k)
    <2>1. PICK f \in [0..(k - 1) -> V] : Runs(f, k - 1)
        BY <1>2
    <2> DEFINE g == [n \in 0..k |-> IF n < k THEN f[n] ELSE advance[<<k, f[k - 1]>>]]
    <2>2. f[k - 1] \in V /\ <<k, f[k - 1]>> \in (1..N) \X V
        BY <2>1
    <2>3. advance[<<k, f[k - 1]>>] \in V
        BY <2>2
    <2>4. g \in [0..k -> V]
        BY <2>1, <2>3
    <2>5. g[0] = base
        BY <2>1
    <2>6. ASSUME NEW n \in 1..k
          PROVE  g[n] = advance[<<n, g[n - 1]>>]
        <3>1. g[n - 1] = f[n - 1]
            BY <2>6
        <3>2. CASE n < k
            <4>1. n \in 1..(k - 1) /\ g[n] = f[n]
                BY <2>6, <3>2
            <4>2. f[n] = advance[<<n, f[n - 1]>>]
                BY <2>1, <4>1
            <4> HIDE DEF g
            <4> QED BY <3>1, <4>1, <4>2
        <3>3. CASE n = k
            <4>1. g[k] = advance[<<k, f[k - 1]>>]
                BY <2>6
            <4> HIDE DEF g
            <4> QED BY <3>1, <3>3, <4>1
        <3> QED BY <2>6, <3>2, <3>3
    <2> HIDE DEF g
    <2> QED BY <2>4, <2>5, <2>6
<1> HIDE DEF Good
<1> DEFINE Bad == {k \in 0..N : ~Good(k)}
<1>3. Bad = {}
    <2> SUFFICES ASSUME Bad # {} PROVE FALSE
        OBVIOUS
    <2>1. Bad \in SUBSET Nat
        OBVIOUS
    <2>2. PICK k \in Bad : \A j \in Bad : k <= j
        <3> HIDE DEF Bad
        <3> QED BY <2>1, LeastOf
    <2>3. k \in 1..N /\ k - 1 \in 0..N /\ k - 1 < k
        BY <1>1, <2>2
    <2>4. Good(k - 1)
        BY <2>2, <2>3
    <2> QED BY <1>2, <2>2, <2>3, <2>4
<1>4. Good(N)
    BY <1>3
<1>5. PICK f \in [0..N -> V] : Runs(f, N)
    BY <1>4 DEF Good
<1>6. GoesThrough(f, N, V, base, advance)
    BY <1>5 DEF GoesThrough
<1> QED BY <1>6

-----------------------------------------------------------------------------
(* The list of Wi-Fi channels.                                              *)

LineSet == [kind : {"signal", "channel"}, value : Int]
KnownSet == [signal : Int, rssi : [Channels -> Int], cnt : [Channels -> Nat]]
NetworkSet == [channel : Nat, signal : Int]

LEMMA TakeIsKnown ==
    ASSUME NEW known \in KnownSet, NEW line \in LineSet
    PROVE  Wifi!Take(known, line) \in KnownSet
<1>1. CASE line.kind = "signal"
    BY <1>1 DEF Wifi!Take, KnownSet, LineSet
<1>2. CASE line.kind # "signal" /\ line.value \notin Channels
    BY <1>2 DEF Wifi!Take
<1>3. CASE line.kind # "signal" /\ line.value \in Channels
    <2> DEFINE c == line.value
               old == known.rssi[c]
               new == IF old = 0 \/ old < known.signal THEN known.signal ELSE old
               more == known.cnt[c] + 1
    <2>1. Wifi!Take(known, line) = [known EXCEPT !.cnt[c] = more, !.rssi[c] = new]
        BY <1>3 DEF Wifi!Take, KnownSet
    <2>2. new \in Int /\ more \in Nat /\ c \in Channels
        BY <1>3 DEF KnownSet
    <2> HIDE DEF new, more, c
    <2>3. /\ [known.cnt EXCEPT ![c] = more] \in [Channels -> Nat]
          /\ [known.rssi EXCEPT ![c] = new] \in [Channels -> Int]
        BY <2>2 DEF KnownSet
    <2>4. Wifi!Take(known, line) =
            [signal |-> known.signal, rssi |-> [known.rssi EXCEPT ![c] = new],
             cnt |-> [known.cnt EXCEPT ![c] = more]]
        BY <2>1 DEF KnownSet
    <2> QED BY <2>3, <2>4 DEF KnownSet
<1> QED BY <1>1, <1>2, <1>3

\* The one or two lines of a network.
LEMMA PrintedLines ==
    ASSUME NEW network \in NetworkSet
    PROVE  LET printed == Wifi!Printed(network)
               signal1 == Wifi!SignalLine(network.signal)
               channel1 == Wifi!ChannelLine(network.channel)
           IN  /\ printed \in Seq(LineSet)
               /\ network.channel = 0 => printed = <<signal1>>
               /\ network.channel # 0 =>
                     Len(printed) = 2 /\ printed[1] = signal1 /\ printed[2] = channel1
<1>1. network.channel \in Int /\ network.signal \in Int
    BY DEF NetworkSet
<1>2. /\ Wifi!SignalLine(network.signal) \in LineSet
      /\ Wifi!ChannelLine(network.channel) \in LineSet
    BY <1>1 DEF LineSet, Wifi!SignalLine, Wifi!ChannelLine
<1>3. CASE network.channel = 0
    BY <1>2, <1>3 DEF Wifi!Printed
<1>4. CASE network.channel # 0
    <2>1. Wifi!Printed(network) = <<Wifi!SignalLine(network.signal)>>
                                     \o <<Wifi!ChannelLine(network.channel)>>
        BY <1>4 DEF Wifi!Printed
    <2> QED BY <1>2, <1>4, <2>1
<1> QED BY <1>3, <1>4

\* The loop of getWifiInfoList, line by line.
LEMMA KnownSteps ==
    ASSUME NEW lines \in Seq(LineSet)
    PROVE  /\ Wifi!WifiInfoList(lines)[0] = Wifi!Nothing
           /\ \A n \in 1..Len(lines) :
                 Wifi!WifiInfoList(lines)[n] =
                    Wifi!Take(Wifi!WifiInfoList(lines)[n - 1], lines[n])
<1> DEFINE N == Len(lines)
           Is(f) == f = [n \in 0..N |-> IF n = 0 THEN Wifi!Nothing
                                        ELSE Wifi!Take(f[n - 1], lines[n])]
           advance == [p \in (1..N) \X KnownSet |-> Wifi!Take(p[2], lines[p[1]])]
<1>1. Wifi!WifiInfoList(lines) = CHOOSE f : Is(f)
    BY DEF Wifi!WifiInfoList
<1>2. N \in Nat /\ Wifi!Nothing \in KnownSet
    BY DEF Wifi!Nothing, KnownSet
<1>3. advance \in [(1..N) \X KnownSet -> KnownSet]
    <2>1. ASSUME NEW p \in (1..N) \X KnownSet
          PROVE  Wifi!Take(p[2], lines[p[1]]) \in KnownSet
        <3>1. p[2] \in KnownSet /\ lines[p[1]] \in LineSet
            OBVIOUS
        <3> QED BY <3>1, TakeIsKnown
    <2> QED BY <2>1
<1> HIDE DEF N
<1>4. PICK f \in [0..N -> KnownSet] :
          f[0] = Wifi!Nothing /\ \A n \in 1..N : f[n] = advance[<<n, f[n - 1]>>]
    <2> HIDE DEF advance
    <2>1. PICK f : GoesThrough(f, N, KnownSet, Wifi!Nothing, advance)
        BY <1>2, <1>3, Recursion
    <2> QED BY <2>1 DEF GoesThrough
<1>5. Is(f)
    <2>1. ASSUME NEW n \in 1..N
          PROVE  f[n] = Wifi!Take(f[n - 1], lines[n])
        <3>1. <<n, f[n - 1]>> \in (1..N) \X KnownSet
            BY <1>2, <1>4
        <3>2. f[n] = advance[<<n, f[n - 1]>>]
            BY <1>4
        <3> QED BY <3>1, <3>2
    <2>2. \A n \in 0..N : f[n] = IF n = 0 THEN Wifi!Nothing
                                 ELSE Wifi!Take(f[n - 1], lines[n])
        BY <1>2, <1>4, <2>1
    <2>3. f = [n \in 0..N |-> f[n]]
        BY <1>4
    <2> QED BY <2>2, <2>3
<1>6. Is(Wifi!WifiInfoList(lines))
    <2> HIDE DEF Is
    <2> QED BY <1>1, <1>5
<1>7. \A n \in 0..N : Wifi!WifiInfoList(lines)[n] =
          IF n = 0 THEN Wifi!Nothing
          ELSE Wifi!Take(Wifi!WifiInfoList(lines)[n - 1], lines[n])
    <2> DEFINE known == Wifi!WifiInfoList(lines)
    <2>1. Is(known)
        BY <1>6
    <2> HIDE DEF known
    <2>2. \A n \in 0..N : known[n] = IF n = 0 THEN Wifi!Nothing
                                     ELSE Wifi!Take(known[n - 1], lines[n])
        BY <2>1
    <2> QED BY <2>2 DEF known
<1> QED BY <1>2, <1>7 DEF N

\* What iw prints, network by network.
LEMMA ScannedSteps ==
    ASSUME NEW networks \in Seq(NetworkSet)
    PROVE  LET scanned == Wifi!Scanned(networks)
           IN  /\ scanned \in [0..Len(networks) -> Seq(LineSet)]
               /\ scanned[0] = <<>>
               /\ \A n \in 1..Len(networks) :
                     scanned[n] = scanned[n - 1] \o Wifi!Printed(networks[n])
<1> DEFINE N == Len(networks)
           Is(f) == f = [n \in 0..N |-> IF n = 0 THEN <<>>
                                        ELSE f[n - 1] \o Wifi!Printed(networks[n])]
           V == Seq(LineSet)
           advance == [p \in (1..N) \X V |-> p[2] \o Wifi!Printed(networks[p[1]])]
<1>1. Wifi!Scanned(networks) = CHOOSE f : Is(f)
    BY DEF Wifi!Scanned
<1>2. N \in Nat /\ <<>> \in V
    OBVIOUS
<1>3. \A n \in 1..N : Wifi!Printed(networks[n]) \in V
    <2>1. ASSUME NEW n \in 1..N
          PROVE  Wifi!Printed(networks[n]) \in V
        <3>1. networks[n] \in NetworkSet
            OBVIOUS
        <3> QED BY <3>1, PrintedLines
    <2> QED BY <2>1
<1>4. advance \in [(1..N) \X V -> V]
    <2>1. ASSUME NEW p \in (1..N) \X V
          PROVE  p[2] \o Wifi!Printed(networks[p[1]]) \in V
        <3>1. p[2] \in V /\ Wifi!Printed(networks[p[1]]) \in V
            BY <1>3
        <3> QED BY <3>1
    <2> QED BY <2>1
<1> HIDE DEF N, V
<1>5. PICK f \in [0..N -> V] :
          f[0] = <<>> /\ \A n \in 1..N : f[n] = advance[<<n, f[n - 1]>>]
    <2> HIDE DEF advance
    <2>1. PICK f : GoesThrough(f, N, V, <<>>, advance)
        BY <1>2, <1>4, Recursion
    <2> QED BY <2>1 DEF GoesThrough
<1>6. ASSUME NEW n \in 1..N
      PROVE  f[n] = f[n - 1] \o Wifi!Printed(networks[n])
    <2>1. <<n, f[n - 1]>> \in (1..N) \X V
        BY <1>2, <1>5
    <2>2. f[n] = advance[<<n, f[n - 1]>>]
        BY <1>5
    <2> QED BY <2>1, <2>2
<1>7. Is(f)
    <2>1. \A n \in 0..N : f[n] = IF n = 0 THEN <<>>
                                 ELSE f[n - 1] \o Wifi!Printed(networks[n])
        BY <1>2, <1>5, <1>6
    <2>2. f = [n \in 0..N |-> f[n]]
        BY <1>5
    <2> QED BY <2>1, <2>2
<1> DEFINE scanned == Wifi!Scanned(networks)
<1>8. Is(scanned)
    <2> HIDE DEF Is
    <2> QED BY <1>1, <1>7
<1> HIDE DEF scanned
<1>9. /\ scanned[0] = <<>>
      /\ \A n \in 1..N : scanned[n] = scanned[n - 1] \o Wifi!Printed(networks[n])
      /\ scanned = [n \in 0..N |-> scanned[n]]
    BY <1>2, <1>8
<1>10. \A n \in 0..N : scanned[n] \in V
    <2> DEFINE Bad == {n \in 0..N : scanned[n] \notin V}
    <2> SUFFICES ASSUME Bad # {} PROVE FALSE
        OBVIOUS
    <2>1. Bad \in SUBSET Nat
        BY <1>2
    <2>2. PICK n \in Bad : \A m \in Bad : n <= m
        <3> HIDE DEF Bad
        <3> QED BY <2>1, LeastOf
    <2>3. n \in 1..N /\ n - 1 \in 0..N /\ n - 1 < n
        BY <1>2, <1>9, <2>2
    <2>4. scanned[n - 1] \in V /\ Wifi!Printed(networks[n]) \in V
        BY <1>3, <2>2, <2>3
    <2>5. scanned[n - 1] \o Wifi!Printed(networks[n]) \in V
        BY <2>4 DEF V
    <2> QED BY <1>9, <2>2, <2>3, <2>5
<1>11. scanned \in [0..N -> V]
    BY <1>9, <1>10
<1> QED BY <1>9, <1>11 DEF scanned, N, V

\* What is printed later does not change what was printed: after n networks the lines
\* are a beginning of the lines of all.
LEMMA ScannedIsPrefix ==
    ASSUME NEW networks \in Seq(NetworkSet), NEW n \in 0..Len(networks)
    PROVE  LET scanned == Wifi!Scanned(networks)
               lines == scanned[Len(networks)]
           IN  /\ scanned[n] \in Seq(LineSet) /\ lines \in Seq(LineSet)
               /\ Len(scanned[n]) <= Len(lines)
               /\ \A i \in 1..Len(scanned[n]) : lines[i] = scanned[n][i]
<1> DEFINE N == Len(networks)
           scanned == Wifi!Scanned(networks)
           lines == scanned[N]
           Begins(m) == /\ Len(scanned[m]) <= Len(lines)
                        /\ \A i \in 1..Len(scanned[m]) : lines[i] = scanned[m][i]
           Bad == {k \in 0..N : ~Begins(N - k)}
<1>1. N \in Nat
    OBVIOUS
<1>2. /\ scanned \in [0..N -> Seq(LineSet)]
      /\ \A m \in 1..N : scanned[m] = scanned[m - 1] \o Wifi!Printed(networks[m])
    BY ScannedSteps
<1> HIDE DEF N, scanned
<1>3. ASSUME NEW m \in 1..N, Begins(m)
      PROVE  Begins(m - 1)
    <2>1. scanned[m] \in Seq(LineSet) /\ scanned[m - 1] \in Seq(LineSet) /\ lines \in Seq(LineSet)
        BY <1>1, <1>2
    <2> DEFINE more == Wifi!Printed(networks[m])
    <2>2. more \in Seq(LineSet)
        <3>1. networks[m] \in NetworkSet
            BY DEF N
        <3> QED BY <3>1, PrintedLines
    <2>3. scanned[m] = scanned[m - 1] \o more
        BY <1>2
    <2> HIDE DEF more
    <2>4. /\ Len(scanned[m - 1]) <= Len(scanned[m])
          /\ \A i \in 1..Len(scanned[m - 1]) : scanned[m][i] = scanned[m - 1][i]
        BY <2>1, <2>2, <2>3
    <2> HIDE DEF lines
    <2> QED BY <1>3, <2>1, <2>4
<1>4. Bad = {}
    <2> SUFFICES ASSUME Bad # {} PROVE FALSE
        OBVIOUS
    <2>1. Bad \in SUBSET Nat
        BY <1>1
    <2>2. PICK k \in Bad : \A j \in Bad : k <= j
        <3> HIDE DEF Bad
        <3> QED BY <2>1, LeastOf
    <2>3. Begins(N - 0)
        BY <1>1, <1>2
    <2> HIDE DEF Begins
    <2>4. k \in 1..N /\ k - 1 \in 0..N /\ k - 1 < k
        BY <1>1, <2>2, <2>3
    <2>5. Begins(N - (k - 1))
        BY <2>2, <2>4
    <2>6. N - (k - 1) \in 1..N /\ (N - (k - 1)) - 1 = N - k
        BY <1>1, <2>4
    <2> QED BY <1>3, <2>2, <2>5, <2>6
<1>5. N - n \in 0..N /\ N - (N - n) = n
    BY <1>1 DEF N
<1>6. Begins(n)
    <2> HIDE DEF Begins
    <2> QED BY <1>4, <1>5
<1>7. n \in 0..N
    BY DEF N
<1> QED BY <1>1, <1>2, <1>6, <1>7 DEF scanned, N

\* The first n networks that are on channel c, and that known tells of them.
On(networks, n, c) == {i \in 1..n : networks[i].channel = c}
Tells(networks, n, known) ==
    /\ known \in KnownSet
    /\ \A c \in Channels :
          LET on == On(networks, n, c)
          IN  /\ known.cnt[c] = Cardinality(on)
              /\ on # {} => \E i \in on : known.rssi[c] = networks[i].signal
              /\ \A i \in on : networks[i].signal <= known.rssi[c]
              /\ on = {} => known.rssi[c] = 0

LEMMA OnFinite ==
    ASSUME NEW networks, NEW n \in Nat, NEW c
    PROVE  IsFiniteSet(On(networks, n, c)) /\ Cardinality(On(networks, n, c)) \in Nat
<1>1. IsFiniteSet(1..n)
    BY FS_Interval
<1>2. On(networks, n, c) \in SUBSET (1..n)
    BY DEF On
<1>3. IsFiniteSet(On(networks, n, c))
    BY <1>1, <1>2, FS_Subset
<1> QED BY <1>3, FS_CardinalityType

\* The lines of one network more.
LEMMA OneMore ==
    ASSUME NEW networks \in Seq(NetworkSet), NEW n \in 1..Len(networks),
           networks[n].signal < 0, Channels \subseteq Nat \ {0},
           \A i \in DOMAIN networks : networks[i].signal < 0,
           NEW known, Tells(networks, n - 1, known)
    PROVE  LET heard == Wifi!Take(known, Wifi!SignalLine(networks[n].signal))
           IN  Tells(networks, n,
                     IF networks[n].channel = 0 THEN heard
                     ELSE Wifi!Take(heard, Wifi!ChannelLine(networks[n].channel)))
<1> DEFINE heard == Wifi!Take(known, Wifi!SignalLine(networks[n].signal))
           d == networks[n].channel
           level == networks[n].signal
           told == IF d = 0 THEN heard ELSE Wifi!Take(heard, Wifi!ChannelLine(d))
<1>1. networks[n] \in NetworkSet /\ d \in Nat /\ level \in Int /\ level < 0
    <2>1. networks[n] \in NetworkSet
        OBVIOUS
    <2> QED BY <2>1 DEF NetworkSet
<1>2. n \in Nat /\ n - 1 \in Nat /\ known \in KnownSet
    BY DEF Tells
<1>3. heard = [known EXCEPT !.signal = level]
    BY DEF Wifi!Take, Wifi!SignalLine
<1>4. /\ heard \in KnownSet /\ heard.signal = level
      /\ heard.rssi = known.rssi /\ heard.cnt = known.cnt
    BY <1>1, <1>2, <1>3 DEF KnownSet
<1> HIDE DEF heard
<1>5. ASSUME NEW c \in Channels, c # d
      PROVE  On(networks, n, c) = On(networks, n - 1, c)
    BY <1>2, <1>5 DEF On
<1>6. ASSUME d \notin Channels
      PROVE  Tells(networks, n, told)
    <2>1. told = heard
        <3>1. Wifi!ChannelLine(d).kind # "signal" /\ Wifi!ChannelLine(d).value = d
            BY DEF Wifi!ChannelLine
        <3> HIDE DEF d
        <3>2. Wifi!Take(heard, Wifi!ChannelLine(d)) = heard
            BY <1>6, <3>1 DEF Wifi!Take
        <3> QED BY <3>2
    <2>2. \A c \in Channels : On(networks, n, c) = On(networks, n - 1, c)
        BY <1>5, <1>6
    <2> HIDE DEF told
    <2> QED BY <1>4, <2>1, <2>2 DEF Tells
<1>7. ASSUME d \in Channels
      PROVE  Tells(networks, n, told)
    <2> DEFINE old == known.rssi[d]
               new == IF old = 0 \/ old < level THEN level ELSE old
               more == known.cnt[d] + 1
               before1 == On(networks, n - 1, d)
    <2>1. told = [heard EXCEPT !.cnt[d] = more, !.rssi[d] = new]
        <3>1. Wifi!ChannelLine(d).kind # "signal" /\ Wifi!ChannelLine(d).value = d /\ d # 0
            BY <1>7 DEF Wifi!ChannelLine
        <3> HIDE DEF d, level
        <3>2. Wifi!Take(heard, Wifi!ChannelLine(d)) =
                 [heard EXCEPT !.cnt[d] = more, !.rssi[d] = new]
            BY <1>4, <1>7, <3>1 DEF Wifi!Take
        <3> QED BY <3>1, <3>2
    <2>2. old \in Int /\ new \in Int /\ more \in Nat
        BY <1>1, <1>2, <1>7 DEF KnownSet
    <2> HIDE DEF told, d
    <2>3. /\ told \in KnownSet
          /\ \A c \in Channels \ {d} : told.rssi[c] = known.rssi[c] /\ told.cnt[c] = known.cnt[c]
          /\ told.rssi[d] = new /\ told.cnt[d] = more
        <3> HIDE DEF new, more
        <3>1. told = [signal |-> heard.signal, rssi |-> [heard.rssi EXCEPT ![d] = new],
                      cnt |-> [heard.cnt EXCEPT ![d] = more]]
            BY <1>4, <2>1 DEF KnownSet
        <3>2. /\ [heard.rssi EXCEPT ![d] = new] \in [Channels -> Int]
              /\ [heard.cnt EXCEPT ![d] = more] \in [Channels -> Nat]
            BY <1>4, <2>2 DEF KnownSet
        <3>3. /\ [heard.rssi EXCEPT ![d] = new][d] = new
              /\ [heard.cnt EXCEPT ![d] = more][d] = more
              /\ \A c \in Channels \ {d} :
                    /\ [heard.rssi EXCEPT ![d] = new][c] = known.rssi[c]
                    /\ [heard.cnt EXCEPT ![d] = more][c] = known.cnt[c]
            BY <1>4, <1>7 DEF KnownSet
        <3> QED BY <1>4, <3>1, <3>2, <3>3 DEF KnownSet
    <2>4. On(networks, n, d) = before1 \union {n} /\ n \notin before1
        BY <1>2 DEF On, d
    <2>5. /\ known.cnt[d] = Cardinality(before1)
          /\ before1 # {} => \E i \in before1 : old = networks[i].signal
          /\ \A i \in before1 : networks[i].signal <= old
          /\ before1 = {} => old = 0
        BY <1>7 DEF Tells
    <2>6. Cardinality(On(networks, n, d)) = more
        <3>1. IsFiniteSet(before1)
            BY <1>2, OnFinite
        <3>2. Cardinality(before1 \union {n}) = Cardinality(before1) + 1
            <4> HIDE DEF before1
            <4> QED BY <2>4, <3>1, FS_AddElement
        <3> QED BY <2>4, <2>5, <3>2
    <2>7. ASSUME NEW i \in before1
          PROVE  networks[i].signal \in Int /\ networks[i].signal < 0
        <3>1. i \in 1..(n - 1)
            BY DEF On
        <3>2. i \in DOMAIN networks /\ networks[i] \in NetworkSet
            BY <1>2, <3>1
        <3> QED BY <3>2 DEF NetworkSet
    <2>8. old = 0 <=> before1 = {}
        BY <2>5, <2>7
    <2> HIDE DEF before1, old, more
    <2>9. /\ \E i \in before1 \union {n} : new = networks[i].signal
          /\ \A i \in before1 \union {n} : networks[i].signal <= new
        <3>1. CASE old = 0
            BY <1>1, <2>8, <3>1
        <3>2. CASE old # 0 /\ old < level
            BY <1>1, <2>2, <2>5, <2>7, <3>2
        <3>3. CASE old # 0 /\ ~(old < level)
            BY <1>1, <2>2, <2>5, <2>7, <2>8, <3>3
        <3> QED BY <3>1, <3>2, <3>3
    <2> HIDE DEF new
    <2>10. ASSUME NEW c \in Channels, c # d
           PROVE  LET on == On(networks, n, c)
                  IN  /\ told.cnt[c] = Cardinality(on)
                      /\ on # {} => \E i \in on : told.rssi[c] = networks[i].signal
                      /\ \A i \in on : networks[i].signal <= told.rssi[c]
                      /\ on = {} => told.rssi[c] = 0
        <3>1. On(networks, n, c) = On(networks, n - 1, c)
            BY <1>5, <2>10 DEF d
        <3> QED BY <2>3, <2>10, <3>1 DEF Tells
    <2>11. LET on == On(networks, n, d)
           IN  /\ told.cnt[d] = Cardinality(on)
               /\ on # {} => \E i \in on : told.rssi[d] = networks[i].signal
               /\ \A i \in on : networks[i].signal <= told.rssi[d]
               /\ on = {} => told.rssi[d] = 0
        BY <2>3, <2>4, <2>6, <2>9
    <2>12. \A c \in Channels : c = d \/ c # d
        OBVIOUS
    <2> QED BY <2>3, <2>10, <2>11, <2>12, Zenon DEF Tells
<1>8. Tells(networks, n, told)
    BY <1>6, <1>7
<1> QED BY <1>8 DEF heard

LEMMA LastTwo ==
    ASSUME NEW S, NEW s \in Seq(S), NEW t \in Seq(S), Len(t) = 2
    PROVE  /\ Len(s \o t) = Len(s) + 2
           /\ (s \o t)[Len(s) + 1] = t[1]
           /\ (s \o t)[Len(s) + 2] = t[2]
<1> DEFINE n == Len(s)
           m == Len(t)
           u == s \o t
<1>1. n \in Nat /\ m = 2
    OBVIOUS
<1>2. Len(u) = n + m /\ \A i \in 1..(n + m) : u[i] = IF i <= n THEN s[i] ELSE t[i - n]
    BY ConcatProperties
<1> HIDE DEF n, m, u
<1>3. /\ n + 1 \in 1..(n + m) /\ ~(n + 1 <= n) /\ (n + 1) - n = 1
      /\ n + 2 \in 1..(n + m) /\ ~(n + 2 <= n) /\ (n + 2) - n = 2
    BY <1>1
<1>4. u[n + 1] = t[1] /\ u[n + 2] = t[2] /\ Len(u) = n + 2
    BY <1>1, <1>2, <1>3
<1> QED BY <1>4 DEF n, u

LEMMA AllAreTold ==
    ASSUME NEW networks \in Seq(NetworkSet), Channels \subseteq Nat \ {0},
           \A i \in DOMAIN networks : networks[i].signal < 0
    PROVE  Wifi!ScanTold(networks)
<1> DEFINE N == Len(networks)
           scanned == Wifi!Scanned(networks)
           lines == scanned[N]
           known == Wifi!WifiInfoList(lines)
           Good(n) == Tells(networks, n, known[Len(scanned[n])])
           Bad == {n \in 0..N : ~Good(n)}
<1>1. N \in Nat /\ lines \in Seq(LineSet)
    BY ScannedIsPrefix
<1>2. /\ known[0] = Wifi!Nothing
      /\ \A k \in 1..Len(lines) : known[k] = Wifi!Take(known[k - 1], lines[k])
    BY <1>1, KnownSteps
<1>3. /\ scanned \in [0..N -> Seq(LineSet)] /\ scanned[0] = <<>>
      /\ \A n \in 1..N : scanned[n] = scanned[n - 1] \o Wifi!Printed(networks[n])
    BY ScannedSteps
<1>4. \A n \in 0..N : /\ Len(scanned[n]) <= Len(lines)
                      /\ \A i \in 1..Len(scanned[n]) : lines[i] = scanned[n][i]
    BY ScannedIsPrefix
<1> HIDE DEF known, lines, scanned
<1>5. Good(0)
    <2>1. \A c : On(networks, 0, c) = {}
        BY DEF On
    <2>2. known[Len(scanned[0])] = Wifi!Nothing
        BY <1>2, <1>3
    <2>3. /\ Wifi!Nothing \in KnownSet
          /\ \A c \in Channels : Wifi!Nothing.cnt[c] = 0 /\ Wifi!Nothing.rssi[c] = 0
        BY DEF KnownSet, Wifi!Nothing
    <2>4. Cardinality({}) = 0
        BY FS_EmptySet
    <2> QED BY <2>1, <2>2, <2>3, <2>4 DEF Tells
<1>6. ASSUME NEW n \in 1..N, Good(n - 1)
      PROVE  Good(n)
    <2> DEFINE old == scanned[n - 1]
               a == Len(old)
               signal1 == Wifi!SignalLine(networks[n].signal)
               channel1 == Wifi!ChannelLine(networks[n].channel)
               heard == Wifi!Take(known[a], signal1)
    <2>1. /\ old \in Seq(LineSet) /\ a \in Nat
          /\ scanned[n] = old \o Wifi!Printed(networks[n])
        <3>1. n - 1 \in 0..N
            BY <1>1
        <3>2. scanned[n - 1] \in Seq(LineSet)
            BY <1>3, <3>1
        <3>3. scanned[n] = scanned[n - 1] \o Wifi!Printed(networks[n])
            BY <1>3
        <3> QED BY <3>2, <3>3
    <2> DEFINE more == Wifi!Printed(networks[n])
    <2>2. /\ more \in Seq(LineSet)
          /\ networks[n].channel = 0 => more = <<signal1>>
          /\ networks[n].channel # 0 =>
                Len(more) = 2 /\ more[1] = signal1 /\ more[2] = channel1
        <3>1. networks[n] \in NetworkSet
            OBVIOUS
        <3> QED BY <3>1, PrintedLines
    <2>3. Tells(networks, n, IF networks[n].channel = 0 THEN heard
                             ELSE Wifi!Take(heard, channel1))
        BY <1>6, OneMore
    <2>4. /\ Len(scanned[n]) <= Len(lines) /\ Len(lines) \in Nat
          /\ \A i \in 1..Len(scanned[n]) : lines[i] = scanned[n][i]
        BY <1>1, <1>4
    <2> HIDE DEF old, signal1, channel1, more, Good
    <2>5. CASE networks[n].channel = 0
        <3>1. scanned[n] = old \o <<signal1>>
            BY <2>1, <2>2, <2>5 DEF more
        <3>2. Len(scanned[n]) = a + 1 /\ scanned[n][a + 1] = signal1
            BY <2>1, <3>1
        <3>3. a + 1 \in 1..Len(lines) /\ lines[a + 1] = signal1 /\ (a + 1) - 1 = a
            BY <2>1, <2>4, <3>2
        <3>4. known[a + 1] = heard
            BY <1>2, <3>3
        <3> QED BY <2>3, <2>5, <3>2, <3>4 DEF Good
    <2>6. CASE networks[n].channel # 0
        <3>1. scanned[n] = old \o more
            BY <2>1 DEF more
        <3>2. /\ Len(scanned[n]) = a + 2 /\ scanned[n][a + 1] = signal1
              /\ scanned[n][a + 2] = channel1
            <4>1. old \in Seq(LineSet) /\ more \in Seq(LineSet) /\ Len(more) = 2
                BY <2>1, <2>2, <2>6
            <4>2. /\ Len(old \o more) = Len(old) + 2
                  /\ (old \o more)[Len(old) + 1] = more[1]
                  /\ (old \o more)[Len(old) + 2] = more[2]
                BY <4>1, LastTwo
            <4> QED BY <2>2, <2>6, <3>1, <4>2
        <3>3. /\ a + 1 \in 1..Len(lines) /\ lines[a + 1] = signal1 /\ (a + 1) - 1 = a
              /\ a + 2 \in 1..Len(lines) /\ lines[a + 2] = channel1 /\ (a + 2) - 1 = a + 1
            BY <2>1, <2>4, <3>2
        <3>4. known[a + 1] = heard
            BY <1>2, <3>3
        <3>5. known[a + 2] = Wifi!Take(heard, channel1)
            BY <1>2, <3>3, <3>4
        <3> QED BY <2>3, <2>6, <3>2, <3>5 DEF Good
    <2> QED BY <2>5, <2>6
<1> HIDE DEF Good
<1>7. Bad = {}
    <2> SUFFICES ASSUME Bad # {} PROVE FALSE
        OBVIOUS
    <2>1. Bad \in SUBSET Nat
        BY <1>1
    <2>2. PICK n \in Bad : \A m \in Bad : n <= m
        <3> HIDE DEF Bad
        <3> QED BY <2>1, LeastOf
    <2>3. n \in 1..N /\ n - 1 \in 0..N /\ n - 1 < n
        BY <1>1, <1>5, <2>2
    <2> QED BY <1>6, <2>2, <2>3
<1>8. Tells(networks, N, known[Len(lines)])
    BY <1>1, <1>7 DEF Good, lines
<1>9. \A c : On(networks, N, c) = {i \in DOMAIN networks : networks[i].channel = c}
    BY DEF On
<1> HIDE DEF N
<1> DEFINE told == known[Len(lines)]
<1> DEFINE IsTold(t) ==
              \A c \in Channels :
                 LET on == {i \in DOMAIN networks : networks[i].channel = c}
                 IN  /\ t.cnt[c] = Cardinality(on)
                     /\ on # {} => \E i \in on : t.rssi[c] = networks[i].signal
                     /\ \A i \in on : networks[i].signal <= t.rssi[c]
                     /\ on = {} => t.rssi[c] = 0
<1>10. IsTold(told)
    <2> HIDE DEF told
    <2> QED BY <1>8, <1>9, Zenon DEF Tells, told
<1> HIDE DEF IsTold
<1>11. IsTold(Wifi!WifiInfoList(Wifi!Scanned(networks)[Len(networks)])
                 [Len(Wifi!Scanned(networks)[Len(networks)])])
    BY <1>10 DEF told, known, lines, scanned, N
<1>12. \A S : Wifi!Cardinality(S) = Cardinality(S)
    BY DEF Wifi!Cardinality, Cardinality
<1> QED BY <1>11, <1>12 DEF Wifi!ScanTold, IsTold

\* getWifiInfoList tells every channel with the number of the networks on it and the
\* strongest of their signals, for every list of networks and in every order.
THEOREM PartsScanTold == PartsSpec => []ScanTold
<1>1. PartsInit => ScanTold
    <2> SUFFICES ASSUME PartsInit, part = "wifi" PROVE Wifi!ScanTold(input)
        BY DEF ScanTold
    <2>1. input \in Networks
        BY DEF PartsInit
    <2>2. /\ input \in Seq(NetworkSet) /\ Channels \subseteq Nat \ {0}
          /\ \A i \in DOMAIN input : input[i].signal < 0
        BY <2>1, NetworksAssumption DEF NetworkSet
    <2> QED BY <2>2, AllAreTold
<1>2. ScanTold /\ [PartsNext]_partsVars => ScanTold'
    <2> SUFFICES ASSUME ScanTold, [PartsNext]_partsVars PROVE ScanTold'
        OBVIOUS
    <2>1. part' = part /\ input' = input
        BY DEF PartsNext, Timing, ChangeSettings, ListFolders, StartArduino, partsVars
    <2> QED BY <2>1 DEF ScanTold
<1> QED BY <1>1, <1>2, PTL DEF PartsSpec

-----------------------------------------------------------------------------
(* Removing a folder.                                                       *)

TreeBefore ==
    /\ DOMAIN before \subseteq Dirs!Nodes /\ blank \subseteq Dirs!Files
    /\ \A n \in DOMAIN before :
          /\ before[n] \in Dirs!Folders \union {0} /\ before[n] < n
          /\ before[n] \in DOMAIN before \union {0}

LEMMA NodeKinds ==
    /\ Dirs!Folders \subseteq Dirs!Nodes /\ Dirs!Files \subseteq Dirs!Nodes
    /\ Dirs!Nodes \subseteq Nat \ {0}
    /\ \A n \in Dirs!Nodes : n \in Dirs!Folders <=> n \notin Dirs!Files
<1>1. Dirs!Nodes = Dirs!Folders \union Dirs!Files
    BY DEF Dirs!Nodes
<1>2. Dirs!Nodes \subseteq Nat \ {0}
    BY NodesAssumption DEF Dirs!Nodes, Dirs!Folders, Dirs!Files
<1>3. \A n \in Dirs!Nodes : n \in Dirs!Folders <=> n \notin Dirs!Files
    BY <1>1, NodesAssumption DEF Dirs!Folders, Dirs!Files
<1> QED BY <1>1, <1>2, <1>3

\* What Below stands for: a node is below d if it lies in d, or in one that is.
LEMMA BelowIs ==
    ASSUME TreeBefore, NEW d
    PROVE  \A n : n \in Dirs!Below(d) <=>
                     /\ n \in DOMAIN before /\ before[n] # 0
                     /\ before[n] = d \/ before[n] \in Dirs!Below(d)
<1> DEFINE N == FolderCount + FileCount
           Def(f, n) == /\ n \in DOMAIN before /\ before[n] # 0
                        /\ before[n] = d \/ f[before[n]]
           Is(f) == f = [n \in Dirs!Nodes |-> Def(f, n)]
           Good(k) == \E f : f = [n \in 1..k |-> Def(f, n)]
           Bad == {k \in 0..N : ~Good(k)}
<1>1. N \in Nat /\ Dirs!Nodes = 1..N
    BY NodesAssumption DEF Dirs!Nodes, Dirs!Folders, Dirs!Files
<1> HIDE DEF N
<1>2. \A n \in DOMAIN before : before[n] # 0 => before[n] \in 1..N /\ before[n] < n
    BY <1>1, NodeKinds DEF TreeBefore
<1>3. Good(0)
    <2> DEFINE none == [n \in 1..0 |-> TRUE]
    <2>1. none = [n \in 1..0 |-> Def(none, n)]
        OBVIOUS
    <2> QED BY <2>1
<1>4. ASSUME NEW k \in 1..N, Good(k - 1)
      PROVE  Good(k)
    <2>1. PICK f : f = [n \in 1..(k - 1) |-> Def(f, n)]
        BY <1>4
    <2> DEFINE last == Def(f, k)
               g == [n \in 1..k |-> IF n < k THEN f[n] ELSE last]
    <2>2. ASSUME NEW n \in 1..k
          PROVE  g[n] = Def(g, n)
        <3>1. Def(g, n) = Def(f, n)
            <4>1. CASE n \in DOMAIN before /\ before[n] # 0
                <5>1. before[n] \in 1..(k - 1) /\ before[n] \in 1..k /\ before[n] < k
                    BY <1>2, <2>2, <4>1
                <5>2. g[before[n]] = f[before[n]]
                    BY <5>1
                <5> HIDE DEF g
                <5> QED BY <5>2
            <4>2. CASE ~(n \in DOMAIN before /\ before[n] # 0)
                <5> HIDE DEF g
                <5> QED BY <4>2
            <4> QED BY <4>1, <4>2
        <3>2. CASE n < k
            <4>1. n \in 1..(k - 1)
                BY <2>2, <3>2
            <4>2. f[n] = Def(f, n)
                <5> HIDE DEF Def
                <5> QED BY <2>1, <4>1
            <4>3. g[n] = f[n]
                BY <2>2, <3>2
            <4> HIDE DEF g, Def
            <4> QED BY <3>1, <4>2, <4>3
        <3>3. CASE n = k
            <4>1. g[n] = last
                <5> HIDE DEF last
                <5> QED BY <2>2, <3>3
            <4>2. last = Def(f, n)
                <5> HIDE DEF Def
                <5> QED BY <3>3
            <4> HIDE DEF g, Def
            <4> QED BY <3>1, <4>1, <4>2
        <3>4. n < k \/ n = k
            BY <2>2
        <3> HIDE DEF g, Def
        <3> QED BY <3>2, <3>3, <3>4
    <2>3. g = [n \in 1..k |-> g[n]]
        OBVIOUS
    <2> HIDE DEF g
    <2>4. g = [n \in 1..k |-> Def(g, n)]
        <3> HIDE DEF Def
        <3> QED BY <2>2, <2>3
    <2> QED BY <2>4
<1> HIDE DEF Good
<1>5. Bad = {}
    <2> SUFFICES ASSUME Bad # {} PROVE FALSE
        OBVIOUS
    <2>1. Bad \in SUBSET Nat
        BY <1>1
    <2>2. PICK k \in Bad : \A j \in Bad : k <= j
        <3> HIDE DEF Bad
        <3> QED BY <2>1, LeastOf
    <2>3. k \in 1..N /\ k - 1 \in 0..N /\ k - 1 < k
        BY <1>1, <1>3, <2>2
    <2>4. Good(k - 1)
        BY <2>2, <2>3
    <2> QED BY <1>4, <2>2, <2>3, <2>4
<1>6. Good(N)
    BY <1>1, <1>5
<1>7. PICK g : Is(g)
    BY <1>1, <1>6 DEF Good
<1> DEFINE below == CHOOSE f : Is(f)
<1>8. Is(below)
    <2> HIDE DEF Is
    <2> QED BY <1>7
<1> HIDE DEF below
<1>9. Dirs!Below(d) = {n \in Dirs!Nodes : below[n]}
    BY DEF Dirs!Below, below
<1>10. \A n \in Dirs!Nodes : below[n] = Def(below, n)
    <2> HIDE DEF Def
    <2> QED BY <1>8
<1>11. \A n \in DOMAIN before : n \in Dirs!Nodes
    BY DEF TreeBefore
<1>12. \A n \in DOMAIN before : before[n] # 0 => before[n] \in Dirs!Nodes
    BY <1>1, <1>2
<1>13. ASSUME NEW n, n \in Dirs!Nodes
       PROVE  n \in Dirs!Below(d) <=>
                     /\ n \in DOMAIN before /\ before[n] # 0
                     /\ before[n] = d \/ before[n] \in Dirs!Below(d)
    BY <1>9, <1>10, <1>12, <1>13
<1>14. ASSUME NEW n, n \notin Dirs!Nodes
       PROVE  n \notin Dirs!Below(d) /\ n \notin DOMAIN before
    BY <1>9, <1>11, <1>14
<1> QED BY <1>13, <1>14

OnList == {list[i] : i \in DOMAIN list}
Under == Dirs!Below(target)
Entry == [folder : Dirs!Folders, left : SUBSET Dirs!Nodes]

\* The listing has met node n: it is on the list, or it was removed at once.
Met(n) == n \in OnList \/ n \notin DOMAIN tree

TreeInv ==
    /\ TreeBefore
    /\ DOMAIN tree \subseteq DOMAIN before /\ tree = [n \in DOMAIN tree |-> before[n]]

\* The list has nothing but what is below the target, and a folder after all that lies
\* in it.
OrderInv ==
    /\ list \in Seq(Under)
    /\ \A i, j \in DOMAIN list : before[list[i]] = list[j] => i < j

\* While the listing runs, the open folders lie one in the other, and whatever lies in
\* them or in a folder on the list has been met, is still to be read, or is open.
StackInv ==
    /\ open \in Seq(Entry)
    /\ \A i \in DOMAIN open :
          /\ open[i].folder \in DOMAIN tree /\ open[i].folder \notin OnList
          /\ i = 1 => open[i].folder = target
          /\ i > 1 => open[i].folder \in Under
    /\ \A i, j \in DOMAIN open : i < j => open[i].folder < open[j].folder
NestInv == \A i \in DOMAIN open : i > 1 => before[open[i].folder] = open[i - 1].folder
LeftInv ==
    \A i \in DOMAIN open : \A n \in open[i].left :
        /\ n \in DOMAIN tree /\ n \notin OnList /\ before[n] = open[i].folder
        /\ \A j \in DOMAIN open : open[j].folder # n
MetInv ==
    /\ \A i \in DOMAIN open : \A n \in DOMAIN before :
          before[n] = open[i].folder =>
             Met(n) \/ n \in open[i].left \/ (i < Len(open) /\ n = open[i + 1].folder)
    /\ \A n \in DOMAIN before : before[n] \in OnList => Met(n)
    /\ open = <<>> => \A n \in DOMAIN before : before[n] = target => Met(n)
ListedInv ==
    /\ OnList \subseteq DOMAIN tree
    /\ \A n \in DOMAIN before \ DOMAIN tree : n \in Under /\ n \in Dirs!Files
    /\ \A n \in OnList : \/ before[n] \in OnList \/ before[n] = target
                         \/ \E i \in DOMAIN open : before[n] = open[i].folder
WalkInv == OrderInv /\ StackInv /\ NestInv /\ LeftInv /\ MetInv /\ ListedInv

LEMMA Appended ==
    ASSUME NEW S, NEW s \in Seq(S), NEW e \in S
    PROVE  /\ Append(s, e) \in Seq(S) /\ Len(Append(s, e)) = Len(s) + 1
           /\ DOMAIN Append(s, e) = 1..(Len(s) + 1)
           /\ \A i \in 1..Len(s) : Append(s, e)[i] = s[i]
           /\ Append(s, e)[Len(s) + 1] = e
BY AppendProperties

LEMMA NotEmpty == \A s, n : Len(s) = n /\ n # 0 => s # <<>>
<1>1. Len(<<>>) = 0
    OBVIOUS
<1> QED BY <1>1, Zenon

\* One entry is read in the innermost folder.
LEMMA Reading ==
    ASSUME TreeInv, WalkInv, open # <<>>,
           NEW n \in Dirs!Innermost.left
    PROVE  LET k == Len(open)
               rest == [open EXCEPT ![k].left = @ \ {n}]
           IN  /\ k \in Nat /\ k > 0 /\ k \in DOMAIN open /\ DOMAIN open = 1..k
               /\ n \in open[k].left /\ n \in Under /\ n \in DOMAIN tree /\ n \in DOMAIN before
               /\ before[n] = open[k].folder /\ n \in Nat /\ before[n] \in Nat /\ before[n] < n
               /\ n # target
               /\ \A i \in 1..k : open[i].folder \in Nat /\ open[i].folder < n
               /\ rest \in Seq(Entry) /\ Len(rest) = k
               /\ \A i \in 1..k : /\ rest[i].folder = open[i].folder
                                  /\ rest[i].left = open[i].left \ {n}
<1> DEFINE k == Len(open)
           rest == [open EXCEPT ![k].left = @ \ {n}]
<1> USE DEF WalkInv
<1>1. /\ open \in Seq(Entry) /\ k \in Nat /\ k > 0 /\ k \in DOMAIN open
      /\ DOMAIN open = 1..k /\ 1 \in 1..k /\ n \in open[k].left
    BY DEF StackInv, Dirs!Innermost
<1> HIDE DEF k
<1>2. /\ n \in DOMAIN tree /\ before[n] = open[k].folder
      /\ \A j \in 1..k : open[j].folder # n
    BY <1>1 DEF LeftInv
<1>3. n \in DOMAIN before /\ before[n] < n /\ n \in Nat
    BY <1>2, NodeKinds DEF TreeInv, TreeBefore
<1>4. \A i \in 1..k : open[i].folder \in Dirs!Folders /\ open[i].folder \in Nat \ {0}
    <2>1. ASSUME NEW i \in 1..k
          PROVE  open[i].folder \in Dirs!Folders
        <3>1. open[i] \in Entry
            BY <1>1
        <3> QED BY <3>1 DEF Entry
    <2> QED BY <2>1, NodeKinds
<1>5. \A i \in 1..k : open[i].folder < n
    <2>1. ASSUME NEW i \in 1..k
          PROVE  open[i].folder <= open[k].folder
        <3>1. CASE i = k
            BY <1>4, <3>1
        <3>2. CASE i < k
            BY <1>1, <1>4, <3>2 DEF StackInv
        <3> QED BY <1>1, <2>1, <3>1, <3>2
    <2> QED BY <1>1, <1>2, <1>3, <1>4, <2>1
<1>6. n \in Under
    <2>1. before[n] = target \/ before[n] \in Under
        BY <1>1, <1>2 DEF StackInv
    <2>2. before[n] # 0
        BY <1>1, <1>2, <1>4
    <2> QED BY <1>3, <2>1, <2>2, BelowIs DEF TreeInv, Under
<1>7. n # target
    BY <1>1, <1>2 DEF StackInv
<1>8. /\ rest \in Seq(Entry) /\ Len(rest) = k
      /\ \A i \in 1..k : /\ rest[i].folder = open[i].folder
                         /\ i # k => rest[i] = open[i]
      /\ rest[k].left = open[k].left \ {n}
    <2>1. open[k] \in Entry
        BY <1>1
    <2> DEFINE inner == [open[k] EXCEPT !.left = @ \ {n}]
    <2>2. inner \in Entry /\ inner.folder = open[k].folder /\ inner.left = open[k].left \ {n}
        BY <2>1 DEF Entry
    <2>3. rest = [open EXCEPT ![k] = inner]
        OBVIOUS
    <2> HIDE DEF inner, rest
    <2>4. rest \in Seq(Entry) /\ Len(rest) = k
        BY <1>1, <2>2, <2>3 DEF k
    <2>5. rest[k] = inner /\ \A i \in 1..k : i # k => rest[i] = open[i]
        BY <1>1, <2>3
    <2> QED BY <2>2, <2>4, <2>5
<1>9. \A i \in 1..k : i # k => n \notin open[i].left
    <2> SUFFICES ASSUME NEW i \in 1..k, i # k, n \in open[i].left PROVE FALSE
        OBVIOUS
    <2>1. before[n] = open[i].folder /\ i < k
        BY <1>1 DEF LeftInv
    <2>2. open[i].folder < open[k].folder
        BY <1>1, <2>1 DEF StackInv
    <2> QED BY <1>2, <1>4, <2>1, <2>2
<1>10. \A i \in 1..k : rest[i].left = open[i].left \ {n}
    BY <1>8, <1>9
<1>11. before[n] \in Nat
    BY <1>1, <1>2, <1>4
<1> QED BY <1>1, <1>2, <1>3, <1>4, <1>5, <1>6, <1>7, <1>8, <1>10, <1>11 DEF k

\* A folder is opened inside the innermost one.
LEMMA WalkEnters ==
    ASSUME TreeInv, WalkInv, open # <<>>, NEW n \in Dirs!Innermost.left,
           n \in Dirs!Folders,
           open' = Append([open EXCEPT ![Len(open)].left = @ \ {n}], Dirs!Opened(n)),
           UNCHANGED <<tree, list, before, target>>
    PROVE  WalkInv'
<1> DEFINE k == Len(open)
           rest == [open EXCEPT ![k].left = @ \ {n}]
<1> USE DEF WalkInv
<1>1. /\ k \in Nat /\ k > 0 /\ k \in DOMAIN open /\ DOMAIN open = 1..k
      /\ n \in open[k].left /\ n \in Under /\ n \in DOMAIN tree /\ n \in DOMAIN before
      /\ before[n] = open[k].folder /\ n \in Nat /\ before[n] \in Nat /\ before[n] < n
      /\ n # target
      /\ \A i \in 1..k : open[i].folder \in Nat /\ open[i].folder < n
      /\ rest \in Seq(Entry) /\ Len(rest) = k
      /\ \A i \in 1..k : /\ rest[i].folder = open[i].folder
                         /\ rest[i].left = open[i].left \ {n}
    BY Reading
<1> DEFINE new == Dirs!Opened(n)
<1>2. new.folder = n /\ new.left = Dirs!Children(n)
    BY DEF Dirs!Opened
<1>3. \A m : m \in new.left <=> m \in DOMAIN tree /\ before[m] = n
    BY <1>2 DEF Dirs!Children, TreeInv
<1>4. new \in Entry
    <2>1. new.left \subseteq Dirs!Nodes
        BY <1>3 DEF TreeInv, TreeBefore
    <2> QED BY <1>2, <2>1 DEF Dirs!Opened, Entry
<1>5. /\ open' \in Seq(Entry) /\ Len(open') = k + 1 /\ open'[k + 1] = new
      /\ \A i \in 1..k : open'[i] = rest[i]
    <2>1. open' = Append(rest, new)
        OBVIOUS
    <2>2. rest \in Seq(Entry) /\ Len(rest) = k
        BY <1>1
    <2> HIDE DEF new, rest, k
    <2> DEFINE all == Append(rest, new)
    <2>3. /\ all \in Seq(Entry) /\ Len(all) = Len(rest) + 1
          /\ \A i \in 1..Len(rest) : all[i] = rest[i]
          /\ all[Len(rest) + 1] = new
        BY <1>4, <2>2, Appended
    <2>4. open' = all
        BY <2>1
    <2> HIDE DEF all
    <2> QED BY <2>2, <2>3, <2>4
<1> HIDE DEF new, rest, k
<1>6. /\ DOMAIN open' = 1..(k + 1) /\ 1..k \subseteq 1..(k + 1) /\ k + 1 \in 1..(k + 1)
      /\ open'[k + 1].folder = n /\ open'[k + 1].left = new.left
      /\ \A i \in 1..k : /\ open'[i].folder = open[i].folder
                         /\ open'[i].left = open[i].left \ {n}
      /\ \A i \in 1..(k + 1) : i \in 1..k \/ i = k + 1
    BY <1>1, <1>2, <1>5
<1>7. OnList' = OnList /\ Under' = Under
    BY DEF OnList, Under, Dirs!Below
<1>8. n \notin OnList
    BY <1>1 DEF LeftInv
<1>9. StackInv'
    <2>1. \A i \in 1..(k + 1) :
              /\ open'[i].folder \in DOMAIN tree /\ open'[i].folder \notin OnList
              /\ i = 1 => open'[i].folder = target
              /\ i > 1 => open'[i].folder \in Under
        <3> SUFFICES ASSUME NEW i \in 1..(k + 1)
                     PROVE  /\ open'[i].folder \in DOMAIN tree /\ open'[i].folder \notin OnList
                            /\ i = 1 => open'[i].folder = target
                            /\ i > 1 => open'[i].folder \in Under
            OBVIOUS
        <3>1. CASE i = k + 1
            BY <1>1, <1>6, <1>8, <3>1
        <3>2. CASE i \in 1..k
            BY <1>1, <1>6, <3>2 DEF StackInv
        <3> QED BY <1>6, <3>1, <3>2
    <2>2. \A i, j \in 1..(k + 1) : i < j => open'[i].folder < open'[j].folder
        <3> SUFFICES ASSUME NEW i \in 1..(k + 1), NEW j \in 1..(k + 1), i < j
                     PROVE  open'[i].folder < open'[j].folder
            OBVIOUS
        <3>1. i \in 1..k
            BY <1>1
        <3>2. CASE j = k + 1
            BY <1>1, <1>6, <3>1, <3>2
        <3>3. CASE j \in 1..k
            BY <1>1, <1>6, <3>1, <3>3 DEF StackInv
        <3> QED BY <1>6, <3>2, <3>3
    <2> QED BY <1>5, <1>6, <1>7, <2>1, <2>2 DEF StackInv
<1>10. LeftInv'
    <2>1. ASSUME NEW i \in 1..k, NEW m \in open'[i].left
          PROVE  /\ m \in DOMAIN tree /\ m \notin OnList /\ before[m] = open'[i].folder
                 /\ \A j \in 1..(k + 1) : open'[j].folder # m
        <3>1. m \in open[i].left /\ m # n
            BY <1>6, <2>1
        <3>2. /\ m \in DOMAIN tree /\ m \notin OnList /\ before[m] = open[i].folder
              /\ \A j \in 1..k : open[j].folder # m
            BY <1>1, <3>1 DEF LeftInv
        <3> QED BY <1>6, <3>1, <3>2
    <2>2. ASSUME NEW m \in new.left
          PROVE  /\ m \in DOMAIN tree /\ m \notin OnList /\ before[m] = n
                 /\ \A j \in 1..(k + 1) : open'[j].folder # m
        <3>1. m \in DOMAIN tree /\ before[m] = n /\ m \in DOMAIN before /\ n < m /\ m \in Nat
            BY <1>3, <2>2, NodeKinds DEF TreeInv, TreeBefore
        <3>2. m \notin OnList
            <4>1. \A i \in 1..k : open[i].folder # n
                BY <1>1 DEF LeftInv
            <4> QED BY <1>1, <1>8, <3>1, <4>1 DEF ListedInv
        <3>3. \A j \in 1..k : open'[j].folder # m
            BY <1>1, <1>6, <3>1
        <3> QED BY <1>6, <3>1, <3>2, <3>3
    <2> QED BY <1>6, <1>7, <2>1, <2>2 DEF LeftInv
<1>11. MetInv'
    <2>1. ASSUME NEW i \in 1..(k + 1), NEW m \in DOMAIN before, before[m] = open'[i].folder
          PROVE  \/ m \in OnList \/ m \notin DOMAIN tree \/ m \in open'[i].left
                 \/ i < k + 1 /\ m = open'[i + 1].folder
        <3>1. CASE i = k + 1
            BY <1>3, <1>6, <2>1, <3>1
        <3>2. CASE i \in 1..k
            <4>1. \/ m \in OnList \/ m \notin DOMAIN tree \/ m \in open[i].left
                  \/ i < k /\ m = open[i + 1].folder
                <5>1. before[m] = open[i].folder /\ i \in DOMAIN open /\ Len(open) = k
                    BY <1>1, <1>6, <2>1, <3>2 DEF k
                <5> QED BY <5>1 DEF MetInv, Met
            <4>2. CASE m \in open[i].left
                <5>1. CASE m = n
                    <6>1. i = k
                        <7>1. before[n] = open[i].folder /\ before[n] = open[k].folder
                            BY <1>1, <1>6, <2>1, <3>2, <5>1
                        <7>2. ~(i < k)
                            <8>1. i < k => open[i].folder < open[k].folder
                                BY <1>1, <3>2 DEF StackInv
                            <8> QED BY <1>1, <3>2, <7>1, <8>1
                        <7> QED BY <1>1, <3>2, <7>2
                    <6> QED BY <1>1, <1>6, <5>1, <6>1
                <5>2. CASE m # n
                    BY <1>6, <3>2, <4>2, <5>2
                <5> QED BY <5>1, <5>2
            <4>3. CASE i < k /\ m = open[i + 1].folder
                <5>1. i + 1 \in 1..k /\ i < k + 1
                    BY <1>1, <3>2, <4>3
                <5> QED BY <1>6, <4>3, <5>1
            <4> QED BY <4>1, <4>2, <4>3
        <3> QED BY <1>6, <3>1, <3>2
    <2>2. \A m \in DOMAIN before : before[m] \in OnList => m \in OnList \/ m \notin DOMAIN tree
        BY DEF MetInv, Met
    <2>3. open' # <<>>
        BY <1>1, <1>5
    <2> QED BY <1>5, <1>6, <1>7, <2>1, <2>2, <2>3 DEF MetInv, Met
<1>12. ListedInv'
    BY <1>1, <1>6, <1>7 DEF ListedInv
<1>13. OrderInv'
    BY <1>7 DEF OrderInv
<1>14. NestInv'
    <2> SUFFICES ASSUME NEW i \in 1..(k + 1), i > 1
                 PROVE  before[open'[i].folder] = open'[i - 1].folder
        BY <1>5, <1>6 DEF NestInv
    <2>1. CASE i = k + 1
        <3>1. i - 1 = k /\ k \in 1..k
            BY <1>1, <2>1
        <3> QED BY <1>1, <1>6, <2>1, <3>1
    <2>2. CASE i \in 1..k
        <3>1. i - 1 \in 1..k
            BY <1>1, <2>2
        <3> QED BY <1>1, <1>6, <2>2, <3>1 DEF NestInv
    <2> QED BY <1>6, <2>1, <2>2
<1> QED BY <1>9, <1>10, <1>11, <1>12, <1>13, <1>14

\* A blank recording is removed at once.
LEMMA WalkDrops ==
    ASSUME TreeInv, WalkInv, open # <<>>, NEW n \in Dirs!Innermost.left, n \in blank,
           open' = [open EXCEPT ![Len(open)].left = @ \ {n}],
           tree' = Dirs!Without(n), UNCHANGED <<list, before, blank, target>>
    PROVE  WalkInv' /\ TreeInv'
<1> DEFINE k == Len(open)
           rest == [open EXCEPT ![k].left = @ \ {n}]
<1> USE DEF WalkInv
<1>1. /\ k \in Nat /\ k > 0 /\ k \in DOMAIN open /\ DOMAIN open = 1..k
      /\ n \in open[k].left /\ n \in Under /\ n \in DOMAIN tree /\ n \in DOMAIN before
      /\ rest \in Seq(Entry) /\ Len(rest) = k
      /\ \A i \in 1..k : /\ rest[i].folder = open[i].folder
                         /\ rest[i].left = open[i].left \ {n}
    BY Reading
<1>2. /\ open' \in Seq(Entry) /\ Len(open') = k /\ DOMAIN open' = 1..k
      /\ \A i \in 1..k : /\ open'[i].folder = open[i].folder
                         /\ open'[i].left = open[i].left \ {n}
    <2>1. open' = rest
        OBVIOUS
    <2> HIDE DEF rest, k
    <2> QED BY <1>1, <2>1
<1> HIDE DEF rest, k
<1>3. OnList' = OnList /\ Under' = Under
    BY DEF OnList, Under, Dirs!Below
<1>4. /\ DOMAIN tree' = DOMAIN tree \ {n}
      /\ tree' = [m \in DOMAIN tree' |-> before[m]]
    BY DEF Dirs!Without, TreeInv
<1>5. n \in Dirs!Files /\ n \notin OnList /\ n \notin Dirs!Folders
    BY <1>1, NodeKinds DEF LeftInv, TreeInv, TreeBefore
<1>6. TreeInv'
    <2>1. DOMAIN tree' \subseteq DOMAIN before'
        BY <1>4 DEF TreeInv
    <2>2. tree' = [m \in DOMAIN tree' |-> before'[m]]
        BY <1>4
    <2>3. TreeBefore'
        BY DEF TreeInv, TreeBefore
    <2> QED BY <2>1, <2>2, <2>3 DEF TreeInv
<1>7. StackInv'
    <2>1. \A i \in 1..k : open[i].folder # n
        BY <1>1 DEF LeftInv
    <2>2. \A i \in 1..k :
              /\ open'[i].folder \in DOMAIN tree' /\ open'[i].folder \notin OnList
              /\ i = 1 => open'[i].folder = target
              /\ i > 1 => open'[i].folder \in Under
        BY <1>1, <1>2, <1>4, <2>1 DEF StackInv
    <2>3. \A i, j \in 1..k : i < j => open'[i].folder < open'[j].folder
        BY <1>1, <1>2 DEF StackInv
    <2> QED BY <1>2, <1>3, <2>2, <2>3 DEF StackInv
<1>8. LeftInv'
    BY <1>1, <1>2, <1>3, <1>4 DEF LeftInv
<1>9. MetInv'
    <2>1. ASSUME NEW i \in 1..k, NEW m \in DOMAIN before, before[m] = open'[i].folder
          PROVE  \/ m \in OnList \/ m \notin DOMAIN tree' \/ m \in open'[i].left
                 \/ i < k /\ m = open'[i + 1].folder
        <3>1. \/ m \in OnList \/ m \notin DOMAIN tree \/ m \in open[i].left
              \/ i < k /\ m = open[i + 1].folder
            <4>1. before[m] = open[i].folder /\ i \in DOMAIN open /\ Len(open) = k
                BY <1>1, <1>2, <2>1 DEF k
            <4> QED BY <4>1 DEF MetInv, Met
        <3>2. i < k => i + 1 \in 1..k
            BY <1>1
        <3> QED BY <1>2, <1>4, <3>1, <3>2
    <2>2. \A m \in DOMAIN before : before[m] \in OnList => m \in OnList \/ m \notin DOMAIN tree'
        BY <1>4 DEF MetInv, Met
    <2>3. open' # <<>>
        BY <1>1, <1>2
    <2> QED BY <1>2, <1>3, <2>1, <2>2, <2>3 DEF MetInv, Met
<1>10. ListedInv'
    <2>1. OnList \subseteq DOMAIN tree'
        BY <1>4, <1>5 DEF ListedInv
    <2>2. \A m \in DOMAIN before \ DOMAIN tree' : m \in Under /\ m \in Dirs!Files
        BY <1>1, <1>4, <1>5 DEF ListedInv
    <2>3. \A m \in OnList : \/ before[m] \in OnList \/ before[m] = target
                            \/ \E i \in DOMAIN open' : before[m] = open'[i].folder
        BY <1>1, <1>2 DEF ListedInv
    <2> QED BY <1>3, <2>1, <2>2, <2>3 DEF ListedInv
<1>11. OrderInv'
    BY <1>3 DEF OrderInv
<1>12. NestInv'
    <2>1. \A i \in 1..k : i > 1 => i - 1 \in 1..k
        BY <1>1
    <2> QED BY <1>1, <1>2, <2>1 DEF NestInv
<1> QED BY <1>6, <1>7, <1>8, <1>9, <1>10, <1>11, <1>12

\* A node goes on the list when nothing that lies in it, or is still to be met, is
\* before it there.
LEMMA OrderAppended ==
    ASSUME TreeBefore, OrderInv, NEW n \in Under, before[n] \notin OnList,
           list' = Append(list, n), UNCHANGED <<before, target>>
    PROVE  OrderInv' /\ OnList' = OnList \union {n} /\ Under' = Under
<1> DEFINE N == Len(list)
           more == Append(list, n)
<1>1. Under' = Under
    BY DEF Under, Dirs!Below
<1>2. list \in Seq(Under) /\ N \in Nat /\ DOMAIN list = 1..N
    BY DEF OrderInv
<1>3. /\ more \in Seq(Under) /\ DOMAIN more = 1..(N + 1)
      /\ \A i \in 1..N : more[i] = list[i]
      /\ more[N + 1] = n
    BY <1>2, Appended
<1>4. list' = more
    OBVIOUS
<1> HIDE DEF more, N
<1>5. /\ 1..(N + 1) = 1..N \union {N + 1}
      /\ \A i \in 1..(N + 1) : i \in 1..N \/ i = N + 1
      /\ \A i \in 1..N : i < N + 1 /\ i \in 1..(N + 1)
    BY <1>2
<1>6. OnList' = OnList \union {n}
    <2>1. \A i \in DOMAIN list' : list'[i] \in OnList \union {n}
        BY <1>2, <1>3, <1>4, <1>5 DEF OnList
    <2>2. \A m \in OnList : \E i \in DOMAIN list' : list'[i] = m
        BY <1>2, <1>3, <1>4, <1>5 DEF OnList
    <2>3. \E i \in DOMAIN list' : list'[i] = n
        BY <1>3, <1>4, <1>5
    <2> QED BY <2>1, <2>2, <2>3 DEF OnList
<1>7. before[n] # n
    <2>1. n \in DOMAIN before /\ before[n] < n
        BY BelowIs DEF TreeBefore, Under
    <2>2. n \in Nat
        BY <2>1, NodeKinds DEF TreeBefore
    <2> QED BY <2>1, <2>2
<1>8. ASSUME NEW i \in 1..(N + 1), NEW j \in 1..(N + 1), before[more[i]] = more[j]
      PROVE  i < j
    <2>1. CASE i = N + 1
        <3>1. before[n] = more[j] /\ j # N + 1
            BY <1>3, <1>7, <1>8, <2>1
        <3>2. j \in 1..N
            BY <1>5, <3>1
        <3> QED BY <1>2, <1>3, <3>1, <3>2 DEF OnList
    <2>2. CASE i \in 1..N /\ j = N + 1
        BY <1>5, <2>2
    <2>3. CASE i \in 1..N /\ j \in 1..N
        BY <1>2, <1>3, <1>8, <2>3 DEF OrderInv
    <2> QED BY <1>5, <2>1, <2>2, <2>3
<1> QED BY <1>1, <1>3, <1>4, <1>6, <1>8 DEF OrderInv

\* A file is put on the list.
LEMMA WalkKeeps ==
    ASSUME TreeInv, WalkInv, open # <<>>, NEW n \in Dirs!Innermost.left,
           n \notin Dirs!Folders,
           open' = [open EXCEPT ![Len(open)].left = @ \ {n}],
           list' = Append(list, n), UNCHANGED <<tree, before, target>>
    PROVE  WalkInv'
<1> DEFINE k == Len(open)
           rest == [open EXCEPT ![k].left = @ \ {n}]
<1> USE DEF WalkInv
<1>1. /\ k \in Nat /\ k > 0 /\ k \in DOMAIN open /\ DOMAIN open = 1..k
      /\ n \in open[k].left /\ n \in Under /\ n \in DOMAIN tree /\ n \in DOMAIN before
      /\ before[n] = open[k].folder
      /\ rest \in Seq(Entry) /\ Len(rest) = k
      /\ \A i \in 1..k : /\ rest[i].folder = open[i].folder
                         /\ rest[i].left = open[i].left \ {n}
    BY Reading
<1>2. /\ open' \in Seq(Entry) /\ Len(open') = k /\ DOMAIN open' = 1..k
      /\ \A i \in 1..k : /\ open'[i].folder = open[i].folder
                         /\ open'[i].left = open[i].left \ {n}
    <2>1. open' = rest
        OBVIOUS
    <2> HIDE DEF rest, k
    <2> QED BY <1>1, <2>1
<1> HIDE DEF rest, k
<1>3. before[n] \notin OnList
    BY <1>1 DEF StackInv
<1>4. OrderInv' /\ OnList' = OnList \union {n} /\ Under' = Under
    BY <1>1, <1>3, OrderAppended DEF TreeInv
<1>5. \A m \in DOMAIN before : before[m] # n
    <2>1. n # 0
        BY <1>1, NodeKinds DEF TreeInv, TreeBefore
    <2> QED BY <2>1 DEF TreeInv, TreeBefore
<1>6. StackInv'
    <2>1. \A i \in 1..k : open[i].folder # n
        BY <1>1 DEF LeftInv
    <2>2. \A i \in 1..k :
              /\ open'[i].folder \in DOMAIN tree /\ open'[i].folder \notin OnList \union {n}
              /\ i = 1 => open'[i].folder = target
              /\ i > 1 => open'[i].folder \in Under
        BY <1>1, <1>2, <2>1 DEF StackInv
    <2>3. \A i, j \in 1..k : i < j => open'[i].folder < open'[j].folder
        BY <1>1, <1>2 DEF StackInv
    <2> QED BY <1>2, <1>4, <2>2, <2>3 DEF StackInv
<1>7. LeftInv'
    BY <1>1, <1>2, <1>4 DEF LeftInv
<1>8. MetInv'
    <2>1. ASSUME NEW i \in 1..k, NEW m \in DOMAIN before, before[m] = open'[i].folder
          PROVE  \/ m \in OnList \union {n} \/ m \notin DOMAIN tree \/ m \in open'[i].left
                 \/ i < k /\ m = open'[i + 1].folder
        <3>1. \/ m \in OnList \/ m \notin DOMAIN tree \/ m \in open[i].left
              \/ i < k /\ m = open[i + 1].folder
            <4>1. before[m] = open[i].folder /\ i \in DOMAIN open /\ Len(open) = k
                BY <1>1, <1>2, <2>1 DEF k
            <4> QED BY <4>1 DEF MetInv, Met
        <3>2. i < k => i + 1 \in 1..k
            BY <1>1
        <3> QED BY <1>2, <3>1, <3>2
    <2>2. \A m \in DOMAIN before :
             before[m] \in OnList \union {n} => m \in OnList \union {n} \/ m \notin DOMAIN tree
        BY <1>5 DEF MetInv, Met
    <2>3. open' # <<>>
        BY <1>1, <1>2
    <2> QED BY <1>2, <1>4, <2>1, <2>2, <2>3 DEF MetInv, Met
<1>9. ListedInv'
    <2>1. OnList \union {n} \subseteq DOMAIN tree
        BY <1>1 DEF ListedInv
    <2>2. \A m \in DOMAIN before \ DOMAIN tree : m \in Under /\ m \in Dirs!Files
        BY DEF ListedInv
    <2>3. \A m \in OnList \union {n} :
              \/ before[m] \in OnList \union {n} \/ before[m] = target
              \/ \E i \in DOMAIN open' : before[m] = open'[i].folder
        BY <1>1, <1>2 DEF ListedInv
    <2> QED BY <1>4, <2>1, <2>2, <2>3 DEF ListedInv
<1>10. NestInv'
    <2>1. \A i \in 1..k : i > 1 => i - 1 \in 1..k
        BY <1>1
    <2> QED BY <1>1, <1>2, <2>1 DEF NestInv
<1> QED BY <1>4, <1>6, <1>7, <1>8, <1>9, <1>10

\* The innermost folder has been read: it goes on the list, the target does not.
LEMMA WalkCloses ==
    ASSUME TreeInv, WalkInv, open # <<>>, Dirs!Innermost.left = {},
           open' = SubSeq(open, 1, Len(open) - 1),
           list' = IF Len(open) > 1 THEN Append(list, Dirs!Innermost.folder) ELSE list,
           UNCHANGED <<tree, before, target>>
    PROVE  WalkInv'
<1> DEFINE k == Len(open)
           f == open[k].folder
<1> USE DEF WalkInv
<1>1. /\ open \in Seq(Entry) /\ k \in Nat /\ k > 0 /\ k \in DOMAIN open
      /\ DOMAIN open = 1..k /\ 1 \in 1..k /\ open[k].left = {}
    BY DEF StackInv, Dirs!Innermost
<1>2. list' = IF k > 1 THEN Append(list, f) ELSE list
    BY DEF Dirs!Innermost
<1>3. /\ open' \in Seq(Entry) /\ Len(open') = k - 1 /\ DOMAIN open' = 1..(k - 1)
      /\ \A i \in 1..(k - 1) : open'[i] = open[i]
    <2> DEFINE short == SubSeq(open, 1, k - 1)
    <2>1. open' = short
        OBVIOUS
    <2> HIDE DEF k
    <2>2. 1 \in 1..(Len(open) + 1) /\ k - 1 \in 0..Len(open)
        BY <1>1 DEF k
    <2>3. /\ short \in Seq(Entry) /\ Len(short) = k - 1
          /\ \A i \in 1..(k - 1) : short[i] = open[i]
        BY <1>1, <2>2
    <2> HIDE DEF short
    <2> QED BY <2>1, <2>3
<1> HIDE DEF k, f
<1>4. /\ \A i \in 1..(k - 1) : i \in 1..k /\ i # k
      /\ \A i \in 1..k : i \in 1..(k - 1) \/ i = k
    BY <1>1
<1>5. \A m \in DOMAIN before : before[m] = f => Met(m)
    BY <1>1 DEF MetInv, f, k
<1>6. CASE k = 1
    <2>1. open' = <<>> /\ DOMAIN open' = {} /\ list' = list
        BY <1>2, <1>3, <1>6
    <2>2. f = target
        BY <1>1, <1>6 DEF StackInv, f
    <2>3. OnList' = OnList /\ Under' = Under /\ \A m : Met(m)' <=> Met(m)
        BY <2>1 DEF OnList, Under, Dirs!Below, Met
    <2>4. OrderInv'
        BY <2>1, <2>3 DEF OrderInv
    <2>5. StackInv' /\ NestInv' /\ LeftInv'
        BY <1>3, <2>1 DEF StackInv, NestInv, LeftInv
    <2>6. MetInv'
        BY <1>5, <2>1, <2>2, <2>3 DEF MetInv
    <2>7. ListedInv'
        <3>1. \A i \in DOMAIN open : open[i].folder = target
            BY <1>1, <1>6, <2>2 DEF f
        <3> QED BY <2>1, <2>3, <3>1 DEF ListedInv
    <2> QED BY <2>4, <2>5, <2>6, <2>7
<1>7. CASE k > 1
    <2>1. list' = Append(list, f) /\ k - 1 \in 1..(k - 1) /\ k - 1 \in 1..k
        BY <1>1, <1>2, <1>7
    <2>2. f \in Under /\ f \in DOMAIN tree /\ before[f] = open[k - 1].folder
        BY <1>1, <1>7 DEF StackInv, NestInv, f
    <2>3. before[f] \notin OnList
        BY <1>1, <2>1, <2>2 DEF StackInv
    <2>4. OrderInv' /\ OnList' = OnList \union {f} /\ Under' = Under
        BY <2>1, <2>2, <2>3, OrderAppended DEF TreeInv
    <2>5. StackInv'
        <3>1. \A i \in 1..(k - 1) : open[i].folder # f
            <4> SUFFICES ASSUME NEW i \in 1..(k - 1), open[i].folder = f PROVE FALSE
                OBVIOUS
            <4>1. i \in 1..k /\ i < k
                BY <1>1
            <4>2. f < f
                BY <1>1, <4>1 DEF StackInv, f
            <4>3. open[k] \in Entry
                BY <1>1
            <4>4. f \in Dirs!Folders
                BY <4>3 DEF Entry, f
            <4>5. f \in Nat
                BY <4>4, NodeKinds
            <4> QED BY <4>2, <4>5
        <3>2. \A i \in 1..(k - 1) :
                  /\ open'[i].folder \in DOMAIN tree /\ open'[i].folder \notin OnList \union {f}
                  /\ i = 1 => open'[i].folder = target
                  /\ i > 1 => open'[i].folder \in Under
            BY <1>1, <1>3, <1>4, <3>1 DEF StackInv
        <3>3. \A i, j \in 1..(k - 1) : i < j => open'[i].folder < open'[j].folder
            BY <1>1, <1>3, <1>4 DEF StackInv
        <3> QED BY <1>3, <2>4, <3>2, <3>3 DEF StackInv
    <2>6. NestInv'
        <3>1. \A i \in 1..(k - 1) : i > 1 => i - 1 \in 1..(k - 1)
            BY <1>1
        <3> QED BY <1>1, <1>3, <1>4, <3>1 DEF NestInv
    <2>7. LeftInv'
        <3>1. \A i \in 1..(k - 1) : \A m \in open'[i].left : m # f
            BY <1>1, <1>3, <1>4 DEF LeftInv, f
        <3> QED BY <1>1, <1>3, <1>4, <2>4, <3>1 DEF LeftInv
    <2>8. MetInv'
        <3>1. ASSUME NEW i \in 1..(k - 1), NEW m \in DOMAIN before,
                     before[m] = open'[i].folder
              PROVE  \/ m \in OnList \union {f} \/ m \notin DOMAIN tree
                     \/ m \in open'[i].left
                     \/ i < k - 1 /\ m = open'[i + 1].folder
            <4>1. \/ m \in OnList \/ m \notin DOMAIN tree \/ m \in open[i].left
                  \/ i < k /\ m = open[i + 1].folder
                <5>1. before[m] = open[i].folder /\ i \in DOMAIN open /\ Len(open) = k
                    BY <1>1, <1>3, <1>4, <3>1 DEF k
                <5> QED BY <5>1 DEF MetInv, Met
            <4>2. CASE m = open[i + 1].folder /\ i + 1 = k
                BY <4>2 DEF f
            <4>3. CASE m = open[i + 1].folder /\ i + 1 # k
                <5>1. i + 1 \in 1..(k - 1) /\ i < k - 1
                    BY <1>1, <4>3
                <5> QED BY <1>3, <4>3, <5>1
            <4> QED BY <1>3, <4>1, <4>2, <4>3
        <3>2. \A m \in DOMAIN before : before[m] \in OnList \union {f} =>
                 m \in OnList \union {f} \/ m \notin DOMAIN tree
            BY <1>5 DEF MetInv, Met
        <3>3. open' # <<>>
            <4>1. Len(open') = k - 1 /\ k - 1 # 0
                BY <1>1, <1>3, <1>7
            <4> QED BY <4>1, NotEmpty, Zenon
        <3>4. \A m : Met(m)' <=> m \in OnList \union {f} \/ m \notin DOMAIN tree
            BY <2>4 DEF Met
        <3>5. \A i \in DOMAIN open' : \A m \in DOMAIN before : before[m] = open'[i].folder =>
                 \/ Met(m)' \/ m \in open'[i].left
                 \/ i < Len(open') /\ m = open'[i + 1].folder
            BY <1>3, <3>1, <3>4
        <3>6. \A m \in DOMAIN before : before[m] \in OnList' => Met(m)'
            BY <2>4, <3>2, <3>4
        <3> QED BY <3>3, <3>5, <3>6 DEF MetInv
    <2>9. ListedInv'
        <3>1. OnList \union {f} \subseteq DOMAIN tree
            BY <2>2 DEF ListedInv
        <3>2. \A m \in DOMAIN before \ DOMAIN tree : m \in Under /\ m \in Dirs!Files
            BY DEF ListedInv
        <3>3. \A m \in OnList \union {f} :
                  \/ before[m] \in OnList \union {f} \/ before[m] = target
                  \/ \E i \in DOMAIN open' : before[m] = open'[i].folder
            <4>1. before[f] = open'[k - 1].folder /\ k - 1 \in DOMAIN open'
                BY <1>3, <2>1, <2>2
            <4>2. ASSUME NEW i \in DOMAIN open
                  PROVE  open[i].folder = f \/ \E j \in DOMAIN open' : open[i].folder = open'[j].folder
                <5>1. CASE i = k
                    BY <5>1 DEF f
                <5>2. CASE i \in 1..(k - 1)
                    BY <1>3, <5>2
                <5> QED BY <1>1, <1>4, <5>1, <5>2
            <4> QED BY <4>1, <4>2 DEF ListedInv
        <3> QED BY <2>4, <3>1, <3>2, <3>3 DEF ListedInv
    <2> QED BY <2>4, <2>5, <2>6, <2>7, <2>8, <2>9
<1> QED BY <1>1, <1>6, <1>7

\* The listing begins with nothing on the list.
LEMMA WalkBegins ==
    ASSUME TreeInv, tree = before, list = <<>>, NEW path \in Dirs!Nodes, target' = path,
           open' = IF path \in Dirs!Folders \intersect DOMAIN tree
                   THEN <<Dirs!Opened(path)>> ELSE <<>>,
           UNCHANGED <<tree, list, before>>
    PROVE  WalkInv'
<1>1. OnList' = {} /\ list' = <<>> /\ DOMAIN list' = {}
    BY DEF OnList
<1>2. OrderInv'
    BY <1>1 DEF OrderInv
<1>3. \A n \in DOMAIN before : n \in Nat /\ before[n] < n /\ before[n] \in Dirs!Folders \union {0}
                               /\ before[n] \in DOMAIN before \union {0} /\ n \in Dirs!Nodes
    BY NodeKinds DEF TreeInv, TreeBefore
<1>4. path \in Nat \ {0}
    BY NodeKinds
<1>5. CASE path \in Dirs!Folders \intersect DOMAIN tree
    <2> DEFINE new == Dirs!Opened(path)
               one == <<new>>
    <2>1. new.folder = path /\ \A m : m \in new.left <=> m \in DOMAIN before /\ before[m] = path
        BY DEF Dirs!Opened, Dirs!Children
    <2>2. new \in Entry
        <3>1. new.left \subseteq Dirs!Nodes
            BY <1>3, <2>1
        <3> QED BY <1>5, <2>1, <3>1 DEF Dirs!Opened, Entry
    <2>3. open' = one
        BY <1>5
    <2> HIDE DEF new
    <2>4. one \in Seq(Entry) /\ Len(one) = 1 /\ DOMAIN one = {1} /\ one[1] = new
        BY <2>2
    <2> HIDE DEF one
    <2>5. open' \in Seq(Entry) /\ Len(open') = 1 /\ DOMAIN open' = {1} /\ open'[1] = new
        BY <2>3, <2>4
    <2>6. StackInv'
        BY <1>1, <1>5, <2>1, <2>5 DEF StackInv
    <2>7. NestInv'
        BY <2>5 DEF NestInv
    <2>8. LeftInv'
        BY <1>1, <1>3, <2>1, <2>5 DEF LeftInv
    <2>9. MetInv'
        BY <1>1, <2>1, <2>5 DEF MetInv
    <2>10. ListedInv'
        BY <1>1 DEF ListedInv
    <2> QED BY <1>2, <2>6, <2>7, <2>8, <2>9, <2>10 DEF WalkInv
<1>6. CASE path \notin Dirs!Folders \intersect DOMAIN tree
    <2>1. open' = <<>> /\ DOMAIN open' = {} /\ open' \in Seq(Entry)
        BY <1>6
    <2>2. StackInv' /\ NestInv' /\ LeftInv'
        BY <2>1 DEF StackInv, NestInv, LeftInv
    <2>3. \A n \in DOMAIN before : before[n] # path
        BY <1>3, <1>4, <1>6
    <2>4. MetInv'
        BY <1>1, <2>1, <2>3 DEF MetInv
    <2>5. ListedInv'
        BY <1>1 DEF ListedInv
    <2> QED BY <1>2, <2>2, <2>4, <2>5 DEF WalkInv
<1> QED BY <1>5, <1>6

\* The place in the list of node n has been reached by the removal.
Past(n) == \E i \in DOMAIN list : i > at /\ list[i] = n

\* The removal goes through the list twice.  First it takes the files of the list; the
\* blank recordings below the target went while it was listed.
FilesInv ==
    /\ OrderInv /\ at \in 0..Len(list)
    /\ \A n \in Under : n \in Dirs!Folders => n \in OnList
    /\ \A n \in DOMAIN before : n \notin DOMAIN tree <=>
          n \in Under /\ n \in Dirs!Files /\ (n \notin OnList \/ Past(n))
\* Then it takes the folders that held no folder.
FoldersInv ==
    /\ OrderInv /\ at \in 0..Len(list)
    /\ \A n \in Under : n \in Dirs!Folders => n \in OnList
    /\ \A n \in DOMAIN before : n \notin DOMAIN tree <=>
          n \in Under /\ (n \in Dirs!Files \/ (~Dirs!HadFolder(n) /\ Past(n)))
RootInv ==
    \A n \in DOMAIN before : n \notin DOMAIN tree <=>
       n \in Under /\ (n \in Dirs!Files \/ ~Dirs!HadFolder(n))

\* The listing is over when everything below the target has been met.
LEMMA AllMet ==
    ASSUME TreeInv, WalkInv, open = <<>>, target \in Dirs!Nodes
    PROVE  \A n \in Under : Met(n)
<1> DEFINE Missed == {n \in Under : ~Met(n)}
<1>1. ASSUME NEW n \in Under
      PROVE  /\ n \in DOMAIN before /\ n \in Nat /\ before[n] < n /\ before[n] \in Nat
             /\ before[n] \in Dirs!Folders
             /\ before[n] = target \/ before[n] \in Under
    <2>1. n \in DOMAIN before /\ before[n] # 0 /\ (before[n] = target \/ before[n] \in Under)
        BY BelowIs DEF Under, TreeInv
    <2>2. before[n] \in Dirs!Folders
        BY <2>1 DEF TreeInv, TreeBefore
    <2> QED BY <2>1, <2>2, NodeKinds DEF TreeInv, TreeBefore
<1>2. SUFFICES ASSUME Missed # {} PROVE FALSE
    OBVIOUS
<1>3. Missed \in SUBSET Nat
    BY <1>1
<1>4. PICK n \in Missed : \A m \in Missed : n <= m
    <2> HIDE DEF Missed
    <2> QED BY <1>2, <1>3, LeastOf
<1>5. n \in Under /\ ~Met(n)
    BY <1>4
<1>6. CASE before[n] = target
    BY <1>1, <1>5, <1>6 DEF WalkInv, MetInv
<1>7. CASE before[n] \in Under
    <2> DEFINE d == before[n]
    <2>1. d \in Under /\ d \in Dirs!Folders /\ d < n /\ d \in Nat /\ n \in Nat
        BY <1>1, <1>5, <1>7
    <2>2. d \notin Missed
        BY <1>4, <2>1
    <2>3. d \notin Dirs!Files /\ d \in DOMAIN before
        BY <1>1, <2>1, NodeKinds
    <2>4. d \in DOMAIN tree
        BY <2>3 DEF WalkInv, ListedInv
    <2>5. d \in OnList
        BY <2>1, <2>2, <2>4 DEF Met
    <2> QED BY <1>1, <1>5, <2>5 DEF WalkInv, MetInv
<1> QED BY <1>1, <1>5, <1>6, <1>7

LEMMA FilesBegin ==
    ASSUME TreeInv, WalkInv, open = <<>>, target \in Dirs!Nodes, at' = Len(list),
           UNCHANGED <<tree, list, before, target>>
    PROVE  FilesInv'
<1>1. OnList' = OnList /\ Under' = Under
    BY DEF OnList, Under, Dirs!Below
<1>2. OrderInv'
    BY <1>1 DEF WalkInv, OrderInv
<1>3. list \in Seq(Under) /\ Len(list) \in Nat /\ DOMAIN list = 1..Len(list)
    BY DEF WalkInv, OrderInv
<1>4. at' \in 0..Len(list')
    BY <1>3
<1>5. \A n : ~Past(n)'
    <2>1. \A i \in DOMAIN list : ~(i > Len(list))
        BY <1>3
    <2> QED BY <2>1 DEF Past
<1>6. \A n \in Under : Met(n) /\ n \in DOMAIN before /\ n \in Dirs!Nodes
    BY AllMet, BelowIs DEF Under, TreeInv, TreeBefore
<1>7. \A n \in Under : n \in Dirs!Folders => n \in OnList
    BY <1>6, NodeKinds DEF Met, WalkInv, ListedInv
<1>8. \A n \in DOMAIN before : n \notin DOMAIN tree <=>
          n \in Under /\ n \in Dirs!Files /\ n \notin OnList
    BY <1>6 DEF Met, WalkInv, ListedInv
<1> QED BY <1>1, <1>2, <1>4, <1>5, <1>7, <1>8 DEF FilesInv

LEMMA OneReached ==
    ASSUME list \in Seq(Under), at \in 0..Len(list), at > 0, at' = at - 1, list' = list
    PROVE  /\ at \in DOMAIN list /\ at' \in 0..Len(list')
           /\ \A n : Past(n)' <=> Past(n) \/ n = list[at]
<1>1. Len(list) \in Nat /\ DOMAIN list = 1..Len(list) /\ at \in DOMAIN list
    OBVIOUS
<1>2. at' \in 0..Len(list')
    BY <1>1
<1>3. \A i \in DOMAIN list : i > at - 1 <=> i > at \/ i = at
    BY <1>1
<1>4. ASSUME NEW n
      PROVE  Past(n)' <=> Past(n) \/ n = list[at]
    BY <1>1, <1>3 DEF Past
<1> QED BY <1>1, <1>2, <1>4

\* What a removal of node n leaves of the tree.
LEMMA Removed ==
    ASSUME TreeInv, NEW n, tree' = Dirs!Without(n), before' = before, blank' = blank
    PROVE  TreeInv' /\ DOMAIN tree' = DOMAIN tree \ {n}
<1>1. /\ DOMAIN tree' = DOMAIN tree \ {n}
      /\ tree' = [m \in DOMAIN tree' |-> before[m]]
    BY DEF Dirs!Without, TreeInv
<1>2. TreeBefore'
    BY DEF TreeInv, TreeBefore
<1>3. DOMAIN tree' \subseteq DOMAIN before'
    BY <1>1 DEF TreeInv
<1> QED BY <1>1, <1>2, <1>3 DEF TreeInv

\* A file of the list is removed, a folder of the list stays.
LEMMA FilesNext ==
    ASSUME TreeInv, FilesInv, at > 0, at' = at - 1,
           tree' = IF list[at] \in Dirs!Files /\ Dirs!Children(list[at]) = {}
                   THEN Dirs!Without(list[at]) ELSE tree,
           UNCHANGED <<list, before, target>>
    PROVE  FilesInv'
<1> DEFINE n == list[at]
<1>1. OnList' = OnList /\ Under' = Under
    BY DEF OnList, Under, Dirs!Below
<1>2. list \in Seq(Under) /\ at \in 0..Len(list)
    BY DEF FilesInv, OrderInv
<1>3. at \in DOMAIN list /\ at' \in 0..Len(list') /\ \A m : Past(m)' <=> Past(m) \/ m = n
    BY <1>2, OneReached
<1>4. n \in Under /\ n \in OnList
    BY <1>2, <1>3 DEF OnList
<1>5. n \in DOMAIN before /\ n \in Dirs!Nodes
    BY <1>4, BelowIs DEF Under, TreeInv, TreeBefore
<1>6. n \in Dirs!Files => Dirs!Children(n) = {}
    <2>1. n \in Dirs!Files => n \notin Dirs!Folders /\ n # 0
        BY <1>5, NodeKinds
    <2> QED BY <2>1 DEF Dirs!Children, TreeInv, TreeBefore
<1>7. DOMAIN tree' = IF n \in Dirs!Files THEN DOMAIN tree \ {n} ELSE DOMAIN tree
    BY <1>6 DEF Dirs!Without
<1> HIDE DEF n
<1>8. OrderInv'
    BY <1>1 DEF FilesInv, OrderInv
<1>9. \A m \in DOMAIN before : m \notin DOMAIN tree' <=>
          m \in Under /\ m \in Dirs!Files /\ (m \notin OnList \/ Past(m) \/ m = n)
    BY <1>4, <1>7 DEF FilesInv
<1> QED BY <1>1, <1>3, <1>8, <1>9 DEF FilesInv

LEMMA FoldersBegin ==
    ASSUME TreeInv, FilesInv, at = 0, at' = Len(list),
           UNCHANGED <<tree, list, before, target>>
    PROVE  FoldersInv'
<1>1. /\ OnList' = OnList /\ Under' = Under
      /\ \A n : Dirs!HadFolder(n)' <=> Dirs!HadFolder(n)
    BY DEF OnList, Under, Dirs!Below, Dirs!HadFolder
<1>2. OrderInv'
    BY <1>1 DEF FilesInv, OrderInv
<1>3. list \in Seq(Under) /\ Len(list) \in Nat /\ DOMAIN list = 1..Len(list)
    BY DEF FilesInv, OrderInv
<1>4. at' \in 0..Len(list')
    BY <1>3
<1>5. \A n : ~Past(n)'
    <2>1. \A i \in DOMAIN list : ~(i > Len(list))
        BY <1>3
    <2> QED BY <2>1 DEF Past
<1>6. \A n : n \in OnList => Past(n)
    <2>1. \A i \in DOMAIN list : i > 0
        BY <1>3
    <2> QED BY <2>1 DEF Past, OnList
<1>7. \A n \in DOMAIN before : n \notin DOMAIN tree <=> n \in Under /\ n \in Dirs!Files
    BY <1>6 DEF FilesInv
<1>8. \A n \in Under : n \in Dirs!Folders => n \in OnList
    BY DEF FilesInv
<1> QED BY <1>1, <1>2, <1>4, <1>5, <1>7, <1>8 DEF FoldersInv

\* A folder of the list is empty just when it held no folder: what it held is below the
\* target, its files are gone, and its folders are before it on the list.
LEMMA EmptyFolder ==
    ASSUME TreeInv, FoldersInv, at > 0, list[at] \in Dirs!Folders
    PROVE  Dirs!Children(list[at]) = {} <=> ~Dirs!HadFolder(list[at])
<1> DEFINE n == list[at]
<1>1. /\ list \in Seq(Under) /\ at \in DOMAIN list /\ DOMAIN list \subseteq Nat
      /\ n \in Under /\ n \in Nat \ {0} /\ at \in Nat
    <2>1. list \in Seq(Under) /\ at \in 0..Len(list)
        BY DEF FoldersInv, OrderInv
    <2>2. at \in DOMAIN list /\ DOMAIN list \subseteq Nat /\ at \in Nat
        BY <2>1
    <2>3. n \in Under
        BY <2>1, <2>2
    <2>4. n \in Nat \ {0}
        BY NodeKinds
    <2> QED BY <2>1, <2>2, <2>3, <2>4
<1>2. \A c \in DOMAIN before : before[c] = n => c \in Under /\ c \in Dirs!Nodes
    BY <1>1, BelowIs DEF Under, TreeInv, TreeBefore
<1>3. \A c : c \in Dirs!Children(n) <=> c \in DOMAIN tree /\ c \in DOMAIN before /\ before[c] = n
    BY DEF Dirs!Children, TreeInv
<1>4. \A i, j \in DOMAIN list : before[list[i]] = list[j] => i < j
    BY DEF FoldersInv, OrderInv
<1>5. ASSUME NEW c \in Dirs!Folders, c \in DOMAIN before, before[c] = n
      PROVE  c \in DOMAIN tree
    <2>1. c \in Under /\ c \notin Dirs!Files
        BY <1>2, <1>5, NodeKinds
    <2>2. ~Past(c)
        <3> SUFFICES ASSUME NEW i \in DOMAIN list, i > at, list[i] = c PROVE FALSE
            BY DEF Past
        <3>1. i < at
            BY <1>1, <1>4, <1>5
        <3> QED BY <1>1, <3>1
    <2> QED BY <1>5, <2>1, <2>2 DEF FoldersInv
<1>6. ASSUME NEW c \in DOMAIN before, before[c] = n, c \in DOMAIN tree
      PROVE  c \in Dirs!Folders
    <2>1. c \in Under /\ c \in Dirs!Nodes
        BY <1>2, <1>6
    <2> QED BY <1>6, <2>1, NodeKinds DEF FoldersInv
<1> HIDE DEF n
<1>7. Dirs!Children(n) = {} <=> ~Dirs!HadFolder(n)
    BY <1>3, <1>5, <1>6 DEF Dirs!HadFolder
<1> QED BY <1>7 DEF n

\* A folder of the list is removed if it held no folder, a file is left as it is.
LEMMA FoldersNext ==
    ASSUME TreeInv, FoldersInv, at > 0, at' = at - 1,
           tree' = IF list[at] \in Dirs!Folders /\ Dirs!Children(list[at]) = {}
                   THEN Dirs!Without(list[at]) ELSE tree,
           UNCHANGED <<list, before, target>>
    PROVE  FoldersInv'
<1> DEFINE n == list[at]
<1>1. /\ OnList' = OnList /\ Under' = Under
      /\ \A m : Dirs!HadFolder(m)' <=> Dirs!HadFolder(m)
    BY DEF OnList, Under, Dirs!Below, Dirs!HadFolder
<1>2. list \in Seq(Under) /\ at \in 0..Len(list)
    BY DEF FoldersInv, OrderInv
<1>3. at \in DOMAIN list /\ at' \in 0..Len(list') /\ \A m : Past(m)' <=> Past(m) \/ m = n
    BY <1>2, OneReached
<1>4. n \in Under
    BY <1>2, <1>3
<1>5. n \in DOMAIN before /\ n \in Dirs!Nodes
    BY <1>4, BelowIs DEF Under, TreeInv, TreeBefore
<1>6. n \in Dirs!Folders <=> n \notin Dirs!Files
    BY <1>5, NodeKinds
<1>7. DOMAIN tree' = IF n \in Dirs!Folders /\ ~Dirs!HadFolder(n)
                     THEN DOMAIN tree \ {n} ELSE DOMAIN tree
    BY EmptyFolder DEF Dirs!Without
<1> HIDE DEF n
<1>8. OrderInv'
    BY <1>1 DEF FoldersInv, OrderInv
<1>9. \A m \in DOMAIN before : m \notin DOMAIN tree' <=>
          m \in Under /\ (m \in Dirs!Files \/ (~Dirs!HadFolder(m) /\ (Past(m) \/ m = n)))
    BY <1>4, <1>6, <1>7 DEF FoldersInv
<1> QED BY <1>1, <1>3, <1>8, <1>9 DEF FoldersInv

LEMMA FoldersEnd ==
    ASSUME TreeInv, FoldersInv, at = 0, UNCHANGED <<tree, before, target>>
    PROVE  RootInv'
<1>1. Under' = Under /\ \A n : Dirs!HadFolder(n)' <=> Dirs!HadFolder(n)
    BY DEF Under, Dirs!Below, Dirs!HadFolder
<1>2. \A n : n \in OnList => Past(n)
    <2>1. \A i \in DOMAIN list : i > 0
        BY DEF FoldersInv, OrderInv
    <2> QED BY <2>1 DEF Past, OnList
<1>3. \A n \in DOMAIN before : n \in Under /\ n \notin Dirs!Files => Past(n)
    BY <1>2, NodeKinds DEF FoldersInv, TreeInv, TreeBefore
<1> QED BY <1>1, <1>3 DEF FoldersInv, RootInv

\* The target is empty just when no folder below it held a folder.
LEMMA EmptyTarget ==
    ASSUME TreeInv, RootInv, target \in Dirs!Folders
    PROVE  Dirs!Children(target) = {} <=>
              {d \in Under \intersect Dirs!Folders : Dirs!HadFolder(d)} = {}
<1> DEFINE Left == {d \in Under \intersect Dirs!Folders : Dirs!HadFolder(d)}
<1>1. \A n : n \in Under <=> /\ n \in DOMAIN before /\ before[n] # 0
                             /\ before[n] = target \/ before[n] \in Under
    BY BelowIs DEF Under, TreeInv
<1>2. target # 0 /\ target \in Dirs!Nodes
    BY NodeKinds
<1>3. \A c : c \in Dirs!Children(target) <=>
                c \in DOMAIN tree /\ c \in DOMAIN before /\ before[c] = target
    BY DEF Dirs!Children, TreeInv
<1>4. \A n \in DOMAIN before : /\ n \in Nat /\ before[n] \in Nat /\ before[n] < n
                               /\ n \in Dirs!Nodes
                               /\ before[n] \in Dirs!Folders \union {0}
    BY NodeKinds DEF TreeInv, TreeBefore
<1>5. ASSUME NEW c \in Dirs!Children(target)
      PROVE  c \in Left
    <2>1. c \in Under /\ c \in DOMAIN tree /\ c \in Dirs!Nodes
        BY <1>1, <1>2, <1>3, <1>4
    <2> QED BY <1>1, <2>1, NodeKinds DEF RootInv
<1>6. ASSUME Left # {}
      PROVE  Dirs!Children(target) # {}
    <2>1. Left \in SUBSET Nat
        BY <1>1, <1>4
    <2>2. PICK d \in Left : \A e \in Left : d <= e
        <3> HIDE DEF Left
        <3> QED BY <1>6, <2>1, LeastOf
    <2>3. /\ d \in Under /\ d \in Dirs!Folders /\ Dirs!HadFolder(d) /\ d \in DOMAIN before
          /\ before[d] # 0
        BY <1>1, <2>2
    <2>4. d \in DOMAIN tree
        BY <2>3, NodeKinds DEF RootInv
    <2>5. before[d] \notin Left
        BY <1>4, <2>1, <2>2, <2>3
    <2>6. before[d] \in Dirs!Folders /\ Dirs!HadFolder(before[d])
        BY <1>4, <2>3 DEF Dirs!HadFolder
    <2>7. before[d] = target
        BY <1>1, <2>3, <2>5, <2>6
    <2> QED BY <1>3, <2>3, <2>4, <2>7
<1> QED BY <1>5, <1>6

\* The folder itself goes last.
LEMMA RootRemoved ==
    ASSUME TreeInv, RootInv, target \in Dirs!Nodes,
           tree' = IF target \in Dirs!Folders /\ Dirs!Children(target) = {}
                   THEN Dirs!Without(target) ELSE tree,
           UNCHANGED <<before, target>>
    PROVE  LET left == {d \in Under \intersect Dirs!Folders : Dirs!HadFolder(d)}
               removed == (Under \ left) \union
                          (IF target \in Dirs!Folders /\ left = {} THEN {target} ELSE {})
           IN  tree' = [n \in DOMAIN before \ removed |-> before[n]]
<1> DEFINE left == {d \in Under \intersect Dirs!Folders : Dirs!HadFolder(d)}
           root == IF target \in Dirs!Folders /\ left = {} THEN {target} ELSE {}
           removed == (Under \ left) \union root
<1>1. DOMAIN tree' = DOMAIN tree \ root
    BY EmptyTarget DEF Dirs!Without
<1>2. tree' = [n \in DOMAIN tree' |-> before[n]]
    BY DEF Dirs!Without, TreeInv
<1>3. \A n \in DOMAIN before : n \notin DOMAIN tree <=> n \in Under \ left
    <2>1. \A n \in DOMAIN before : n \in Dirs!Folders <=> n \notin Dirs!Files
        BY NodeKinds DEF TreeInv, TreeBefore
    <2> QED BY <2>1 DEF RootInv
<1> HIDE DEF root, left
<1>4. DOMAIN tree' = DOMAIN before \ removed
    BY <1>1, <1>3 DEF TreeInv
<1> HIDE DEF removed
<1>5. tree' = [n \in DOMAIN before \ removed |-> before[n]]
    BY <1>2, <1>4
<1> QED BY <1>5 DEF removed, root, left

\* Where a removal stands after each of its steps.
DeleteInv ==
    /\ target \in Dirs!Nodes
    /\ step = "list" => WalkInv
    /\ step = "files" => FilesInv
    /\ step = "folders" => FoldersInv
    /\ step = "root" => RootInv
    /\ step = "tell" => FilesGoneFoldersLeft
DirsInv ==
    /\ TreeInv
    /\ job = "none" => tree = before /\ open = <<>> /\ list = <<>> /\ step = "tell"
    /\ job = "delete" => DeleteInv

LEMMA DirsStart == Dirs!Init => DirsInv
<1> SUFFICES ASSUME Dirs!Init PROVE DirsInv
    OBVIOUS
<1>1. PICK nodes \in SUBSET Dirs!Nodes : tree \in [nodes -> Dirs!Folders \union {0}]
    BY DEF Dirs!Init
<1>2. tree = before /\ job = "none" /\ open = <<>> /\ list = <<>> /\ step = "tell"
    BY DEF Dirs!Init
<1>3. blank \subseteq Dirs!Files /\ Dirs!IsTree(tree)
    BY DEF Dirs!Init
<1>4. \A n \in DOMAIN tree : tree[n] \in Dirs!Folders \union {0}
    BY <1>1
<1>5. DOMAIN tree \subseteq Dirs!Nodes
    BY <1>1
<1>6. TreeBefore
    BY <1>2, <1>3, <1>4, <1>5 DEF TreeBefore, Dirs!IsTree
<1>7. tree = [n \in DOMAIN tree |-> before[n]]
    BY <1>1, <1>2
<1> QED BY <1>2, <1>6, <1>7 DEF DirsInv, TreeInv

LEMMA TreeNext == TreeInv /\ Dirs!Next => TreeInv'
<1> SUFFICES ASSUME TreeInv, Dirs!Next PROVE TreeInv'
    OBVIOUS
<1>1. before' = before /\ blank' = blank /\ (tree' = tree \/ \E n : tree' = Dirs!Without(n))
    BY DEF Dirs!Next, Dirs!ReadDir, Dirs!DeleteFolder, Dirs!DeleteFile, Dirs!Begin,
       Dirs!ReadEntry, Dirs!CloseFolder, Dirs!Listed, Dirs!RemoveListed,
       Dirs!RemovedListed, Dirs!RemoveRoot, Dirs!Tell
<1>2. CASE tree' = tree
    BY <1>1, <1>2 DEF TreeInv, TreeBefore
<1>3. CASE \E n : tree' = Dirs!Without(n)
    BY <1>1, <1>3, Removed
<1> QED BY <1>1, <1>2, <1>3

LEMMA WalkNext ==
    ASSUME TreeInv, DeleteInv, job = "delete", Dirs!ReadEntry
    PROVE  DeleteInv'
<1>1. /\ step = "list" /\ open # <<>> /\ step' = "list" /\ target' = target
      /\ before' = before /\ blank' = blank
    BY DEF Dirs!ReadEntry
<1>2. PICK n \in Dirs!Innermost.left :
         LET rest == [open EXCEPT ![Len(open)].left = @ \ {n}] IN
         \/ /\ n \in Dirs!Folders /\ Dirs!Repeat
            /\ open' = Append(rest, Dirs!Opened(n))
            /\ UNCHANGED <<tree, list>>
         \/ /\ n \in blank
            /\ tree' = Dirs!Without(n)
            /\ open' = rest
            /\ UNCHANGED list
         \/ /\ n \notin blank /\ ~(n \in Dirs!Folders /\ Dirs!Repeat)
            /\ list' = Append(list, n)
            /\ open' = rest
            /\ UNCHANGED tree
    BY DEF Dirs!ReadEntry
<1>3. Dirs!Repeat
    BY DEF Dirs!Repeat
<1>4. WalkInv
    BY <1>1 DEF DeleteInv
<1>5. WalkInv'
    <2>1. CASE n \in Dirs!Folders /\ open' = Append([open EXCEPT ![Len(open)].left = @ \ {n}],
                                                    Dirs!Opened(n))
               /\ UNCHANGED <<tree, list>>
        BY <1>1, <1>4, <2>1, WalkEnters
    <2>2. CASE n \in blank /\ tree' = Dirs!Without(n)
               /\ open' = [open EXCEPT ![Len(open)].left = @ \ {n}] /\ list' = list
        BY <1>1, <1>4, <2>2, WalkDrops
    <2>3. CASE n \notin Dirs!Folders /\ list' = Append(list, n)
               /\ open' = [open EXCEPT ![Len(open)].left = @ \ {n}] /\ tree' = tree
        BY <1>1, <1>4, <2>3, WalkKeeps
    <2> QED BY <1>2, <1>3, <2>1, <2>2, <2>3
<1> QED BY <1>1, <1>5 DEF DeleteInv

LEMMA RemovalNext ==
    ASSUME TreeInv, DeleteInv, job = "delete",
           Dirs!CloseFolder \/ Dirs!Listed \/ Dirs!RemoveListed \/ Dirs!RemovedListed
    PROVE  DeleteInv'
<1>1. CASE Dirs!CloseFolder
    <2>1. WalkInv'
        BY <1>1, WalkCloses DEF DeleteInv, Dirs!CloseFolder
    <2> QED BY <1>1, <2>1 DEF DeleteInv, Dirs!CloseFolder
<1>2. CASE Dirs!Listed
    <2>1. FilesInv'
        BY <1>2, FilesBegin DEF DeleteInv, Dirs!Listed
    <2> QED BY <1>2, <2>1 DEF DeleteInv, Dirs!Listed
<1>3. CASE Dirs!RemoveListed
    <2>1. at > 0 /\ at' = at - 1 /\ UNCHANGED <<list, before, target>> /\ step' = step
          /\ step \in {"files", "folders"}
        BY <1>3 DEF Dirs!RemoveListed
    <2>2. CASE step = "files"
        <3>1. tree' = IF list[at] \in Dirs!Files /\ Dirs!Children(list[at]) = {}
                      THEN Dirs!Without(list[at]) ELSE tree
            BY <1>3, <2>2 DEF Dirs!RemoveListed
        <3>2. FilesInv'
            BY <2>1, <2>2, <3>1, FilesNext DEF DeleteInv
        <3> QED BY <2>1, <2>2, <3>2 DEF DeleteInv
    <2>3. CASE step = "folders"
        <3>1. tree' = IF list[at] \in Dirs!Folders /\ Dirs!Children(list[at]) = {}
                      THEN Dirs!Without(list[at]) ELSE tree
            BY <1>3, <2>3 DEF Dirs!RemoveListed
        <3>2. FoldersInv'
            BY <2>1, <2>3, <3>1, FoldersNext DEF DeleteInv
        <3> QED BY <2>1, <2>3, <3>2 DEF DeleteInv
    <2> QED BY <2>1, <2>2, <2>3
<1>4. CASE Dirs!RemovedListed
    <2>1. CASE step = "files"
        <3>1. FoldersInv'
            BY <1>4, <2>1, FoldersBegin DEF DeleteInv, Dirs!RemovedListed
        <3> QED BY <1>4, <2>1, <3>1 DEF DeleteInv, Dirs!RemovedListed
    <2>2. CASE step = "folders"
        <3>1. RootInv'
            BY <1>4, <2>2, FoldersEnd DEF DeleteInv, Dirs!RemovedListed
        <3> QED BY <1>4, <2>2, <3>1 DEF DeleteInv, Dirs!RemovedListed
    <2> QED BY <1>4, <2>1, <2>2 DEF Dirs!RemovedListed
<1> QED BY <1>1, <1>2, <1>3, <1>4

LEMMA RootNext ==
    ASSUME TreeInv, DeleteInv, Dirs!RemoveRoot
    PROVE  DeleteInv'
<1>1. RootInv /\ target \in Dirs!Nodes /\ step' = "tell" /\ UNCHANGED <<before, target>>
    BY DEF DeleteInv, Dirs!RemoveRoot
<1>2. tree' = IF target \in Dirs!Folders /\ Dirs!Children(target) = {}
              THEN Dirs!Without(target) ELSE tree
    BY DEF Dirs!RemoveRoot
<1> DEFINE left == {d \in Under \intersect Dirs!Folders : Dirs!HadFolder(d)}
           removed == (Under \ left) \union
                      (IF target \in Dirs!Folders /\ left = {} THEN {target} ELSE {})
<1>3. tree' = [n \in DOMAIN before \ removed |-> before[n]]
    BY <1>1, <1>2, RootRemoved
<1>4. Under' = Under /\ left' = left
    BY <1>1 DEF Under, Dirs!Below, Dirs!HadFolder
<1>5. Under' = Dirs!Below(target)'
    BY DEF Under
<1>6. FilesGoneFoldersLeft'
    <2> HIDE DEF left
    <2>1. removed' = removed
        BY <1>1, <1>4
    <2> HIDE DEF removed
    <2>2. tree' = [n \in DOMAIN before' \ removed' |-> before'[n]]
        BY <1>1, <1>3, <2>1
    <2> USE DEF removed, left
    <2> QED BY <2>2, Zenon DEF FilesGoneFoldersLeft, Dirs!FilesGoneFoldersLeft, Under
<1> QED BY <1>1, <1>6 DEF DeleteInv

LEMMA DirsNext == DirsInv /\ Dirs!Next => DirsInv'
<1> SUFFICES ASSUME DirsInv, Dirs!Next PROVE DirsInv'
    OBVIOUS
<1> USE DEF DirsInv
<1>1. TreeInv'
    BY TreeNext
<1>2. ASSUME NEW path \in Dirs!Nodes, Dirs!DeleteFolder(path)
      PROVE  DirsInv'
    <2>1. WalkInv'
        BY <1>2, WalkBegins DEF Dirs!DeleteFolder, Dirs!Begin
    <2> QED BY <1>1, <1>2, <2>1 DEF Dirs!DeleteFolder, Dirs!Begin, DeleteInv
<1>3. ASSUME NEW path \in Dirs!Nodes, Dirs!ReadDir(path) \/ Dirs!DeleteFile(path)
      PROVE  DirsInv'
    BY <1>1, <1>3 DEF Dirs!ReadDir, Dirs!Begin, Dirs!DeleteFile
<1>4. ASSUME Dirs!ReadEntry \/ Dirs!CloseFolder \/ Dirs!Listed \/ Dirs!RemoveListed
             \/ Dirs!RemovedListed \/ Dirs!RemoveRoot
      PROVE  DirsInv'
    <2>1. job' = job /\ job # "none"
        BY <1>4 DEF Dirs!ReadEntry, Dirs!CloseFolder, Dirs!Listed, Dirs!RemoveListed,
           Dirs!RemovedListed, Dirs!RemoveRoot
    <2>2. job = "delete" => DeleteInv'
        BY <1>4, WalkNext, RemovalNext, RootNext
    <2> QED BY <1>1, <2>1, <2>2
<1>5. CASE Dirs!Tell
    BY <1>1, <1>5 DEF Dirs!Tell
<1> QED BY <1>2, <1>3, <1>4, <1>5 DEF Dirs!Next

\* A removal takes every file below the folder the app sent and spares everything
\* outside; it leaves the folders that held a folder, since deleteDirList removes a
\* folder before the folders in it.  This holds for every tree and every order in which
\* readdir may give what is in a folder.
THEOREM PartsFilesGone == PartsSpec => []FilesGoneFoldersLeft
<1>1. PartsInit => DirsInv
    BY DirsStart DEF PartsInit
<1>2. DirsInv /\ [PartsNext]_partsVars => DirsInv'
    <2> SUFFICES ASSUME DirsInv, [PartsNext]_partsVars PROVE DirsInv'
        OBVIOUS
    <2>1. CASE ListFolders
        BY <2>1, DirsNext DEF ListFolders
    <2>2. CASE UNCHANGED dirsVars
        <3>1. /\ tree' = tree /\ blank' = blank /\ job' = job /\ target' = target
              /\ open' = open /\ list' = list /\ step' = step /\ at' = at
              /\ before' = before
            BY <2>2 DEF dirsVars
        <3>2. TreeInv' <=> TreeInv
            BY <3>1 DEF TreeInv, TreeBefore
        <3>3. OnList' = OnList /\ Under' = Under
            BY <3>1 DEF OnList, Under, Dirs!Below
        <3>4. \A n : (Past(n)' <=> Past(n)) /\ (Dirs!HadFolder(n)' <=> Dirs!HadFolder(n))
            BY <3>1 DEF Past, Dirs!HadFolder
        <3>5. OrderInv' <=> OrderInv
            BY <3>1, <3>3 DEF OrderInv
        <3>6. (StackInv' <=> StackInv) /\ (NestInv' <=> NestInv) /\ (LeftInv' <=> LeftInv)
            BY <3>1, <3>3 DEF StackInv, NestInv, LeftInv
        <3>7. (MetInv' <=> MetInv) /\ (ListedInv' <=> ListedInv)
            BY <3>1, <3>3 DEF MetInv, Met, ListedInv
        <3>8. WalkInv' <=> WalkInv
            BY <3>5, <3>6, <3>7 DEF WalkInv
        <3>9. FilesInv' <=> FilesInv
            BY <3>1, <3>3, <3>4, <3>5 DEF FilesInv
        <3>10. (FoldersInv' <=> FoldersInv) /\ (RootInv' <=> RootInv)
            BY <3>1, <3>3, <3>4, <3>5 DEF FoldersInv, RootInv
        <3>11. FilesGoneFoldersLeft' <=> FilesGoneFoldersLeft
            BY <3>1 DEF FilesGoneFoldersLeft, Dirs!FilesGoneFoldersLeft, Dirs!Below,
               Dirs!HadFolder
        <3>12. DeleteInv' <=> DeleteInv
            BY <3>1, <3>8, <3>9, <3>10, <3>11 DEF DeleteInv
        <3> QED BY <3>1, <3>2, <3>12 DEF DirsInv
    <2> QED BY <2>1, <2>2 DEF PartsNext, Timing, ChangeSettings, StartArduino, partsVars
<1>3. DirsInv => FilesGoneFoldersLeft
    BY DEF DirsInv, DeleteInv, FilesGoneFoldersLeft, Dirs!FilesGoneFoldersLeft
<1> QED BY <1>1, <1>2, <1>3, PTL DEF PartsSpec

===============================================================================
