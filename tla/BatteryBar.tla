------------------------------ MODULE BatteryBar ------------------------------
(***************************************************************************)
(* Two functions for the user's sight of the battery: a voltage made a     *)
(* percentage by the program (readBatterGauge of encoder.c), and a         *)
(* percentage made a bar of five lights by the Arduino (batteryState).     *)
(* Nothing joins them: the battery thread sends a buffer that nobody has   *)
(* filled (encoder.c, setBatteryGauge), so no gauge reaches the Arduino,   *)
(* and what is said of each here is said of it alone.                      *)
(***************************************************************************)
LOCAL INSTANCE Integers

MaxBattery == 24300
MinBattery == 11400
LowRate == 30

\* Mutant of Gauge: above the knee the whole range counts.
Mut_GaugeWhole(analog) ==
    LET full == MaxBattery - MinBattery
        current == analog - MinBattery
        fast == (full * LowRate) \div 100
        rate == LowRate \div 2
    IN  CASE current > fast -> (current * (100 - rate)) \div (full - fast) + rate
          [] current > 0 /\ current <= fast -> (current * rate) \div fast
          [] OTHER -> 0

\* readBatterGauge: the lowest LowRate percent of the range count half.
Gauge(analog) ==
    LET full == MaxBattery - MinBattery
        current == analog - MinBattery
        fast == (full * LowRate) \div 100
        rate == LowRate \div 2
    IN  CASE current > fast -> ((current - fast) * (100 - rate)) \div (full - fast) + rate
          [] current > 0 /\ current <= fast -> (current * rate) \div fast
          [] OTHER -> 0

Lights == 0..4

\* batteryUpdate.
AllButLast(off) == [i \in Lights |-> IF i < 5 - off THEN "green" ELSE "off"]

Bar(gauge) ==
    CASE gauge > 80 -> AllButLast(0)
      [] gauge \in 61..80 -> AllButLast(1)
      [] gauge \in 41..60 -> AllButLast(2)
      [] gauge \in 21..40 -> AllButLast(3)
      [] gauge \in 1..20 -> AllButLast(4)
      [] OTHER -> [i \in Lights |-> IF i = 0 THEN "red" ELSE "off"]

\* A little more voltage is never less of a gauge, and never more than one percent
\* more, at the knee too; the gauge is 0 at the least voltage and 100 at the greatest.
GaugeRises(analog) ==
    LET less == Gauge(analog)
        more == Gauge(analog + 1)
    IN  /\ more \in {less, less + 1}
        /\ analog <= MinBattery => less = 0
        /\ analog <= MaxBattery => less \in 0..100
        /\ analog = MaxBattery => less = 100

\* Of any number that a line may bring, one more puts out no light, and the bar is red
\* just where no light is green.
LightsRise(gauge) ==
    LET green(g) == {i \in Lights : Bar(g)[i] = "green"}
    IN  /\ green(gauge) \subseteq green(gauge + 1)
        /\ (green(gauge) = {}) = (Bar(gauge)[0] = "red")
=============================================================================
